---------------------------- MODULE FanoutProofs ----------------------------
(***************************************************************************)
(* Proofs about Fanout, for any number of clients, channels, workers and   *)
(* byte slices, any replay buffer and any number of broadcasts.            *)
(***************************************************************************)
EXTENDS Fanout, FiniteSetTheorems, SequenceTheorems, TLAPS

USE DEF clientVars, bufVars

-----------------------------------------------------------------------------
(***************************************************************************)
(* The slices of the index: no client is listed twice, and what adding and *)
(* removing do to the set of clients they list.                            *)
(***************************************************************************)
NoRepeats(list) == \A i, j \in 1..Len(list) : list[i] = list[j] => i = j

\* A position that is not the last comes before the last.
LEMMA NotLast ==
    ASSUME NEW n \in Nat, NEW i \in 1..n, i # n
    PROVE  i \in 1..(n - 1)
  OBVIOUS

\* The elements of a list, by their positions.
LEMMA ListElements ==
    ASSUME NEW S, NEW list \in Seq(S)
    PROVE  /\ \A x : x \in ToSet(list) <=> \E i \in 1..Len(list) : list[i] = x
           /\ ToSet(list) \subseteq S
           /\ Len(list) \in Nat
           /\ ToSet(list) = {} <=> list = <<>>
<1>1. Len(list) \in Nat /\ DOMAIN list = 1..Len(list) /\ list \in [1..Len(list) -> S]
  BY LenProperties
<1>2. list # <<>> => Len(list) >= 1
  BY EmptySeq
<1>3. Len(<<>>) = 0
  BY EmptySeq
<1>4. \A x : x \in ToSet(list) <=> \E i \in 1..Len(list) : list[i] = x
  BY <1>1 DEF ToSet
<1>5. ToSet(list) \subseteq S
  BY <1>1, <1>4
<1>6. ToSet(list) = {} <=> list = <<>>
  <2>1. list = <<>> => ToSet(list) = {}
    BY <1>1, <1>3, <1>4
  <2>2. list # <<>> => list[1] \in ToSet(list)
    BY <1>1, <1>2, <1>4
  <2>3. QED
    BY <2>1, <2>2
<1>7. QED
  BY <1>1, <1>4, <1>5, <1>6

\* A list without repetitions has as many elements as its set.
LEMMA NoRepeatsCardinality ==
    ASSUME NEW S, NEW list \in Seq(S), NoRepeats(list)
    PROVE  Cardinality(ToSet(list)) = Len(list)
<1>1. /\ Len(list) \in Nat /\ DOMAIN list = 1..Len(list)
      /\ list \in [1..Len(list) -> ToSet(list)]
  BY LenProperties DEF ToSet
<1>2. list \in Injection(1..Len(list), ToSet(list))
  BY <1>1 DEF Injection, IsInjective, NoRepeats
<1>3. list \in Surjection(1..Len(list), ToSet(list))
  BY <1>1 DEF Surjection, ToSet
<1>4. ExistsBijection(1..Len(list), ToSet(list))
  BY <1>2, <1>3 DEF Bijection, ExistsBijection
<1>5. IsFiniteSet(1..Len(list)) /\ Cardinality(1..Len(list)) = Len(list)
  BY <1>1, FS_Interval
<1>6. QED
  BY <1>4, <1>5, FS_Bijection

\* AddMultiple for one channel adds the client to the set.
LEMMA AddToListAdds ==
    ASSUME NEW c \in Clients, NEW list \in Seq(Clients), NoRepeats(list)
    PROVE  /\ AddToList(list, c) \in Seq(Clients)
           /\ NoRepeats(AddToList(list, c))
           /\ ToSet(AddToList(list, c)) = ToSet(list) \cup {c}
<1>1. CASE c \in ToSet(list)
  BY <1>1 DEF AddToList
<1>2. CASE c \notin ToSet(list)
  <2> DEFINE longer == Append(list, c)
  <2>1. /\ longer \in Seq(Clients) /\ Len(longer) = Len(list) + 1
        /\ \A i \in 1..Len(list) : longer[i] = list[i]
        /\ longer[Len(list) + 1] = c
    BY AppendProperties
  <2>2. \A i \in 1..Len(list) : list[i] # c
    BY <1>2, ListElements
  <2>3. Len(list) \in Nat
    BY ListElements
  <2> HIDE DEF longer
  <2>4. NoRepeats(longer)
    BY <2>1, <2>2, <2>3 DEF NoRepeats
  <2>5. \A x : x \in ToSet(longer) <=> x \in ToSet(list) \cup {c}
    BY <2>1, <2>3, ListElements
  <2>6. QED
    BY <1>2, <2>1, <2>4, <2>5 DEF AddToList, longer
<1>3. QED
  BY <1>1, <1>2

\* Remove for one channel takes the client, and nobody else, from the set.
LEMMA RemoveFromListRemoves ==
    ASSUME NEW c \in Clients, NEW list \in Seq(Clients), NoRepeats(list)
    PROVE  /\ RemoveFromList(list, c) \in Seq(Clients)
           /\ NoRepeats(RemoveFromList(list, c))
           /\ ToSet(RemoveFromList(list, c)) = ToSet(list) \ {c}
<1>1. CASE c \notin ToSet(list)
  BY <1>1 DEF RemoveFromList
<1>2. CASE c \in ToSet(list)
  <2> DEFINE First(k) == list[k] = c /\ \A j \in 1..(k - 1) : list[j] # c
             i == CHOOSE k \in DOMAIN list : First(k)
             n == Len(list)
             swapped == [list EXCEPT ![i] = Last(list)]
             shorter == SubSeq(swapped, 1, n - 1)
  <2>0. n \in Nat
    BY LenProperties
  <2>1. n \in Nat /\ DOMAIN list = 1..n
    BY LenProperties
  <2>2. i \in 1..n /\ list[i] = c
    <3>1. PICK k \in 1..n : list[k] = c
      BY <1>2, ListElements
    <3>2. \A j \in 1..(k - 1) : list[j] # c
      BY <2>1, <3>1 DEF NoRepeats
    <3>3. \E m \in DOMAIN list : First(m)
      BY <2>1, <3>1, <3>2
    <3>4. QED
      BY <2>1, <3>3
  <2>3. Last(list) = list[n] /\ list[n] \in Clients
    BY <2>1, <2>2, ElementOfSeq DEF Last
  <2> HIDE DEF i
  <2>4. /\ swapped \in Seq(Clients) /\ Len(swapped) = n
        /\ \A j \in 1..n : swapped[j] = IF j = i THEN list[n] ELSE list[j]
    BY <2>2, <2>3, ExceptSeq
  <2>5. \A j \in 1..(n - 1) : swapped[j] \in Clients
    BY <2>1, <2>4, ElementOfSeq
  <2>6. /\ shorter \in Seq(Clients) /\ Len(shorter) = n - 1
        /\ \A j \in 1..(n - 1) : shorter[j] = swapped[j]
    <3>1. /\ shorter \in Seq(Clients)
          /\ Len(shorter) = IF 1 <= n - 1 THEN (n - 1) - 1 + 1 ELSE 0
          /\ \A j \in 1..((n - 1) - 1 + 1) : shorter[j] = swapped[1 + j - 1]
      <4> HIDE DEF swapped
      <4>1. QED
        BY <2>1, <2>5, SubSeqProperties
    <3> HIDE DEF shorter, swapped
    <3>2. n - 1 \in Nat /\ (n - 1) - 1 + 1 = n - 1
      BY <2>1, <2>2
    <3>3. Len(shorter) = n - 1
      <4>1. CASE 1 <= n - 1
        BY <3>1, <3>2, <4>1
      <4>2. CASE ~(1 <= n - 1)
        BY <3>1, <3>2, <4>2
      <4>3. QED
        BY <4>1, <4>2
    <3>4. ASSUME NEW j \in 1..(n - 1) PROVE shorter[j] = swapped[j]
      <4>1. j \in 1..((n - 1) - 1 + 1) /\ 1 + j - 1 = j
        BY <3>2
      <4>2. QED
        BY <3>1, <4>1
    <3>5. QED
      BY <3>1, <3>3, <3>4
  <2> HIDE DEF shorter, swapped
  <2>7. \A j \in 1..(n - 1) : shorter[j] = IF j = i THEN list[n] ELSE list[j]
    BY <2>1, <2>4, <2>6
  <2>8. NoRepeats(shorter)
    BY <2>1, <2>2, <2>6, <2>7 DEF NoRepeats
  <2>9. \A x : x \in ToSet(shorter) <=> x \in ToSet(list) \ {c}
    <3>1. ASSUME NEW x, x \in ToSet(shorter) PROVE x \in ToSet(list) \ {c}
      <4>1. PICK j \in 1..(n - 1) : shorter[j] = x
        BY <2>6, <3>1, ListElements
      <4>2. QED
        BY <2>1, <2>2, <2>7, <4>1, ListElements DEF NoRepeats
    <3>2. ASSUME NEW x, x \in ToSet(list) \ {c} PROVE x \in ToSet(shorter)
      <4>1. PICK j \in 1..n : list[j] = x /\ j # i
        BY <2>2, <3>2, ListElements
      <4>2. CASE j = n
        <5>1. i \in 1..(n - 1)
          BY <2>0, <2>2, <4>1, <4>2, NotLast
        <5>2. shorter[i] = x
          BY <2>7, <4>1, <4>2, <5>1
        <5>3. QED
          BY <2>6, <5>1, <5>2, ListElements
      <4>3. CASE j # n
        <5>1. j \in 1..(n - 1)
          BY <2>0, <4>3, NotLast
        <5>2. shorter[j] = x
          BY <2>7, <4>1, <5>1
        <5>3. QED
          BY <2>6, <5>1, <5>2, ListElements
      <4>4. QED
        BY <4>2, <4>3
    <3>3. QED
      BY <3>1, <3>2
  <2>10. RemoveFromList(list, c) = shorter
    BY <1>2 DEF RemoveFromList, shorter, swapped, i
  <2>11. QED
    BY <2>6, <2>8, <2>9, <2>10
<1>3. QED
  BY <1>1, <1>2

\* Serving the head of a copy takes it, and nobody else, from what is left.
LEMMA TailRemovesHead ==
    ASSUME NEW list \in Seq(Clients), list # <<>>, NoRepeats(list)
    PROVE  /\ Head(list) \in Clients /\ Head(list) \in ToSet(list)
           /\ Tail(list) \in Seq(Clients) /\ NoRepeats(Tail(list))
           /\ ToSet(Tail(list)) = ToSet(list) \ {Head(list)}
<1>1. /\ Head(list) \in Clients
      /\ Tail(list) \in Seq(Clients) /\ Len(Tail(list)) = Len(list) - 1
      /\ \A i \in 1..Len(Tail(list)) : Tail(list)[i] = list[i + 1]
  BY HeadTailProperties
<1>2. Len(list) \in Nat /\ Len(list) >= 1 /\ Head(list) = list[1]
  BY EmptySeq
<1>3. NoRepeats(Tail(list))
  BY <1>1, <1>2 DEF NoRepeats
<1>4. \A x : x \in ToSet(Tail(list)) <=> x \in ToSet(list) \ {Head(list)}
  <2>1. ASSUME NEW x, x \in ToSet(Tail(list)) PROVE x \in ToSet(list) \ {Head(list)}
    <3>1. PICK i \in 1..Len(Tail(list)) : Tail(list)[i] = x
      BY <1>1, <2>1, ListElements
    <3>2. i + 1 \in 1..Len(list) /\ list[i + 1] = x /\ i + 1 # 1
      BY <1>1, <1>2, <3>1
    <3>3. QED
      BY <1>2, <3>2, ListElements DEF NoRepeats
  <2>2. ASSUME NEW x, x \in ToSet(list) \ {Head(list)} PROVE x \in ToSet(Tail(list))
    <3>1. PICK i \in 1..Len(list) : list[i] = x /\ i # 1
      BY <1>2, <2>2, ListElements
    <3>2. i - 1 \in 1..Len(Tail(list)) /\ (i - 1) + 1 = i
      BY <1>1, <1>2, <3>1
    <3>3. Tail(list)[i - 1] = x
      BY <1>1, <3>1, <3>2
    <3>4. \E j \in 1..Len(Tail(list)) : Tail(list)[j] = x
      BY <3>2, <3>3
    <3>5. QED
      BY <1>1, <3>4, ListElements
  <2>3. QED
    BY <2>1, <2>2
<1>5. Head(list) \in ToSet(list)
  BY <1>2, ListElements
<1>6. QED
  BY <1>1, <1>3, <1>4, <1>5

-----------------------------------------------------------------------------
(***************************************************************************)
(* Types.  A replay buffer never exceeds its size because the worker that  *)
(* has made room holds the lock until it has stored: one worker at a time, *)
(* and no Clear.                                                           *)
(***************************************************************************)
Entry == [buf : Bufs, env : Envelopes]
Job == [pc : {"idle", "serve", "store"}, todo : Seq(Clients),
        msg : 0..MaxMsgs, size : Sizes \cup {0}]

\* The part of TypeOK that is about byte slices, and the rest.
PoolOK ==
    /\ content \in [Bufs -> Envelopes \cup {Empty}] /\ cap \in [Bufs -> 1..4]
    /\ pool \in [Tiers -> SUBSET Bufs]
    /\ \A t \in Tiers : \A b \in pool[t] : cap[b] = t

EntriesOK ==
    /\ entries \in [Clients -> Seq(Entry)]
    /\ \A c \in Clients : Len(entries[c]) <= ReplaySize

WorkersOK ==
    /\ worker \in [Workers -> Job]
    /\ \A w \in Workers : worker[w].todo = <<>> <=> worker[w].pc = "idle"

ClientsOK ==
    /\ index \in [Channels -> Seq(Clients)]
    /\ state \in [Clients -> {"out", "joining", "in", "left"}]
    /\ cleared \in [Clients -> 0..ReplaySize]
    /\ published \in 0..MaxMsgs

\* What a worker carries while it is busy.
BusyHasMessage ==
    \A w \in Workers : worker[w].pc # "idle" =>
        worker[w].msg \in 1..MaxMsgs /\ worker[w].size \in Sizes

\* rb.mu.
OneHolder ==
    \A v, w \in Workers :
        /\ worker[v].pc = "store" /\ worker[w].pc = "store"
        /\ Head(worker[v].todo) = Head(worker[w].todo)
        => v = w

HolderHasRoom ==
    \A w \in Workers : worker[w].pc = "store" =>
        LET c == Head(worker[w].todo)
        IN  cleared[c] = 0 /\ Len(entries[c]) < ReplaySize

LockInv == BusyHasMessage /\ OneHolder /\ HolderHasRoom

TypeInv == PoolOK /\ EntriesOK /\ WorkersOK /\ ClientsOK /\ LockInv

\* The parts make up the type invariant.
LEMMA TypeParts == TypeOK <=> PoolOK /\ EntriesOK /\ WorkersOK /\ ClientsOK
  BY DEF TypeOK, PoolOK, EntriesOK, WorkersOK, ClientsOK, Entry, Job

\* The tiers of the pool.
LEMMA TierOfSize == \A size \in 1..4 : Tier(size) \in Tiers /\ Tier(size) \in 1..3
  BY DEF Tier, Tiers

\* Nothing is there at the start.
LEMMA TypeInit == Init => TypeInv
<1> SUFFICES ASSUME Init PROVE TypeInv
  OBVIOUS
<1>1. PoolOK
  BY DEF Init, PoolOK
<1>2. EntriesOK
  BY FanoutAssumption, EmptySeq DEF Init, EntriesOK
<1>3. WorkersOK /\ LockInv
  BY FanoutAssumption, EmptySeq
     DEF Init, WorkersOK, Job, LockInv, BusyHasMessage, OneHolder, HolderHasRoom
<1>4. ClientsOK
  BY FanoutAssumption, EmptySeq DEF Init, ClientsOK
<1>5. QED
  BY <1>1, <1>2, <1>3, <1>4 DEF TypeInv

\* Returning a byte slice to the pool.
LEMMA PutKeepsPool ==
    ASSUME PoolOK, NEW b \in Bufs, PoolPut(b)
    PROVE  PoolOK'
<1>1. content' \in [Bufs -> Envelopes \cup {Empty}]
  BY DEF PoolOK, PoolPut
<1>2. CASE cap[b] <= 3
  <2>1. cap[b] \in Tiers
    BY <1>2 DEF PoolOK, Tiers
  <2>2. cap' = cap /\ pool' = [pool EXCEPT ![cap[b]] = @ \cup {b}]
    BY <1>2 DEF PoolPut
  <2>3. QED
    BY <1>1, <2>1, <2>2 DEF PoolOK
<1>3. CASE ~(cap[b] <= 3)
  <2>1. pool' = pool /\ cap' = [cap EXCEPT ![b] = 1]
    BY <1>3 DEF PoolPut
  <2>2. \A t \in Tiers : b \notin pool[t]
    BY <1>3 DEF PoolOK, Tiers
  <2>3. QED
    BY <1>1, <2>1, <2>2 DEF PoolOK
<1>4. QED
  BY <1>2, <1>3

\* Taking one from the pool, or allocating one, and filling it.
LEMMA GetKeepsPool ==
    ASSUME PoolOK, NEW b \in Bufs, NEW size \in 1..4, NEW env \in Envelopes,
           PoolGetAppend(b, size, env)
    PROVE  /\ PoolOK'
           /\ b \notin Pooled'
           /\ Pooled' \subseteq Pooled
<1>1. content' \in [Bufs -> Envelopes \cup {Empty}]
  BY DEF PoolOK, PoolGetAppend
<1>2. CASE /\ b \in pool[Tier(size)] /\ pool' = [pool EXCEPT ![Tier(size)] = @ \ {b}]
           /\ cap' = [cap EXCEPT ![b] = IF size > @ THEN size ELSE @]
  <2>1. cap' \in [Bufs -> 1..4]
    BY <1>2 DEF PoolOK
  <2>2. pool' \in [Tiers -> SUBSET Bufs]
    BY <1>2 DEF PoolOK
  <2>3. \A t \in Tiers : b \notin pool'[t] /\ pool'[t] \subseteq pool[t]
    BY <1>2, TierOfSize DEF PoolOK
  <2>4. \A t \in Tiers : \A a \in pool'[t] : cap'[a] = t
    BY <1>2, <2>3 DEF PoolOK
  <2>5. QED
    BY <1>1, <2>1, <2>2, <2>3, <2>4 DEF PoolOK, Pooled
<1>3. CASE b \in Unreferenced /\ pool' = pool /\ cap' = [cap EXCEPT ![b] = size]
  <2>1. b \notin Pooled /\ Pooled' = Pooled
    BY <1>3 DEF Unreferenced, Pooled
  <2>2. QED
    BY <1>1, <1>3, <2>1 DEF PoolOK, Pooled
<1>4. QED
  BY <1>2, <1>3 DEF PoolGetAppend

\* Subscriptions and the two ends of a connection.
LEMMA TypeIndex ==
    ASSUME TypeInv, \A ch \in Channels : NoRepeats(index[ch]),
           NEW c \in Clients, NEW chs \in SUBSET Channels,
           Subscribe(c, chs) \/ Unsubscribe(c, chs) \/ Leave(c) \/ Join(c)
    PROVE  TypeInv'
<1>1. index \in [Channels -> Seq(Clients)]
  BY DEF TypeInv, ClientsOK
<1>2. index' \in [Channels -> Seq(Clients)]
  BY <1>1, AddToListAdds, RemoveFromListRemoves DEF Subscribe, Unsubscribe, Leave, Join
<1>3. state' \in [Clients -> {"out", "joining", "in", "left"}]
  BY DEF TypeInv, ClientsOK, Subscribe, Unsubscribe, Leave, Join
<1>4. UNCHANGED <<cleared, worker, published, bufVars>>
  BY DEF Subscribe, Unsubscribe, Leave, Join
<1>5. QED
  BY <1>2, <1>3, <1>4
     DEF TypeInv, ClientsOK, PoolOK, EntriesOK, WorkersOK, LockInv, BusyHasMessage,
         OneHolder, HolderHasRoom

\* Clear returns the buffers, then empties the slice.
LEMMA TypeClear ==
    ASSUME TypeInv, NEW c \in Clients, ClearPuts(c) \/ ClearEnds(c)
    PROVE  TypeInv'
<1>0. /\ entries[c] \in Seq(Entry) /\ Len(entries[c]) \in Nat /\ Len(entries[c]) <= ReplaySize
      /\ cleared[c] \in Nat /\ ReplaySize \in Nat
  BY FanoutAssumption, LenProperties DEF TypeInv, EntriesOK, ClientsOK
<1>1. \A w \in Workers : worker[w].pc = "store" => Head(worker[w].todo) # c
  BY DEF ClearPuts, ClearEnds, WorkerHolds
<1>2. CASE ClearPuts(c)
  <2>1. entries[c][cleared[c] + 1].buf \in Bufs
    <3>1. cleared[c] + 1 \in 1..Len(entries[c])
      BY <1>0, <1>2 DEF ClearPuts
    <3>2. entries[c][cleared[c] + 1] \in Entry
      BY <1>0, <3>1, ElementOfSeq
    <3>3. QED
      BY <3>2 DEF Entry
  <2>2. PoolOK'
    BY <1>2, <2>1, PutKeepsPool DEF TypeInv, ClearPuts
  <2>3. /\ cleared' = [cleared EXCEPT ![c] = @ + 1] /\ cleared[c] + 1 \in 0..ReplaySize
        /\ UNCHANGED <<index, state, worker, published, entries>>
    BY <1>0, <1>2 DEF ClearPuts
  <2>4. ClientsOK' /\ EntriesOK' /\ WorkersOK'
    BY <2>3 DEF TypeInv, ClientsOK, EntriesOK, WorkersOK
  <2>5. LockInv'
    BY <1>1, <2>3 DEF TypeInv, ClientsOK, LockInv, BusyHasMessage, OneHolder, HolderHasRoom
  <2>6. QED
    BY <2>2, <2>4, <2>5 DEF TypeInv
<1>3. CASE ClearEnds(c)
  <2>1. /\ cleared' = [cleared EXCEPT ![c] = 0] /\ entries' = [entries EXCEPT ![c] = <<>>]
        /\ state' = [state EXCEPT ![c] = IF @ = "left" THEN "out" ELSE "in"]
        /\ UNCHANGED <<index, worker, published, pool, cap, content>>
    BY <1>3 DEF ClearEnds
  <2>2. PoolOK' /\ WorkersOK'
    BY <2>1 DEF TypeInv, PoolOK, WorkersOK
  <2>3. EntriesOK'
    BY <1>0, <2>1, EmptySeq DEF TypeInv, EntriesOK
  <2>4. ClientsOK'
    BY <1>0, <2>1 DEF TypeInv, ClientsOK
  <2>5. LockInv'
    BY <1>1, <2>1 DEF TypeInv, EntriesOK, ClientsOK, LockInv, BusyHasMessage, OneHolder,
                      HolderHasRoom
  <2>6. QED
    BY <2>2, <2>3, <2>4, <2>5 DEF TypeInv
<1>4. QED
  BY <1>2, <1>3

\* A garbage collection.
LEMMA TypeCollect ==
    ASSUME TypeInv, NEW b \in Bufs, Collect(b)
    PROVE  TypeInv'
<1>1. PoolOK'
  BY DEF TypeInv, PoolOK, Collect, Tiers
<1>2. QED
  BY <1>1 DEF TypeInv, EntriesOK, WorkersOK, ClientsOK, LockInv, BusyHasMessage,
              OneHolder, HolderHasRoom, Collect

\* A broadcast begins with a copy of the slice.
LEMMA TypeLookup ==
    ASSUME TypeInv, NEW w \in Workers, NEW ch \in Channels, NEW size \in Sizes,
           Lookup(w, ch, size)
    PROVE  TypeInv'
<1>1. published + 1 \in 1..MaxMsgs
  BY FanoutAssumption DEF TypeInv, ClientsOK, Lookup
<1>2. index[ch] \in Seq(Clients) /\ index[ch] # <<>>
  BY DEF TypeInv, ClientsOK, Lookup
<1>3. /\ worker' = [worker EXCEPT ![w] = [pc |-> "serve", todo |-> index[ch],
                                          msg |-> published + 1, size |-> size]]
      /\ published' = published + 1
      /\ UNCHANGED <<clientVars, bufVars>>
  BY DEF Lookup
<1>4. WorkersOK' /\ BusyHasMessage'
  BY <1>1, <1>2, <1>3 DEF TypeInv, WorkersOK, Job, LockInv, BusyHasMessage
<1>5. ClientsOK' /\ PoolOK' /\ EntriesOK'
  BY <1>1, <1>3 DEF TypeInv, ClientsOK, PoolOK, EntriesOK
<1>6. OneHolder' /\ HolderHasRoom'
  BY <1>3 DEF TypeInv, WorkersOK, LockInv, OneHolder, HolderHasRoom
<1>7. QED
  BY <1>4, <1>5, <1>6 DEF TypeInv, LockInv

\* What a busy worker is at.
LEMMA BusyWorker ==
    ASSUME TypeInv, NEW w \in Workers, worker[w].pc # "idle"
    PROVE  /\ worker[w] \in Job /\ worker[w].todo \in Seq(Clients)
           /\ worker[w].todo # <<>> /\ Head(worker[w].todo) \in Clients
           /\ Len(worker[w].todo) \in Nat \ {0}
           /\ Tail(worker[w].todo) \in Seq(Clients)
           /\ Len(Tail(worker[w].todo)) = Len(worker[w].todo) - 1
           /\ worker[w].msg \in 1..MaxMsgs /\ worker[w].size \in Sizes
           /\ worker[w].size \in 1..4
<1>1. worker[w] \in Job /\ worker[w].todo \in Seq(Clients) /\ worker[w].todo # <<>>
  BY DEF TypeInv, WorkersOK, Job
<1>2. QED
  BY <1>1, HeadTailProperties, EmptySeq, FanoutAssumption
     DEF TypeInv, LockInv, BusyHasMessage

\* Making room, with the lock taken.
LEMMA TypeEvict ==
    ASSUME TypeInv, NEW w \in Workers, Evict(w)
    PROVE  TypeInv'
<1> DEFINE c == Head(worker[w].todo)
<1>0. worker[w].pc = "serve" /\ ~Locked(c) /\ worker' = [worker EXCEPT ![w].pc = "store"]
  BY DEF Evict
<1>1. c \in Clients /\ worker[w] \in Job
  BY <1>0, BusyWorker
<1>2. UNCHANGED <<clientVars, published>>
  BY DEF Evict
<1>3. cleared[c] = 0 /\ \A v \in Workers : worker[v].pc = "store" => Head(worker[v].todo) # c
  BY <1>0, <1>1 DEF Locked, ClearHolds, WorkerHolds, TypeInv, ClientsOK
<1>4. /\ entries[c] \in Seq(Entry) /\ Len(entries[c]) \in Nat
      /\ ReplaySize \in Nat \ {0} /\ Len(entries[c]) <= ReplaySize
  BY <1>1, LenProperties, FanoutAssumption DEF TypeInv, EntriesOK
<1> HIDE DEF c
<1>5. PoolOK' /\ EntriesOK' /\ Len(entries'[c]) < ReplaySize
      /\ \A d \in Clients : Len(entries'[d]) <= Len(entries[d])
  <2>1. CASE Len(entries[c]) >= ReplaySize
    <3>1. /\ entries[c] # <<>> /\ Head(entries[c]) \in Entry /\ Tail(entries[c]) \in Seq(Entry)
          /\ Len(Tail(entries[c])) = Len(entries[c]) - 1
      <4>1. entries[c] # <<>>
        BY <1>4, <2>1, EmptySeq
      <4>2. QED
        BY <1>4, <4>1, HeadTailProperties
    <3>2. PoolPut(Head(entries[c]).buf) /\ entries' = [entries EXCEPT ![c] = Tail(@)]
      BY <2>1 DEF Evict, c
    <3>3. PoolOK'
      BY <3>1, <3>2, PutKeepsPool DEF TypeInv, Entry
    <3>4. EntriesOK'
      BY <1>1, <1>4, <3>1, <3>2 DEF TypeInv, EntriesOK
    <3>5. \A d \in Clients : Len(entries[d]) \in Nat
      BY LenProperties DEF TypeInv, EntriesOK
    <3>6. QED
      BY <1>1, <1>4, <3>1, <3>2, <3>3, <3>4, <3>5 DEF TypeInv, EntriesOK
  <2>2. CASE ~(Len(entries[c]) >= ReplaySize)
    <3>1. UNCHANGED bufVars
      BY <2>2 DEF Evict, c
    <3>2. \A d \in Clients : Len(entries[d]) \in Nat
      BY LenProperties DEF TypeInv, EntriesOK
    <3>3. QED
      BY <1>4, <2>2, <3>1, <3>2 DEF TypeInv, PoolOK, EntriesOK
  <2>3. QED
    BY <2>1, <2>2
<1>6. WorkersOK' /\ BusyHasMessage'
  BY <1>0, <1>1 DEF TypeInv, WorkersOK, Job, LockInv, BusyHasMessage
<1>7. ClientsOK'
  BY <1>2 DEF TypeInv, ClientsOK
<1>8. /\ worker'[w].pc = "store" /\ Head(worker'[w].todo) = c
      /\ \A v \in Workers \ {w} : worker'[v] = worker[v]
  BY <1>0 DEF TypeInv, WorkersOK, Job, c
<1>9. OneHolder'
  BY <1>3, <1>8 DEF TypeInv, LockInv, OneHolder
<1>10. HolderHasRoom'
  <2>1. ASSUME NEW v \in Workers, worker'[v].pc = "store"
        PROVE  LET d == Head(worker'[v].todo)
               IN  cleared'[d] = 0 /\ Len(entries'[d]) < ReplaySize
    <3>1. CASE v = w
      BY <1>2, <1>3, <1>5, <1>8, <3>1
    <3>2. CASE v # w
      <4>1. worker'[v] = worker[v] /\ worker[v].pc = "store"
        BY <1>8, <2>1, <3>2
      <4>2. /\ Head(worker[v].todo) \in Clients
            /\ cleared[Head(worker[v].todo)] = 0
            /\ Len(entries[Head(worker[v].todo)]) < ReplaySize
        BY <4>1, BusyWorker DEF TypeInv, LockInv, HolderHasRoom
      <4>3. /\ Len(entries[Head(worker[v].todo)]) \in Nat
            /\ Len(entries'[Head(worker[v].todo)]) \in Nat
        BY <1>5, <4>2, LenProperties DEF TypeInv, EntriesOK
      <4>4. QED
        BY <1>2, <1>4, <1>5, <4>1, <4>2, <4>3
    <3>3. QED
      BY <3>1, <3>2
  <2>2. QED
    BY <2>1 DEF HolderHasRoom
<1>11. QED
  BY <1>5, <1>6, <1>7, <1>9, <1>10 DEF TypeInv, LockInv

\* On to the next client, with the lock given back.
LEMMA TypeServed ==
    ASSUME TypeInv, NEW w \in Workers, worker[w].pc = "store", Served(w)
    PROVE  /\ WorkersOK' /\ BusyHasMessage' /\ OneHolder'
           /\ worker'[w].pc # "store"
           /\ worker'[w].todo = Tail(worker[w].todo)
           /\ \A v \in Workers \ {w} : worker'[v] = worker[v]
<1>0. /\ worker[w] \in Job
      /\ worker[w].todo \in Seq(Clients) /\ worker[w].todo # <<>>
      /\ Tail(worker[w].todo) \in Seq(Clients)
      /\ worker[w].msg \in 1..MaxMsgs /\ worker[w].size \in Sizes
  BY BusyWorker
<1> DEFINE rest == Tail(worker[w].todo)
           none == [pc |-> "idle", todo |-> <<>>, msg |-> 0, size |-> 0]
           more == [worker[w] EXCEPT !.pc = "serve", !.todo = rest]
           next == IF rest = <<>> THEN none ELSE more
<1>1. worker' = [worker EXCEPT ![w] = next]
  BY DEF Served
<1>2. /\ next \in Job /\ next.pc # "store" /\ next.todo = rest
      /\ next.todo = <<>> <=> next.pc = "idle"
      /\ next.pc # "idle" => next.msg \in 1..MaxMsgs /\ next.size \in Sizes
  <2>1. none \in Job
    BY FanoutAssumption, EmptySeq DEF Job
  <2>2. /\ more \in Job /\ more.pc = "serve" /\ more.todo = rest
        /\ more.msg = worker[w].msg /\ more.size = worker[w].size
    BY <1>0 DEF Job
  <2>3. CASE rest = <<>>
    BY <2>1, <2>3
  <2>4. CASE rest # <<>>
    BY <1>0, <2>2, <2>4
  <2>5. QED
    BY <2>3, <2>4
<1> HIDE DEF next
<1>3. worker'[w] = next /\ \A v \in Workers \ {w} : worker'[v] = worker[v]
  BY <1>1 DEF TypeInv, WorkersOK
<1>4. WorkersOK'
  BY <1>1, <1>2, <1>3 DEF TypeInv, WorkersOK
<1>5. BusyHasMessage' /\ OneHolder'
  BY <1>2, <1>3 DEF TypeInv, LockInv, BusyHasMessage, OneHolder
<1>6. QED
  BY <1>2, <1>3, <1>4, <1>5

\* Storing the entry.
LEMMA TypeStore ==
    ASSUME TypeInv, NEW w \in Workers, Store(w)
    PROVE  TypeInv'
<1> DEFINE c == Head(worker[w].todo)
           env == [to |-> c, msg |-> worker[w].msg]
<1>0. /\ worker[w].pc = "store" /\ c \in Clients /\ env \in Envelopes
      /\ worker[w].size \in 1..4
  BY BusyWorker DEF Store, Envelopes
<1>1. PICK b \in Bufs :
        /\ PoolGetAppend(b, worker[w].size, env)
        /\ entries' = [entries EXCEPT ![c] = Append(@, [buf |-> b, env |-> env])]
  BY DEF Store
<1>2. Served(w) /\ UNCHANGED <<clientVars, published>>
  BY DEF Store
<1> HIDE DEF c, env
<1>3. PoolOK'
  BY <1>0, <1>1, GetKeepsPool DEF TypeInv
<1>4. /\ entries[c] \in Seq(Entry) /\ Len(entries[c]) \in Nat /\ Len(entries[c]) < ReplaySize
      /\ cleared[c] = 0 /\ ReplaySize \in Nat
  BY <1>0, LenProperties, FanoutAssumption
     DEF TypeInv, EntriesOK, LockInv, HolderHasRoom, c
<1>5. /\ Append(entries[c], [buf |-> b, env |-> env]) \in Seq(Entry)
      /\ Len(Append(entries[c], [buf |-> b, env |-> env])) = Len(entries[c]) + 1
  BY <1>0, <1>4, AppendProperties DEF Entry
<1>6. EntriesOK'
  BY <1>0, <1>1, <1>4, <1>5 DEF TypeInv, EntriesOK
<1>7. WorkersOK' /\ BusyHasMessage' /\ OneHolder' /\ ClientsOK'
  BY <1>0, <1>2, TypeServed DEF TypeInv, ClientsOK
<1>8. HolderHasRoom'
  <2>1. ASSUME NEW v \in Workers, worker'[v].pc = "store"
        PROVE  LET d == Head(worker'[v].todo)
               IN  cleared'[d] = 0 /\ Len(entries'[d]) < ReplaySize
    <3>1. v # w /\ worker'[v] = worker[v] /\ worker[v].pc = "store"
      BY <1>0, <1>2, <2>1, TypeServed
    <3>2. Head(worker[v].todo) \in Clients /\ Head(worker[v].todo) # c
      BY <1>0, <3>1, BusyWorker DEF TypeInv, LockInv, OneHolder, c
    <3>3. entries'[Head(worker[v].todo)] = entries[Head(worker[v].todo)]
      BY <1>1, <3>2 DEF TypeInv, EntriesOK
    <3>4. QED
      BY <1>2, <3>1, <3>3 DEF TypeInv, LockInv, HolderHasRoom
  <2>2. QED
    BY <2>1 DEF HolderHasRoom
<1>9. QED
  BY <1>3, <1>6, <1>7, <1>8 DEF TypeInv, LockInv

-----------------------------------------------------------------------------
(***************************************************************************)
(* A broadcast addresses a client once.                                    *)
(***************************************************************************)
NobodyTwice ==
    /\ \A ch \in Channels : NoRepeats(index[ch])
    /\ \A w \in Workers : NoRepeats(worker[w].todo)

\* Subscriptions and the ends of a connection keep the slices free of
\* repetitions; the copies are copies of them, or what is left of one.
LEMMA OnceStep == TypeInv /\ NobodyTwice /\ [Next]_vars => NobodyTwice'
<1> SUFFICES ASSUME TypeInv, NobodyTwice, [Next]_vars PROVE NobodyTwice'
  OBVIOUS
<1>1. index \in [Channels -> Seq(Clients)]
  BY DEF TypeInv, ClientsOK
<1>2. ASSUME NEW c \in Clients, NEW chs \in SUBSET Channels,
             Subscribe(c, chs) \/ Unsubscribe(c, chs) \/ Leave(c)
      PROVE  NobodyTwice'
  BY <1>1, <1>2, AddToListAdds, RemoveFromListRemoves
     DEF NobodyTwice, Subscribe, Unsubscribe, Leave
<1>3. ASSUME NEW c \in Clients, Join(c) \/ ClearPuts(c) \/ ClearEnds(c)
      PROVE  NobodyTwice'
  BY <1>3 DEF NobodyTwice, Join, ClearPuts, ClearEnds
<1>4. ASSUME NEW w \in Workers, NEW ch \in Channels, NEW size \in Sizes,
             Lookup(w, ch, size)
      PROVE  NobodyTwice'
  BY <1>4 DEF NobodyTwice, Lookup, TypeInv, WorkersOK
<1>5. ASSUME NEW w \in Workers, Evict(w) PROVE NobodyTwice'
  BY <1>5 DEF NobodyTwice, Evict, TypeInv, WorkersOK, Job
<1>6. ASSUME NEW w \in Workers, Store(w) PROVE NobodyTwice'
  <2>1. worker[w].pc = "store" /\ Served(w) /\ UNCHANGED index
    BY <1>6 DEF Store
  <2>2. NoRepeats(Tail(worker[w].todo))
    BY <2>1, BusyWorker, TailRemovesHead DEF NobodyTwice
  <2>3. QED
    BY <2>1, <2>2, TypeServed DEF NobodyTwice
<1>7. CASE UNCHANGED vars \/ \E b \in Bufs : Collect(b)
  BY <1>7 DEF NobodyTwice, vars, Collect
<1>8. QED
  BY <1>2, <1>3, <1>4, <1>5, <1>6, <1>7 DEF Next, Client, Worker

\* Every step keeps the types.
LEMMA TypeStep == TypeInv /\ NobodyTwice /\ [Next]_vars => TypeInv'
<1> SUFFICES ASSUME TypeInv, NobodyTwice, [Next]_vars PROVE TypeInv'
  OBVIOUS
<1>1. CASE \E c \in Clients : Client(c)
  BY <1>1, TypeIndex, TypeClear DEF Client, NobodyTwice
<1>2. CASE \E w \in Workers : Worker(w)
  BY <1>2, TypeLookup, TypeEvict, TypeStore DEF Worker
<1>3. CASE \E b \in Bufs : Collect(b)
  BY <1>3, TypeCollect
<1>4. CASE UNCHANGED vars
  BY <1>4 DEF vars, TypeInv, PoolOK, EntriesOK, WorkersOK, ClientsOK, LockInv,
              BusyHasMessage, OneHolder, HolderHasRoom
<1>5. QED
  BY <1>1, <1>2, <1>3, <1>4 DEF Next

\* Nobody is listed at the start.
LEMMA OnceInit == Init => NobodyTwice
  BY EmptySeq DEF Init, NobodyTwice, NoRepeats

\* Every variable of the fan-out keeps its type: no replay buffer exceeds its
\* size, and every pooled slice has the capacity of its tier.
THEOREM FanoutTypes == Spec => []TypeOK
<1>1. TypeInv => TypeOK
  BY TypeParts DEF TypeInv
<1>2. QED
  BY <1>1, TypeInit, OnceInit, TypeStep, OnceStep, PTL DEF Spec

\* Whatever subscriptions, unsubscriptions and cleanups do to the slices, and
\* whenever a worker copies one, no broadcast addresses a client twice.
THEOREM NobodyAddressedTwice == Spec => []AddressedOnce
<1>1. TypeInv /\ NobodyTwice => AddressedOnce
  <2> SUFFICES ASSUME TypeInv, NobodyTwice PROVE AddressedOnce
    OBVIOUS
  <2>1. \A ch \in Channels : Cardinality(ToSet(index[ch])) = Len(index[ch])
    BY NoRepeatsCardinality DEF TypeInv, ClientsOK, NobodyTwice
  <2>2. \A w \in Workers : worker[w].todo \in Seq(Clients)
    BY DEF TypeInv, WorkersOK, Job
  <2>3. \A w \in Workers : Cardinality(ToSet(worker[w].todo)) = Len(worker[w].todo)
    BY <2>2, NoRepeatsCardinality DEF NobodyTwice
  <2>4. QED
    BY <2>1, <2>3 DEF AddressedOnce
<1>2. QED
  BY <1>1, TypeInit, OnceInit, TypeStep, OnceStep, PTL DEF Spec

-----------------------------------------------------------------------------
(***************************************************************************)
(* The slices and their copies implement the registry of sets.             *)
(***************************************************************************)
Present == {c \in Clients : state[c] = "in"}
Members == [ch \in Channels |-> ToSet(index[ch])]
Serving == [w \in Workers |-> ToSet(worker[w].todo)]

\* Nobody is present, subscribed or served at the start.
LEMMA RegistryInit == Init => SetRegistry!Init
<1> SUFFICES ASSUME Init PROVE SetRegistry!Init
  OBVIOUS
<1>1. ToSet(<<>>) = {}
  BY EmptySeq, ListElements
<1>2. QED
  BY <1>1 DEF Init, SetRegistry!Init

\* The operations on the slices are those on the sets.
LEMMA RegistryIndex ==
    ASSUME TypeInv, NobodyTwice, NEW c \in Clients, NEW chs \in SUBSET Channels
    PROVE  /\ Subscribe(c, chs) => SetRegistry!Subscribe(c, chs)
           /\ Unsubscribe(c, chs) => SetRegistry!Unsubscribe(c, chs)
           /\ Leave(c) => SetRegistry!Leave(c)
<1>1. \A ch \in Channels : index[ch] \in Seq(Clients) /\ NoRepeats(index[ch])
  BY DEF TypeInv, ClientsOK, NobodyTwice
<1>2. ASSUME Subscribe(c, chs) PROVE SetRegistry!Subscribe(c, chs)
  <2>1. \A ch \in Channels : ToSet(index'[ch]) =
              IF ch \in chs THEN ToSet(index[ch]) \cup {c} ELSE ToSet(index[ch])
    BY <1>1, <1>2, AddToListAdds DEF Subscribe
  <2>2. Members' = [ch \in Channels |-> IF ch \in chs THEN Members[ch] \cup {c}
                                                     ELSE Members[ch]]
    BY <2>1 DEF Members
  <2>3. c \in Present /\ Present' = Present /\ Serving' = Serving
    BY <1>2 DEF Subscribe, Present, Serving
  <2>4. QED
    BY <2>2, <2>3 DEF SetRegistry!Subscribe, Members, Present, Serving
<1>3. ASSUME Unsubscribe(c, chs) PROVE SetRegistry!Unsubscribe(c, chs)
  <2>1. \A ch \in Channels : ToSet(index'[ch]) =
              IF ch \in chs THEN ToSet(index[ch]) \ {c} ELSE ToSet(index[ch])
    BY <1>1, <1>3, RemoveFromListRemoves DEF Unsubscribe
  <2>2. Members' = [ch \in Channels |-> IF ch \in chs THEN Members[ch] \ {c}
                                                     ELSE Members[ch]]
    BY <2>1 DEF Members
  <2>3. c \in Present /\ Present' = Present /\ Serving' = Serving
    BY <1>3 DEF Unsubscribe, Present, Serving
  <2>4. QED
    BY <2>2, <2>3 DEF SetRegistry!Unsubscribe, Members, Present, Serving
<1>4. ASSUME Leave(c) PROVE SetRegistry!Leave(c)
  <2>1. \A ch \in Channels : ToSet(index'[ch]) = ToSet(index[ch]) \ {c}
    BY <1>1, <1>4, RemoveFromListRemoves DEF Leave
  <2>2. Members' = [ch \in Channels |-> Members[ch] \ {c}]
    BY <2>1 DEF Members
  <2>3. c \in Present /\ Present' = Present \ {c} /\ Serving' = Serving
    BY <1>4 DEF Leave, Present, Serving, TypeInv, ClientsOK
  <2>4. QED
    BY <2>2, <2>3 DEF SetRegistry!Leave, Members, Present, Serving
<1>5. QED
  BY <1>2, <1>3, <1>4

\* A connection is present once its Get has cleared the object; what comes
\* before and after is invisible.
LEMMA RegistryJoin ==
    ASSUME TypeInv, NEW c \in Clients, Join(c) \/ ClearPuts(c) \/ ClearEnds(c)
    PROVE  SetRegistry!Join(c) \/ UNCHANGED SetRegistry!vars
<1>1. Members' = Members /\ Serving' = Serving
  BY DEF Join, ClearPuts, ClearEnds, Members, Serving
<1>2. Present' = Present \/ (c \notin Present /\ Present' = Present \cup {c})
  BY DEF Join, ClearPuts, ClearEnds, Present, TypeInv, ClientsOK
<1>3. QED
  BY <1>1, <1>2 DEF SetRegistry!Join, SetRegistry!vars, Members, Serving, Present

\* A broadcast begins with everybody in the relation and serves one by one.
LEMMA RegistryServe ==
    ASSUME TypeInv, NobodyTwice, NEW w \in Workers
    PROVE  /\ \A ch \in Channels, size \in Sizes :
                  Lookup(w, ch, size) => SetRegistry!Broadcast(w, ch)
           /\ Evict(w) => UNCHANGED SetRegistry!vars
           /\ Store(w) => SetRegistry!Serve(w, Head(worker[w].todo))
<1>1. ASSUME NEW ch \in Channels, NEW size \in Sizes, Lookup(w, ch, size)
      PROVE  SetRegistry!Broadcast(w, ch)
  <2>1. ToSet(worker[w].todo) = {}
    BY <1>1, EmptySeq, ListElements DEF Lookup, TypeInv, WorkersOK
  <2>2. /\ worker'[w].todo = index[ch]
        /\ \A v \in Workers \ {w} : worker'[v].todo = worker[v].todo
    BY <1>1 DEF Lookup, TypeInv, WorkersOK
  <2>3. Serving' = [Serving EXCEPT ![w] = Members[ch]]
    BY <2>2 DEF Serving, Members
  <2>4. Present' = Present /\ Members' = Members
    BY <1>1 DEF Lookup, Present, Members
  <2>5. QED
    BY <2>1, <2>3, <2>4 DEF SetRegistry!Broadcast, Members, Serving, Present
<1>2. ASSUME Evict(w) PROVE UNCHANGED SetRegistry!vars
  <2>1. \A v \in Workers : worker'[v].todo = worker[v].todo
    BY <1>2 DEF Evict, TypeInv, WorkersOK, Job
  <2>2. UNCHANGED <<index, state>>
    BY <1>2 DEF Evict
  <2>3. QED
    BY <2>1, <2>2 DEF SetRegistry!vars
<1>3. ASSUME Store(w) PROVE SetRegistry!Serve(w, Head(worker[w].todo))
  <2>1. worker[w].pc = "store" /\ Served(w) /\ UNCHANGED <<index, state>>
    BY <1>3 DEF Store
  <2>2. /\ worker'[w].todo = Tail(worker[w].todo)
        /\ \A v \in Workers \ {w} : worker'[v].todo = worker[v].todo
    BY <2>1, TypeServed
  <2>3. /\ Head(worker[w].todo) \in ToSet(worker[w].todo)
        /\ ToSet(Tail(worker[w].todo)) = ToSet(worker[w].todo) \ {Head(worker[w].todo)}
    BY <2>1, BusyWorker, TailRemovesHead DEF NobodyTwice
  <2>4. Serving' = [Serving EXCEPT ![w] = @ \ {Head(worker[w].todo)}]
    BY <2>2, <2>3 DEF Serving
  <2>5. Present' = Present /\ Members' = Members
    BY <2>1 DEF Present, Members
  <2>6. QED
    BY <2>3, <2>4, <2>5 DEF SetRegistry!Serve, Members, Serving, Present
<1>4. QED
  BY <1>1, <1>2, <1>3

\* Every step is a step of the registry or invisible to it.
LEMMA RegistryStep ==
    TypeInv /\ NobodyTwice /\ [Next]_vars => [SetRegistry!Next]_(SetRegistry!vars)
<1> SUFFICES ASSUME TypeInv, NobodyTwice, [Next]_vars
             PROVE  SetRegistry!Next \/ UNCHANGED SetRegistry!vars
  OBVIOUS
<1>1. ASSUME NEW c \in Clients, NEW chs \in SUBSET Channels,
             Subscribe(c, chs) \/ Unsubscribe(c, chs) \/ Leave(c)
      PROVE  SetRegistry!Next
  BY <1>1, RegistryIndex DEF SetRegistry!Next
<1>2. ASSUME NEW c \in Clients, Join(c) \/ ClearPuts(c) \/ ClearEnds(c)
      PROVE  SetRegistry!Next \/ UNCHANGED SetRegistry!vars
  BY <1>2, RegistryJoin DEF SetRegistry!Next
<1>3. ASSUME NEW w \in Workers, Worker(w)
      PROVE  SetRegistry!Next \/ UNCHANGED SetRegistry!vars
  <2>1. Store(w) => Head(worker[w].todo) \in Clients
    BY BusyWorker DEF Store
  <2>2. QED
    BY <1>3, <2>1, RegistryServe DEF Worker, SetRegistry!Next
<1>4. CASE UNCHANGED vars \/ \E b \in Bufs : Collect(b)
  BY <1>4 DEF vars, Collect, SetRegistry!vars
<1>5. QED
  BY <1>1, <1>2, <1>3, <1>4 DEF Next, Client

\* The slices with their swaps and truncations, copied by workers that go on
\* while clients come and leave, are a relation; and every broadcast serves,
\* once, those who were in it when it began.
THEOREM IndexImplementsRegistry == Spec => ImplementsRegistry
  BY RegistryInit, RegistryStep, TypeInit, OnceInit, TypeStep, OnceStep, PTL
     DEF Spec, ImplementsRegistry, SetRegistry!Spec

-----------------------------------------------------------------------------
(***************************************************************************)
(* The entries of the replay buffers.  While a buffer is being cleared its *)
(* slices are in the pool or already with somebody else, although it still *)
(* refers to them; the property says nothing of it then, and what is       *)
(* inductive speaks of the entries Clear has not come to.                  *)
(***************************************************************************)
Live(c, i) == i \in 1..Len(entries[c]) /\ i > cleared[c]

LiveIntact ==
    \A c \in Clients, i \in Nat : Live(c, i) =>
        /\ entries[c][i].buf \notin Pooled
        /\ content[entries[c][i].buf] = entries[c][i].env
        /\ entries[c][i].env.to = c

LiveDistinct ==
    \A c, d \in Clients, i, j \in Nat :
        /\ Live(c, i) /\ Live(d, j)
        /\ entries[c][i].buf = entries[d][j].buf
        => c = d /\ i = j

LiveInv == LiveIntact /\ LiveDistinct

\* The entries and their lengths.
LEMMA EntryTypes ==
    ASSUME TypeInv, NEW c \in Clients
    PROVE  /\ entries[c] \in Seq(Entry) /\ Len(entries[c]) \in Nat
           /\ DOMAIN entries[c] = 1..Len(entries[c])
           /\ cleared[c] \in Nat
           /\ \A i \in 1..Len(entries[c]) :
                 entries[c][i] \in Entry /\ entries[c][i].buf \in Bufs
           /\ Len(entries[c]) <= ReplaySize
<1>1. entries[c] \in Seq(Entry) /\ Len(entries[c]) <= ReplaySize
  BY DEF TypeInv, EntriesOK
<1>2. cleared[c] \in Nat
  BY FanoutAssumption DEF TypeInv, ClientsOK
<1>3. \A i \in 1..Len(entries[c]) : entries[c][i] \in Entry
  BY <1>1, ElementOfSeq
<1>4. QED
  BY <1>1, <1>2, <1>3, LenProperties DEF Entry

\* Put adds one slice to the pool, and empties no other.
LEMMA PutEffect ==
    ASSUME PoolOK, NEW b \in Bufs, PoolPut(b)
    PROVE  /\ Pooled' \subseteq Pooled \cup {b}
           /\ \A a \in Bufs : a # b => content'[a] = content[a]
<1>1. \A t \in Tiers : pool'[t] \subseteq pool[t] \cup {b}
  BY DEF PoolOK, PoolPut
<1>2. Pooled' \subseteq Pooled \cup {b}
  BY <1>1 DEF Pooled
<1>3. QED
  BY <1>2 DEF PoolOK, PoolPut

\* A step that moves live entries, at most, keeps them intact: each is one of
\* before, at another place of the same buffer perhaps, and its slice was
\* neither returned nor written.
LEMMA LiveMoved ==
    ASSUME TypeInv, LiveInv, NEW b \in Bufs, NEW shift \in [Clients -> Nat],
           Pooled' \subseteq Pooled \cup {b},
           \A a \in Bufs : a # b => content'[a] = content[a],
           \A c \in Clients, i \in Nat : Live(c, i)' =>
               /\ Live(c, i + shift[c])
               /\ entries'[c][i] = entries[c][i + shift[c]]
               /\ entries[c][i + shift[c]].buf # b
    PROVE  LiveInv'
<1>1. ASSUME NEW c \in Clients, NEW i \in Nat, Live(c, i)'
      PROVE  /\ entries'[c][i].buf \notin Pooled'
             /\ content'[entries'[c][i].buf] = entries'[c][i].env
             /\ entries'[c][i].env.to = c
  <2>1. i + shift[c] \in Nat /\ Live(c, i + shift[c])
    BY <1>1
  <2>2. entries[c][i + shift[c]].buf \in Bufs
    BY <2>1, EntryTypes DEF Live
  <2>3. QED
    BY <1>1, <2>1, <2>2 DEF LiveInv, LiveIntact
<1>2. ASSUME NEW c \in Clients, NEW d \in Clients, NEW i \in Nat, NEW j \in Nat,
             Live(c, i)', Live(d, j)', entries'[c][i].buf = entries'[d][j].buf
      PROVE  c = d /\ i = j
  <2>1. /\ Live(c, i + shift[c]) /\ i + shift[c] \in Nat
        /\ Live(d, j + shift[d]) /\ j + shift[d] \in Nat
        /\ entries[c][i + shift[c]].buf = entries[d][j + shift[d]].buf
    BY <1>2
  <2>2. c = d /\ i + shift[c] = j + shift[d]
    BY <2>1 DEF LiveInv, LiveDistinct
  <2>3. QED
    BY <2>2
<1>3. QED
  BY <1>1, <1>2 DEF LiveInv, LiveIntact, LiveDistinct

\* Clear returns the slices of its own entries.
LEMMA LiveClear ==
    ASSUME TypeInv, LiveInv, NEW c \in Clients, ClearPuts(c) \/ ClearEnds(c)
    PROVE  LiveInv'
<1>1. CASE ClearPuts(c)
  <2> DEFINE k == cleared[c] + 1
             b == entries[c][k].buf
             still == [d \in Clients |-> 0]
  <2>1. k \in 1..Len(entries[c]) /\ k \in Nat /\ Live(c, k) /\ b \in Bufs
    BY <1>1, EntryTypes DEF ClearPuts, Live
  <2>2. /\ Pooled' \subseteq Pooled \cup {b}
        /\ \A a \in Bufs : a # b => content'[a] = content[a]
    BY <1>1, <2>1, PutEffect DEF TypeInv, ClearPuts
  <2>3. /\ entries' = entries /\ cleared'[c] = k
        /\ \A d \in Clients \ {c} : cleared'[d] = cleared[d]
    BY <1>1 DEF ClearPuts, TypeInv, ClientsOK
  <2>4. ASSUME NEW d \in Clients, NEW i \in Nat, Live(d, i)'
        PROVE  Live(d, i) /\ entries[d][i].buf # b
    <3>1. Live(d, i) /\ ~(d = c /\ i = k)
      BY <2>1, <2>3, <2>4, EntryTypes DEF Live
    <3>2. QED
      BY <2>1, <3>1 DEF LiveInv, LiveDistinct
  <2>5. /\ still \in [Clients -> Nat]
        /\ \A d \in Clients, i \in Nat : i + still[d] = i
    OBVIOUS
  <2> HIDE DEF b, k, still
  <2>6. ASSUME NEW d \in Clients, NEW i \in Nat, Live(d, i)'
        PROVE  /\ Live(d, i + still[d])
               /\ entries'[d][i] = entries[d][i + still[d]]
               /\ entries[d][i + still[d]].buf # b
    BY <2>3, <2>4, <2>5, <2>6
  <2>7. QED
    BY <2>1, <2>2, <2>5, <2>6, LiveMoved
<1>2. CASE ClearEnds(c)
  <2>1. /\ entries' = [entries EXCEPT ![c] = <<>>] /\ cleared' = [cleared EXCEPT ![c] = 0]
        /\ UNCHANGED <<pool, content>>
    BY <1>2 DEF ClearEnds
  <2>2. ASSUME NEW d \in Clients, NEW i \in Nat, Live(d, i)'
        PROVE  d # c /\ Live(d, i) /\ entries'[d][i] = entries[d][i]
    BY <2>1, <2>2, EmptySeq DEF Live, TypeInv, EntriesOK, ClientsOK
  <2>3. Pooled' = Pooled
    BY <2>1 DEF Pooled
  <2>4. LiveIntact'
    BY <2>1, <2>2, <2>3 DEF LiveInv, LiveIntact
  <2>5. LiveDistinct'
    BY <2>1, <2>2 DEF LiveInv, LiveDistinct
  <2>6. QED
    BY <2>4, <2>5 DEF LiveInv
<1>3. QED
  BY <1>1, <1>2

\* Making room returns the slice of the oldest entry.
LEMMA LiveEvict ==
    ASSUME TypeInv, LiveInv, NEW w \in Workers, Evict(w)
    PROVE  LiveInv'
<1> DEFINE c == Head(worker[w].todo)
<1>1. c \in Clients /\ cleared[c] = 0 /\ UNCHANGED cleared
  BY BusyWorker DEF Evict, Locked, ClearHolds, TypeInv, ClientsOK
<1> HIDE DEF c
<1>2. CASE Len(entries[c]) >= ReplaySize
  <2> DEFINE b == Head(entries[c]).buf
             shift == [d \in Clients |-> IF d = c THEN 1 ELSE 0]
  <2>1. PoolPut(b) /\ entries' = [entries EXCEPT ![c] = Tail(@)]
    BY <1>2 DEF Evict, c
  <2>2. /\ entries[c] # <<>> /\ Len(entries[c]) >= 1
        /\ entries[c] \in Seq(Entry) /\ Len(entries[c]) \in Nat
    BY <1>1, <1>2, EntryTypes, EmptySeq, FanoutAssumption
  <2>3. Head(entries[c]) = entries[c][1]
    BY <2>2
  <2>4. 1 \in 1..Len(entries[c]) /\ Live(c, 1) /\ b \in Bufs
    BY <1>1, <2>2, <2>3, EntryTypes DEF Live
  <2>5. /\ Len(Tail(entries[c])) = Len(entries[c]) - 1
        /\ \A i \in 1..(Len(entries[c]) - 1) : Tail(entries[c])[i] = entries[c][i + 1]
    BY <2>2, HeadTailProperties
  <2>6. /\ Pooled' \subseteq Pooled \cup {b}
        /\ \A a \in Bufs : a # b => content'[a] = content[a]
    BY <2>1, <2>4, PutEffect DEF TypeInv
  <2>7. ASSUME NEW d \in Clients, NEW i \in Nat, Live(d, i)'
        PROVE  /\ Live(d, i + shift[d])
               /\ entries'[d][i] = entries[d][i + shift[d]]
               /\ entries[d][i + shift[d]].buf # b
    <3>1. CASE d = c
      <4>1. entries'[c] = Tail(entries[c])
        BY <1>1, <2>1 DEF TypeInv, EntriesOK
      <4>2. i \in 1..(Len(entries[c]) - 1) /\ i + 1 \in 1..Len(entries[c])
        BY <1>1, <2>2, <2>5, <2>7, <3>1, <4>1 DEF Live
      <4>3. Live(c, i + 1) /\ i + 1 # 1
        BY <1>1, <4>2 DEF Live
      <4>4. entries[c][i + 1].buf # entries[c][1].buf
        BY <1>1, <2>4, <4>3 DEF LiveInv, LiveDistinct
      <4>5. QED
        BY <1>1, <2>3, <2>5, <3>1, <4>1, <4>2, <4>3, <4>4
    <3>2. CASE d # c
      <4>1. entries'[d] = entries[d] /\ cleared'[d] = cleared[d] /\ shift[d] = 0
        BY <1>1, <2>1, <3>2 DEF TypeInv, EntriesOK
      <4>2. Live(d, i) /\ i + 0 = i
        BY <2>7, <4>1 DEF Live
      <4>3. entries[d][i].buf # entries[c][1].buf
        BY <1>1, <2>4, <3>2, <4>2 DEF LiveInv, LiveDistinct
      <4>4. QED
        BY <2>3, <4>1, <4>2, <4>3
    <3>3. QED
      BY <3>1, <3>2
  <2>8. shift \in [Clients -> Nat]
    OBVIOUS
  <2> HIDE DEF b, shift
  <2>9. QED
    BY <2>4, <2>6, <2>7, <2>8, LiveMoved
<1>3. CASE ~(Len(entries[c]) >= ReplaySize)
  <2>1. UNCHANGED bufVars
    BY <1>3 DEF Evict, c
  <2>2. QED
    BY <1>1, <2>1 DEF LiveInv, LiveIntact, LiveDistinct, Live, Pooled
<1>4. QED
  BY <1>2, <1>3

\* A new entry gets a slice that no live entry refers to.
LEMMA LiveStore ==
    ASSUME TypeInv, LiveInv, NEW w \in Workers, Store(w)
    PROVE  LiveInv'
<1> DEFINE c == Head(worker[w].todo)
           env == [to |-> c, msg |-> worker[w].msg]
           n == Len(entries[c])
<1>0. /\ worker[w].pc = "store" /\ c \in Clients /\ env \in Envelopes
      /\ worker[w].size \in 1..4 /\ env.to = c
  BY BusyWorker DEF Store, Envelopes
<1>1. PICK b \in Bufs :
        /\ PoolGetAppend(b, worker[w].size, env)
        /\ entries' = [entries EXCEPT ![c] = Append(@, [buf |-> b, env |-> env])]
  BY DEF Store
<1>2. UNCHANGED cleared
  BY DEF Store
<1>3. cleared[c] = 0
  BY <1>0 DEF TypeInv, LockInv, HolderHasRoom
<1> HIDE DEF c, env
<1>4. b \notin Pooled' /\ Pooled' \subseteq Pooled
  BY <1>0, <1>1, GetKeepsPool DEF TypeInv
<1>5. content' = [content EXCEPT ![b] = env]
  BY <1>1 DEF PoolGetAppend
<1>6. \A d \in Clients, i \in Nat : Live(d, i) => entries[d][i].buf # b
  <2>1. b \in Pooled \/ b \in Unreferenced
    BY <1>1, <1>0, TierOfSize DEF PoolGetAppend, Pooled
  <2>2. CASE b \in Pooled
    BY <2>2 DEF LiveInv, LiveIntact
  <2>3. CASE b \in Unreferenced
    BY <2>3, EntryTypes DEF Unreferenced, EntryBufs, Live
  <2>4. QED
    BY <2>1, <2>2, <2>3
<1>7. n \in Nat /\ entries[c] \in Seq(Entry)
  BY <1>0, EntryTypes
<1>8. /\ Len(entries'[c]) = n + 1
      /\ \A i \in 1..n : entries'[c][i] = entries[c][i]
      /\ entries'[c][n + 1] = [buf |-> b, env |-> env]
  <2>1. [buf |-> b, env |-> env] \in Entry
    BY <1>0 DEF Entry
  <2>2. entries'[c] = Append(entries[c], [buf |-> b, env |-> env])
    BY <1>0, <1>1 DEF TypeInv, EntriesOK
  <2>3. QED
    BY <1>7, <2>1, <2>2, AppendProperties
<1>9. \A d \in Clients \ {c} : entries'[d] = entries[d]
  BY <1>0, <1>1 DEF TypeInv, EntriesOK
<1>10. ASSUME NEW d \in Clients, NEW i \in Nat, Live(d, i)'
       PROVE  \/ Live(d, i) /\ entries'[d][i] = entries[d][i] /\ entries[d][i].buf # b
              \/ d = c /\ i = n + 1
  <2>1. CASE d = c /\ i # n + 1
    <3>1. i \in 1..n
      BY <1>7, <1>8, <1>10, <2>1 DEF Live
    <3>2. Live(c, i)
      BY <1>2, <1>10, <2>1, <3>1 DEF Live
    <3>3. QED
      BY <1>6, <1>8, <2>1, <3>1, <3>2
  <2>2. CASE d # c
    <3>1. Live(d, i)
      BY <1>2, <1>9, <1>10, <2>2 DEF Live
    <3>2. QED
      BY <1>6, <1>9, <2>2, <3>1
  <2>3. QED
    BY <2>1, <2>2
<1> HIDE DEF n
<1>11. LiveIntact'
  <2>1. ASSUME NEW d \in Clients, NEW i \in Nat, Live(d, i)'
        PROVE  /\ entries'[d][i].buf \notin Pooled'
               /\ content'[entries'[d][i].buf] = entries'[d][i].env
               /\ entries'[d][i].env.to = d
    <3>1. CASE d = c /\ i = n + 1
      BY <1>0, <1>4, <1>5, <1>8, <3>1 DEF TypeInv, PoolOK
    <3>2. CASE Live(d, i) /\ entries'[d][i] = entries[d][i] /\ entries[d][i].buf # b
      <4>1. entries[d][i].buf \in Bufs
        BY <3>2, EntryTypes DEF Live
      <4>2. content'[entries[d][i].buf] = content[entries[d][i].buf]
        BY <1>5, <3>2, <4>1 DEF TypeInv, PoolOK
      <4>3. QED
        BY <1>4, <3>2, <4>2 DEF LiveInv, LiveIntact
    <3>3. QED
      BY <1>10, <2>1, <3>1, <3>2
  <2>2. QED
    BY <2>1 DEF LiveIntact
<1>12. LiveDistinct'
  <2>1. ASSUME NEW d \in Clients, NEW e \in Clients, NEW i \in Nat, NEW j \in Nat,
               Live(d, i)', Live(e, j)', entries'[d][i].buf = entries'[e][j].buf
        PROVE  d = e /\ i = j
    <3>1. CASE d = c /\ i = n + 1
      BY <1>8, <1>10, <2>1, <3>1
    <3>2. CASE e = c /\ j = n + 1
      BY <1>8, <1>10, <2>1, <3>2
    <3>3. CASE ~(d = c /\ i = n + 1) /\ ~(e = c /\ j = n + 1)
      BY <1>10, <2>1, <3>3 DEF LiveInv, LiveDistinct
    <3>4. QED
      BY <3>1, <3>2, <3>3
  <2>2. QED
    BY <2>1 DEF LiveDistinct
<1>13. QED
  BY <1>11, <1>12 DEF LiveInv

\* Every step keeps the live entries.
LEMMA LiveStep == TypeInv /\ LiveInv /\ [Next]_vars => LiveInv'
<1> SUFFICES ASSUME TypeInv, LiveInv, [Next]_vars PROVE LiveInv'
  OBVIOUS
<1>1. ASSUME UNCHANGED <<entries, cleared, content>>, Pooled' \subseteq Pooled
      PROVE  LiveInv'
  BY <1>1 DEF LiveInv, LiveIntact, LiveDistinct, Live
<1>2. ASSUME UNCHANGED <<bufVars, cleared>> PROVE LiveInv'
  BY <1>1, <1>2 DEF Pooled
<1>3. ASSUME NEW b \in Bufs, Collect(b) PROVE LiveInv'
  <2>1. Pooled' \subseteq Pooled
    BY <1>3 DEF Collect, Pooled
  <2>2. QED
    BY <1>1, <1>3, <2>1 DEF Collect
<1>4. ASSUME NEW c \in Clients, Client(c) PROVE LiveInv'
  <2>1. CASE ClearPuts(c) \/ ClearEnds(c)
    BY <2>1, LiveClear
  <2>2. CASE \/ Join(c) \/ Leave(c)
             \/ \E chs \in SUBSET Channels : Subscribe(c, chs) \/ Unsubscribe(c, chs)
    BY <1>2, <2>2 DEF Join, Leave, Subscribe, Unsubscribe
  <2>3. QED
    BY <1>4, <2>1, <2>2 DEF Client
<1>5. ASSUME NEW w \in Workers, Worker(w) PROVE LiveInv'
  <2>1. CASE \E ch \in Channels, size \in Sizes : Lookup(w, ch, size)
    BY <1>2, <2>1 DEF Lookup
  <2>2. QED
    BY <1>5, <2>1, LiveEvict, LiveStore DEF Worker
<1>6. CASE UNCHANGED vars
  BY <1>2, <1>6 DEF vars
<1>7. QED
  BY <1>3, <1>4, <1>5, <1>6 DEF Next

\* Where nobody holds the lock, every entry is live.
LEMMA LiveMeansIntact == TypeInv /\ LiveInv => EntriesIntact
<1> SUFFICES ASSUME TypeInv, LiveInv PROVE EntriesIntact
  OBVIOUS
<1>1. ASSUME NEW c \in Clients, ~Locked(c), NEW i \in 1..Len(entries[c])
      PROVE  i \in Nat /\ Live(c, i)
  BY <1>1, EntryTypes DEF Locked, ClearHolds, Live
<1>2. EntryHoldsOwnEnvelope
  BY <1>1, EntryTypes DEF EntryHoldsOwnEnvelope, LiveInv, LiveIntact
<1>3. ASSUME NEW c \in Clients, ~Locked(c)
      PROVE  /\ EntryBufs(c) \cap Pooled = {}
             /\ Cardinality(EntryBufs(c)) = Len(entries[c])
             /\ \A d \in Clients \ {c} : ~Locked(d) => EntryBufs(c) \cap EntryBufs(d) = {}
  <2> DEFINE bufs == [i \in 1..Len(entries[c]) |-> entries[c][i].buf]
  <2>1. \A d \in Clients : \A b :
          b \in EntryBufs(d) <=> \E i \in 1..Len(entries[d]) : b = entries[d][i].buf
    BY EntryTypes DEF EntryBufs
  <2>2. EntryBufs(c) \cap Pooled = {}
    BY <1>1, <1>3, <2>1 DEF LiveInv, LiveIntact
  <2>3. \A d \in Clients \ {c} : ~Locked(d) => EntryBufs(c) \cap EntryBufs(d) = {}
    BY <1>1, <1>3, <2>1 DEF LiveInv, LiveDistinct
  <2>4. bufs \in Seq(Bufs) /\ Len(bufs) = Len(entries[c])
    BY <1>3, EntryTypes
  <2>5. NoRepeats(bufs)
    BY <1>1, <1>3, <2>4 DEF NoRepeats, LiveInv, LiveDistinct
  <2>6. ToSet(bufs) = EntryBufs(c)
    BY <2>1 DEF ToSet
  <2> HIDE DEF bufs
  <2>7. Cardinality(EntryBufs(c)) = Len(entries[c])
    BY <2>4, <2>5, <2>6, NoRepeatsCardinality
  <2>8. QED
    BY <2>2, <2>3, <2>7
<1>4. QED
  BY <1>2, <1>3 DEF EntriesIntact, BufferHasOneOwner

\* An entry of a replay buffer stays the envelope that was stored for its
\* client until it is evicted or cleared, however the clients share the pool
\* and whenever the garbage collector empties it.
THEOREM EntriesStayIntact == Spec => []EntriesIntact
<1>1. Init => LiveInv
  BY EmptySeq DEF Init, LiveInv, LiveIntact, LiveDistinct, Live
<1>2. QED
  BY <1>1, LiveStep, LiveMeansIntact, TypeInit, OnceInit, TypeStep, OnceStep, PTL DEF Spec
=============================================================================
