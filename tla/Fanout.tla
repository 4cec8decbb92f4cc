------------------------------- MODULE Fanout -------------------------------
(***************************************************************************)
(* One broadcast reaches many clients: the reverse index from channels to  *)
(* clients (slices, removal by swapping with the last element, copies for  *)
(* the broadcasting workers) and the replay buffers of the clients, whose  *)
(* entries live in byte buffers of one shared BufferPool.  ClientDelivery  *)
(* has the rest of the loop of broadcast, seen from one client.            *)
(***************************************************************************)
EXTENDS Naturals, Sequences, FiniteSets, SequencesExt

CONSTANTS
    Clients,     \* Client objects
    Channels,    \* channels they subscribe to
    Workers,     \* goroutines of the WorkerPool
    Bufs,        \* byte slices; one that nobody refers to may be allocated
    Sizes,       \* size classes of payloads, a subset of 1..4
    ReplaySize,  \* ReplayBuffer.maxSize
    MaxMsgs      \* bound: broadcasts

ASSUME FanoutAssumption ==
    /\ Sizes \subseteq 1..4 /\ ReplaySize \in Nat \ {0} /\ MaxMsgs \in Nat
    /\ Cardinality(Bufs) >= ReplaySize * Cardinality(Clients)

VARIABLES
    index,     \* SubscriptionIndex.subscribers
    state,     \* where the Client object stands between two uses
    cleared,   \* buffers ReplayBuffer.Clear has returned while it holds rb.mu
    worker,    \* pc, the rest of the copy of Get, the message broadcast
    published, \* broadcasts so far
    entries,   \* ReplayBuffer.entries of every client
    pool,      \* the three sync.Pools of the BufferPool
    cap,       \* size class of the capacity of every byte slice
    content    \* the envelope a byte slice holds

clientVars == <<index, state, cleared>>
bufVars    == <<entries, pool, cap, content>>
vars == <<clientVars, worker, published, bufVars>>

\* Size classes: at most 4 KB, 16 KB, 64 KB, more.
Tiers == 1..3

\* An envelope: whose number it carries, and the broadcast it comes from.
Envelopes == [to : Clients, msg : 1..MaxMsgs]
Empty == <<>>

EntryBufs(c) == {entries[c][i].buf : i \in DOMAIN entries[c]}
Pooled == UNION {pool[t] : t \in Tiers}
Unreferenced == Bufs \ (Pooled \cup UNION {EntryBufs(c) : c \in Clients})

Init ==
    /\ index = [ch \in Channels |-> <<>>]
    /\ state = [c \in Clients |-> "out"]
    /\ cleared = [c \in Clients |-> 0]
    /\ worker = [w \in Workers |-> [pc |-> "idle", todo |-> <<>>, msg |-> 0, size |-> 0]]
    /\ published = 0
    /\ entries = [c \in Clients |-> <<>>]
    /\ pool = [t \in Tiers |-> {}]
    /\ cap = [b \in Bufs |-> 1] /\ content = [b \in Bufs |-> Empty]

\* Who holds the mutex of a client's replay buffer.
WorkerHolds(c) == \E w \in Workers : worker[w].pc = "store" /\ Head(worker[w].todo) = c
ClearHolds(c) == cleared[c] > 0
Locked(c) == WorkerHolds(c) \/ ClearHolds(c)

-----------------------------------------------------------------------------
(***************************************************************************)
(* BufferPool.                                                             *)
(***************************************************************************)

\* The tier of a capacity or of a requested size; 4 is served from the third
\* tier by Get, and discarded by Put.
Tier(size) == IF size > 3 THEN 3 ELSE size

\* Mutant: everything beyond 16 KB goes to the large pool.
PutOversized(b) ==
    /\ pool' = [pool EXCEPT ![Tier(cap[b])] = @ \cup {b}]
    /\ cap' = cap
    /\ content' = [content EXCEPT ![b] = Empty]

\* Put: by capacity; the length is set to zero first.  A buffer that is not
\* pooled is garbage, which the model keeps like a slice never allocated.
PoolPut(b) ==
    /\ pool' = IF cap[b] <= 3 THEN [pool EXCEPT ![cap[b]] = @ \cup {b}] ELSE pool
    /\ cap' = IF cap[b] <= 3 THEN cap ELSE [cap EXCEPT ![b] = 1]
    /\ content' = [content EXCEPT ![b] = Empty]

\* Get, then append: a pooled buffer of the tier, or a new one (sync.Pool may
\* do either); a payload beyond 64 KB makes append grow it.
PoolGetAppend(b, size, env) ==
    /\ \/ b \in pool[Tier(size)] /\ pool' = [pool EXCEPT ![Tier(size)] = @ \ {b}]
          /\ cap' = [cap EXCEPT ![b] = IF size > @ THEN size ELSE @]
       \/ b \in Unreferenced /\ pool' = pool
          /\ cap' = [cap EXCEPT ![b] = size]
    /\ content' = [content EXCEPT ![b] = env]

\* Garbage collection empties the sync.Pools when it likes.
Collect(b) ==
    /\ b \in Pooled
    /\ pool' = [t \in Tiers |-> pool[t] \ {b}]
    /\ cap' = [cap EXCEPT ![b] = 1]
    /\ UNCHANGED <<clientVars, worker, published, entries, content>>

-----------------------------------------------------------------------------
(***************************************************************************)
(* Clients: subscriptions, the end of a connection, reuse of the object.   *)
(***************************************************************************)

\* Mutant: AddMultiple without the test for an existing subscription.
AddToListTwice(list, c) == Append(list, c)

AddToList(list, c) == IF c \in ToSet(list) THEN list ELSE Append(list, c)

\* Mutant: the last element is cut off although it was not moved.
RemoveTruncates(list, c) ==
    IF c \in ToSet(list) THEN SubSeq(list, 1, Len(list) - 1) ELSE list

\* Swap with the last element and truncate, at the first occurrence.
RemoveFromList(list, c) ==
    LET i == CHOOSE k \in DOMAIN list : list[k] = c /\ \A j \in 1..(k - 1) : list[j] # c
    IN  IF c \in ToSet(list)
        THEN SubSeq([list EXCEPT ![i] = Last(list)], 1, Len(list) - 1)
        ELSE list

\* AddMultiple, for every channel of a subscribe message.
Subscribe(c, chs) ==
    /\ state[c] = "in"
    /\ index' = [ch \in Channels |-> IF ch \in chs THEN AddToList(index[ch], c)
                                                   ELSE index[ch]]
    /\ UNCHANGED <<state, cleared, worker, published, bufVars>>

\* RemoveMultiple.
Unsubscribe(c, chs) ==
    /\ state[c] = "in"
    /\ index' = [ch \in Channels |-> IF ch \in chs THEN RemoveFromList(index[ch], c)
                                                   ELSE index[ch]]
    /\ UNCHANGED <<state, cleared, worker, published, bufVars>>

\* The cleanup: RemoveClient, and then ConnectionPool.Put.
Leave(c) ==
    /\ state[c] = "in"
    /\ state' = [state EXCEPT ![c] = "left"]
    /\ index' = [ch \in Channels |-> RemoveFromList(index[ch], c)]
    /\ UNCHANGED <<cleared, worker, published, bufVars>>

\* ConnectionPool.Get hands the object to a new connection.
Join(c) ==
    /\ state[c] = "out"
    /\ state' = [state EXCEPT ![c] = "joining"]
    /\ UNCHANGED <<index, cleared, worker, published, bufVars>>

\* Put and Get both call ReplayBuffer.Clear: it returns the buffers one by one
\* with rb.mu held, and empties the slice when it is through.
ClearPuts(c) ==
    /\ state[c] \in {"left", "joining"} /\ ~WorkerHolds(c)
    /\ cleared[c] < Len(entries[c])
    /\ cleared' = [cleared EXCEPT ![c] = @ + 1]
    /\ PoolPut(entries[c][cleared[c] + 1].buf)
    /\ UNCHANGED <<index, state, worker, published, entries>>

ClearEnds(c) ==
    /\ state[c] \in {"left", "joining"} /\ ~WorkerHolds(c)
    /\ cleared[c] = Len(entries[c])
    /\ cleared' = [cleared EXCEPT ![c] = 0]
    /\ entries' = [entries EXCEPT ![c] = <<>>]
    /\ state' = [state EXCEPT ![c] = IF @ = "left" THEN "out" ELSE "in"]
    /\ UNCHANGED <<index, worker, published, pool, cap, content>>

-----------------------------------------------------------------------------
(***************************************************************************)
(* broadcast: a copy of the subscribers, then one client after the other.  *)
(* A worker may serve a client that has left, or left and joined again.    *)
(***************************************************************************)

\* subscriptionIndex.Get copies the slice; nothing happens without subscribers.
\* Nor does a payload that is not JSON reach a buffer (see ClientDelivery).
Lookup(w, ch, size) ==
    /\ worker[w].pc = "idle" /\ index[ch] # <<>> /\ published < MaxMsgs
    /\ published' = published + 1
    /\ worker' = [worker EXCEPT ![w] =
                    [pc |-> "serve", todo |-> index[ch],
                     msg |-> published + 1, size |-> size]]
    /\ UNCHANGED <<clientVars, bufVars>>

\* On to the next client of the copy.
Served(w) ==
    LET rest == Tail(worker[w].todo) IN
    worker' = [worker EXCEPT ![w] =
                 IF rest = <<>> THEN [pc |-> "idle", todo |-> <<>>, msg |-> 0, size |-> 0]
                 ELSE [@ EXCEPT !.pc = "serve", !.todo = rest]]

\* ReplayBuffer.Add takes rb.mu; a full buffer returns its oldest entry.
Evict(w) ==
    LET c == Head(worker[w].todo) IN
    /\ worker[w].pc = "serve" /\ ~Locked(c)
    /\ worker' = [worker EXCEPT ![w].pc = "store"]
    /\ IF Len(entries[c]) >= ReplaySize
       THEN /\ PoolPut(Head(entries[c]).buf)
            /\ entries' = [entries EXCEPT ![c] = Tail(@)]
       ELSE UNCHANGED bufVars
    /\ UNCHANGED <<clientVars, published>>

\* Mutant: the entry keeps a buffer that is returned to the pool after the
\* write, as with the "defer pool.Put(buf)" of the pool's own example.
StoreAndReturn(w) ==
    LET c == Head(worker[w].todo)
        env == [to |-> c, msg |-> worker[w].msg]
    IN /\ worker[w].pc = "store"
       /\ \E b \in Bufs :
            /\ b \in pool[Tier(worker[w].size)] \cup Unreferenced
            /\ cap' = [cap EXCEPT ![b] = worker[w].size]
            /\ content' = [content EXCEPT ![b] = env]
            /\ pool' = [pool EXCEPT ![Tier(worker[w].size)] = @ \cup {b}]
            /\ entries' = [entries EXCEPT ![c] = Append(@, [buf |-> b, env |-> env])]
       /\ Served(w)
       /\ UNCHANGED <<clientVars, published>>

\* The rest of Add: a buffer from the pool, the serialized envelope, the entry.
Store(w) ==
    LET c == Head(worker[w].todo)
        env == [to |-> c, msg |-> worker[w].msg]
    IN /\ worker[w].pc = "store"
       /\ \E b \in Bufs :
            /\ PoolGetAppend(b, worker[w].size, env)
            /\ entries' = [entries EXCEPT ![c] = Append(@, [buf |-> b, env |-> env])]
       /\ Served(w)
       /\ UNCHANGED <<clientVars, published>>

-----------------------------------------------------------------------------
Client(c) == \/ Join(c) \/ Leave(c) \/ ClearPuts(c) \/ ClearEnds(c)
             \/ \E chs \in SUBSET Channels : Subscribe(c, chs) \/ Unsubscribe(c, chs)

Worker(w) == \/ \E ch \in Channels, size \in Sizes : Lookup(w, ch, size)
             \/ Evict(w) \/ Store(w)

Next == \/ \E c \in Clients : Client(c)
        \/ \E w \in Workers : Worker(w)
        \/ \E b \in Bufs : Collect(b)

Spec == Init /\ [][Next]_vars

-----------------------------------------------------------------------------
(***************************************************************************)
(* What the code promises.                                                 *)
(***************************************************************************)

\* Among the rest: a pooled buffer has the capacity of its tier, so that no
\* Get returns one that is too small for what its tier serves.
TypeOK ==
    /\ index \in [Channels -> Seq(Clients)]
    /\ state \in [Clients -> {"out", "joining", "in", "left"}]
    /\ cleared \in [Clients -> 0..ReplaySize]
    /\ worker \in [Workers -> [pc : {"idle", "serve", "store"}, todo : Seq(Clients),
                               msg : 0..MaxMsgs, size : Sizes \cup {0}]]
    /\ \A w \in Workers : worker[w].todo = <<>> <=> worker[w].pc = "idle"
    /\ published \in 0..MaxMsgs
    /\ entries \in [Clients -> Seq([buf : Bufs, env : Envelopes])]
    /\ \A c \in Clients : Len(entries[c]) <= ReplaySize
    /\ content \in [Bufs -> Envelopes \cup {Empty}] /\ cap \in [Bufs -> 1..4]
    /\ pool \in [Tiers -> SUBSET Bufs]
    /\ \A t \in Tiers : \A b \in pool[t] : cap[b] = t

\* A broadcast addresses a client at most once: neither the slices of the
\* index nor a copy a worker goes through lists a client twice, whatever
\* subscribe, unsubscribe and cleanup did to them.
AddressedOnce ==
    /\ \A ch \in Channels : Cardinality(ToSet(index[ch])) = Len(index[ch])
    /\ \A w \in Workers : Cardinality(ToSet(worker[w].todo)) = Len(worker[w].todo)

\* A byte slice that an unlocked replay buffer refers to is in no pool and in
\* no other entry of any unlocked replay buffer: nobody else may get it.
BufferHasOneOwner ==
    \A c \in Clients : ~Locked(c) =>
        /\ EntryBufs(c) \cap Pooled = {}
        /\ Cardinality(EntryBufs(c)) = Len(entries[c])
        /\ \A d \in Clients \ {c} : ~Locked(d) => EntryBufs(c) \cap EntryBufs(d) = {}

\* What a replay request reads (under rb.mu) is the envelope that was stored
\* for this client, never bytes that another client's Add has written since.
EntryHoldsOwnEnvelope ==
    \A c \in Clients : ~Locked(c) =>
        \A i \in DOMAIN entries[c] :
            /\ content[entries[c][i].buf] = entries[c][i].env
            /\ entries[c][i].env.to = c

\* Both of it: an entry of a replay buffer stays what it was until it is
\* evicted or cleared, although all clients share the pool.
EntriesIntact == BufferHasOneOwner /\ EntryHoldsOwnEnvelope

\* The slices are a relation between channels and connected clients, and a
\* broadcast serves those that were in it.
SetRegistry == INSTANCE Registry WITH
    present <- {c \in Clients : state[c] = "in"},
    members <- [ch \in Channels |-> ToSet(index[ch])],
    serving <- [w \in Workers |-> ToSet(worker[w].todo)]

\* The index and its readers implement the registry of sets.
ImplementsRegistry == SetRegistry!Spec
=============================================================================
