------------------------- MODULE ConnectionLifecycle -------------------------
(***************************************************************************)
(* The life of a WebSocket connection in the Go server: admission          *)
(* (handleWebSocket), the read pump with its deferred cleanup, the write   *)
(* pump, and the Client objects that a sync.Pool recycles between          *)
(* connections.                                                            *)
(*                                                                         *)
(* Every connection attempt r is one HTTP request.  Its handler and then   *)
(* its read pump run one after the other, so phase[r] is the program       *)
(* counter of both; writer[r] is the one of its write pump, which is NOT   *)
(* stopped by the cleanup and keeps the Client object it was started with. *)
(* A Client object is identified by the address that the pool, the         *)
(* registry and the subscription index share.                              *)
(***************************************************************************)
EXTENDS Naturals, FiniteSets

CONSTANTS
    Conns,          \* connection attempts, each with its own net.Conn
    Clients,        \* Client objects (the heap addresses the pool can use)
    Channels,       \* channel names a client may subscribe to
    MaxConnections, \* config.MaxConnections = capacity of connectionsSem
    NoConn,         \* the nil net.Conn
    NoClient        \* no Client object taken from the pool yet

ASSUME MaxConnectionsAssumption == MaxConnections \in Nat
ASSUME NoConnAssumption == NoConn \notin Conns
ASSUME NoClientAssumption == NoClient \notin Clients

VARIABLES
    phase,      \* handler / read pump program counter of an attempt
    writer,     \* write pump program counter of an attempt
    obj,        \* the Client object the pumps of an attempt hold
    connId,     \* the id given to an attempt (0: none yet); history
    sem,        \* len(connectionsSem)
    current,    \* stats.CurrentConnections
    clientCount,\* Server.clientCount
    registry,   \* Server.clients, the sync.Map of registered objects
    fresh,      \* objects that sync.Pool.New has not allocated yet
    pool,       \* objects lying in the sync.Pool
    conn,       \* Client.conn
    id,         \* Client.id
    once,       \* Client.closeOnce has run
    request,    \* channels of the (un)subscribe message being handled
    subs,       \* Client.subscriptions
    index,      \* SubscriptionIndex: channel -> subscribed objects
    buckets,    \* ids with a token bucket in the RateLimiter
    open,       \* sockets the server has not closed
    down,       \* sockets whose peer left, was reset or fell silent
    crashed     \* a goroutine panicked outside recover(): process exit

countVars  == <<current, clientCount, connId, registry>>
serverVars == <<sem, countVars, buckets>>
poolVars   == <<fresh, pool, obj>>
clientVars == <<conn, id, once>>
subVars    == <<request, subs, index>>
objectVars == <<poolVars, clientVars, subVars>>
envVars    == <<open, down, crashed>>
vars == <<phase, writer, serverVars, objectVars, envVars>>

(***************************************************************************)
(* The phases, in the order the code runs them.                            *)
(***************************************************************************)
ReadPhases == {"read", "subscribe", "unsubscribe"}

\* Between Store into the registry and the matching Delete.
RegisteredPhases == ReadPhases \cup {"start", "close", "unregister"}

\* Between CurrentConnections + 1 and - 1.
CountedPhases == ReadPhases \cup {"close", "unregister", "uncount"}

\* The read pump's object is its own: after GetClient, before the reset in Put.
BoundPhases == RegisteredPhases \cup {"register", "uncount", "unindex", "reset"}

OwnerPhases == BoundPhases \cup {"pool"}

\* Between the send on connectionsSem and the receive from it.
HoldingPhases == OwnerPhases \cup {"upgrade", "get", "release"}

Phases == HoldingPhases \cup {"idle", "acquire", "rejected", "unlimit", "done"}

WriterPhases == {"none", "select", "write", "exit", "done"}

Holders == {r \in Conns : phase[r] \in HoldingPhases}
Counted == {r \in Conns : phase[r] \in CountedPhases}

Init ==
    /\ phase = [r \in Conns |-> "idle"]
    /\ writer = [r \in Conns |-> "none"]
    /\ obj = [r \in Conns |-> NoClient]
    /\ connId = [r \in Conns |-> 0]
    /\ sem = 0 /\ current = 0 /\ clientCount = 0
    /\ registry = {} /\ fresh = Clients /\ pool = {}
    /\ conn = [o \in Clients |-> NoConn]
    /\ id = [o \in Clients |-> 0]
    /\ once = [o \in Clients |-> FALSE]
    /\ request = [r \in Conns |-> {}]
    /\ subs = [o \in Clients |-> {}]
    /\ index = [ch \in Channels |-> {}]
    /\ buckets = {} /\ open = {} /\ down = {}
    /\ crashed = FALSE

\* Nothing runs once the process is gone.
Alive == ~crashed

Goto(r, from, to) == /\ Alive
                     /\ phase[r] = from
                     /\ phase' = [phase EXCEPT ![r] = to]

-----------------------------------------------------------------------------
(***************************************************************************)
(* handleWebSocket.                                                        *)
(***************************************************************************)

\* The server is shutting down, or ShouldAcceptConnection says no: the limit,
\* or a reading of the CPU, the memory or the goroutine count (inputs here)
\* that is over its threshold.
RejectedByGuard(r) ==
    /\ Goto(r, "idle", "rejected")
    /\ UNCHANGED <<writer, serverVars, objectVars, envVars>>

\* ShouldAcceptConnection says yes.  It only reads CurrentConnections: the
\* slot is taken in a later step.
AcceptedByGuard(r) ==
    /\ current < MaxConnections
    /\ Goto(r, "idle", "acquire")
    /\ UNCHANGED <<writer, serverVars, objectVars, envVars>>

\* Mutant: the slot is taken without looking at the capacity.
AcquireSlotUnbounded(r) ==
    /\ Goto(r, "acquire", "upgrade")
    /\ sem' = sem + 1
    /\ UNCHANGED <<writer, countVars, buckets, objectVars, envVars>>

AcquireSlot(r) ==
    /\ sem < MaxConnections
    /\ Goto(r, "acquire", "upgrade")
    /\ sem' = sem + 1
    /\ UNCHANGED <<writer, countVars, buckets, objectVars, envVars>>

\* Mutant: a blocking acquire, without the timer.
AcquireTimesOutNever(r) ==
    /\ FALSE
    /\ UNCHANGED vars

\* The 5 s timer fires; when a slot frees at the same time select may take
\* either case.
AcquireTimesOut(r) ==
    /\ Goto(r, "acquire", "rejected")
    /\ UNCHANGED <<writer, serverVars, objectVars, envVars>>

\* Mutant: the error path of the upgrade forgets the slot.
UpgradeFailsKeepsSlot(r) ==
    /\ Goto(r, "upgrade", "rejected")
    /\ UNCHANGED <<writer, serverVars, objectVars, envVars>>

UpgradeFails(r) ==
    /\ Goto(r, "upgrade", "rejected")
    /\ sem' = sem - 1
    /\ UNCHANGED <<writer, countVars, buckets, objectVars, envVars>>

UpgradeSucceeds(r) ==
    /\ Goto(r, "upgrade", "get")
    /\ open' = open \cup {r}
    /\ UNCHANGED <<writer, serverVars, objectVars, down, crashed>>

\* Mutant: Get gives the object a new closeOnce.
GetClientResetsOnce(r) ==
    /\ Goto(r, "get", "register")
    /\ \E o \in pool \cup fresh :
         /\ pool' = pool \ {o}
         /\ fresh' = fresh \ {o}
         /\ obj' = [obj EXCEPT ![r] = o]
         /\ conn' = [conn EXCEPT ![o] = r]
         /\ once' = [once EXCEPT ![o] = FALSE]
         /\ subs' = [subs EXCEPT ![o] = {}]
    /\ UNCHANGED <<writer, serverVars, id, request, index, envVars>>

\* ConnectionPool.Get and client.conn = conn.  sync.Pool may hand out a
\* recycled object or call New; Get resets the subscriptions but neither id
\* (Put did) nor closeOnce.
GetClient(r) ==
    /\ Goto(r, "get", "register")
    /\ \E o \in pool \cup fresh :
         /\ pool' = pool \ {o}
         /\ fresh' = fresh \ {o}
         /\ obj' = [obj EXCEPT ![r] = o]
         /\ conn' = [conn EXCEPT ![o] = r]
         /\ subs' = [subs EXCEPT ![o] = {}]
    /\ UNCHANGED <<writer, serverVars, id, once, request, index, envVars>>

\* client.id = atomic.AddInt64(&clientCount, 1); clients.Store(client, true).
Register(r) ==
    /\ Goto(r, "register", "start")
    /\ clientCount' = clientCount + 1
    /\ id' = [id EXCEPT ![obj[r]] = clientCount + 1]
    /\ connId' = [connId EXCEPT ![r] = clientCount + 1]
    /\ registry' = registry \cup {obj[r]}
    /\ UNCHANGED <<writer, sem, current, buckets, poolVars,
                   conn, once, subVars, envVars>>

\* Mutant: the gauge is not raised.
StartPumpsUncounted(r) ==
    /\ Goto(r, "start", "read")
    /\ writer' = [writer EXCEPT ![r] = "select"]
    /\ UNCHANGED <<serverVars, objectVars, envVars>>

\* CurrentConnections + 1, go writePump, go readPump.
StartPumps(r) ==
    /\ Goto(r, "start", "read")
    /\ current' = current + 1
    /\ writer' = [writer EXCEPT ![r] = "select"]
    /\ UNCHANGED <<sem, clientCount, connId, registry,
                   buckets, objectVars, envVars>>

-----------------------------------------------------------------------------
(***************************************************************************)
(* readPump: the loop.  A read succeeds only on a usable socket.           *)
(***************************************************************************)
Readable(r) == conn[obj[r]] \in open \ down

\* rateLimiter.CheckLimit(c.id): LoadOrStore of the bucket.
CheckLimit(r) == buckets' = buckets \cup {id[obj[r]]}

\* A text message that is rate limited, malformed, or of a type that changes
\* neither the subscriptions nor the pumps (heartbeat, replay, unknown).
ReadOther(r) ==
    /\ Alive
    /\ phase[r] = "read"
    /\ Readable(r)
    /\ CheckLimit(r)
    /\ UNCHANGED <<phase, writer, sem, countVars, objectVars, envVars>>

\* "subscribe", first lock: the client's own set.
SubscribeSet(r) ==
    /\ Goto(r, "read", "subscribe")
    /\ Readable(r)
    /\ CheckLimit(r)
    /\ \E chs \in SUBSET Channels :
         /\ request' = [request EXCEPT ![r] = chs]
         /\ subs' = [subs EXCEPT ![obj[r]] = @ \cup chs]
    /\ UNCHANGED <<writer, sem, countVars, poolVars,
                   clientVars, index, envVars>>

\* "subscribe", second lock: the global index.
SubscribeIndex(r) ==
    /\ Goto(r, "subscribe", "read")
    /\ index' = [ch \in Channels |->
                   IF ch \in request[r] THEN index[ch] \cup {obj[r]}
                                        ELSE index[ch]]
    /\ request' = [request EXCEPT ![r] = {}]
    /\ UNCHANGED <<writer, serverVars, poolVars, clientVars, subs, envVars>>

\* "unsubscribe", first lock.
UnsubscribeSet(r) ==
    /\ Goto(r, "read", "unsubscribe")
    /\ Readable(r)
    /\ CheckLimit(r)
    /\ \E chs \in SUBSET Channels :
         /\ request' = [request EXCEPT ![r] = chs]
         /\ subs' = [subs EXCEPT ![obj[r]] = @ \ chs]
    /\ UNCHANGED <<writer, sem, countVars, poolVars,
                   clientVars, index, envVars>>

\* Mutant: the second half of an unsubscription is missing.
UnsubscribeIndexForgotten(r) ==
    /\ Goto(r, "unsubscribe", "read")
    /\ request' = [request EXCEPT ![r] = {}]
    /\ UNCHANGED <<writer, serverVars, poolVars, clientVars, subs, index, envVars>>

\* "unsubscribe", second lock.
UnsubscribeIndex(r) ==
    /\ Goto(r, "unsubscribe", "read")
    /\ index' = [ch \in Channels |->
                   IF ch \in request[r] THEN index[ch] \ {obj[r]}
                                        ELSE index[ch]]
    /\ request' = [request EXCEPT ![r] = {}]
    /\ UNCHANGED <<writer, serverVars, poolVars, clientVars, subs, envVars>>

\* Mutant: no read deadline, a silent or reset peer goes unnoticed.
ReadFailsIfClosed(r) ==
    /\ Goto(r, "read", "close")
    /\ conn[obj[r]] \notin open
    /\ UNCHANGED <<writer, serverVars, objectVars, envVars>>

\* A read error, the read deadline, or a close frame: the loop ends.
ReadFails(r) ==
    /\ Goto(r, "read", "close")
    /\ ~Readable(r)
    /\ UNCHANGED <<writer, serverVars, objectVars, envVars>>

-----------------------------------------------------------------------------
(***************************************************************************)
(* readPump: the deferred cleanup, one step per statement that another     *)
(* goroutine can observe.                                                  *)
(***************************************************************************)

\* c.closeOnce.Do(func() { if c.conn != nil { c.conn.Close() } })
CloseOnce(o) ==
    /\ once' = [once EXCEPT ![o] = TRUE]
    /\ open' = IF once[o] THEN open ELSE open \ {conn[o]}

\* Mutant: the cleanup drops the connection as soon as it has closed it.
CleanupCloseAndForget(r) ==
    /\ Goto(r, "close", "unregister")
    /\ CloseOnce(obj[r])
    /\ conn' = [conn EXCEPT ![obj[r]] = NoConn]
    /\ UNCHANGED <<writer, serverVars, poolVars, id, subVars, down, crashed>>

CleanupClose(r) ==
    /\ Goto(r, "close", "unregister")
    /\ CloseOnce(obj[r])
    /\ UNCHANGED <<writer, serverVars, poolVars, conn, id,
                   subVars, down, crashed>>

CleanupUnregister(r) ==
    /\ Goto(r, "unregister", "uncount")
    /\ registry' = registry \ {obj[r]}
    /\ UNCHANGED <<writer, sem, current, clientCount, connId,
                   buckets, objectVars, envVars>>

\* Mutant: the gauge is not lowered.
CleanupUncountForgotten(r) ==
    /\ Goto(r, "uncount", "unindex")
    /\ UNCHANGED <<writer, serverVars, objectVars, envVars>>

CleanupUncount(r) ==
    /\ Goto(r, "uncount", "unindex")
    /\ current' = current - 1
    /\ UNCHANGED <<writer, sem, clientCount, connId, registry,
                   buckets, objectVars, envVars>>

\* Mutant: RemoveClient is not called.
CleanupUnindexForgotten(r) ==
    /\ Goto(r, "unindex", "reset")
    /\ UNCHANGED <<writer, serverVars, objectVars, envVars>>

\* Mutant: the object goes back to the pool here and again in Put.
CleanupUnindexAndPut(r) ==
    /\ Goto(r, "unindex", "reset")
    /\ index' = [ch \in Channels |-> index[ch] \ {obj[r]}]
    /\ pool' = pool \cup {obj[r]}
    /\ UNCHANGED <<writer, serverVars, fresh, obj, clientVars,
                   request, subs, envVars>>

\* subscriptionIndex.RemoveClient: every channel, under one lock.
CleanupUnindex(r) ==
    /\ Goto(r, "unindex", "reset")
    /\ index' = [ch \in Channels |-> index[ch] \ {obj[r]}]
    /\ UNCHANGED <<writer, serverVars, poolVars, clientVars,
                   request, subs, envVars>>

\* connections.Put, up to pool.Put: a write pump may run in between.
CleanupReset(r) ==
    /\ Goto(r, "reset", "pool")
    /\ conn' = [conn EXCEPT ![obj[r]] = NoConn]
    /\ id' = [id EXCEPT ![obj[r]] = 0]
    /\ subs' = [subs EXCEPT ![obj[r]] = {}]
    /\ UNCHANGED <<writer, serverVars, poolVars, once,
                   request, index, envVars>>

CleanupPool(r) ==
    /\ Goto(r, "pool", "release")
    /\ pool' = pool \cup {obj[r]}
    /\ UNCHANGED <<writer, serverVars, fresh, obj,
                   clientVars, subVars, envVars>>

\* <-s.connectionsSem would block on an empty channel.
CleanupRelease(r) ==
    /\ sem > 0
    /\ Goto(r, "release", "unlimit")
    /\ sem' = sem - 1
    /\ UNCHANGED <<writer, countVars, buckets, objectVars, envVars>>

\* s.rateLimiter.RemoveClient(c.id), with the id the object has NOW.
CleanupRateLimiter(r) ==
    /\ Goto(r, "unlimit", "done")
    /\ buckets' = buckets \ {id[obj[r]]}
    /\ UNCHANGED <<writer, sem, countVars, objectVars, envVars>>

-----------------------------------------------------------------------------
(***************************************************************************)
(* writePump: woken by a message or by the 27 s ping ticker.               *)
(***************************************************************************)
WriterGoto(r, from, to) == /\ Alive
                           /\ writer[r] = from
                           /\ writer' = [writer EXCEPT ![r] = to]

\* The nil check of c.conn.
WriterWakes(r) ==
    /\ WriterGoto(r, "select", IF conn[obj[r]] = NoConn THEN "exit" ELSE "write")
    /\ UNCHANGED <<phase, serverVars, objectVars, envVars>>

\* SetWriteDeadline and the write: they read c.conn again.
WriterWrites(r) ==
    /\ WriterGoto(r, "write", "select")
    /\ conn[obj[r]] \in open
    /\ UNCHANGED <<phase, serverVars, objectVars, envVars>>

\* A closed socket, a reset, or the 5 s write deadline.  A read of c.conn
\* that is torn by Put (a data race) can also end here, as an invalid
\* *TCPConn returns an error.
WriterFails(r) ==
    /\ WriterGoto(r, "write", "exit")
    /\ UNCHANGED <<phase, serverVars, objectVars, envVars>>

\* Put ran between the nil check and the use: a nil interface is
\* dereferenced in a goroutine without recover().
WriterPanics(r) ==
    /\ Alive
    /\ writer[r] = "write"
    /\ conn[obj[r]] = NoConn
    /\ crashed' = TRUE
    /\ UNCHANGED <<phase, writer, serverVars, objectVars, open, down>>

\* Mutant: the write pump leaves without closing.
WriterExitsQuietly(r) ==
    /\ WriterGoto(r, "exit", "done")
    /\ UNCHANGED <<phase, serverVars, objectVars, envVars>>

\* The deferred closeOnce.Do.
WriterExits(r) ==
    /\ WriterGoto(r, "exit", "done")
    /\ CloseOnce(obj[r])
    /\ UNCHANGED <<phase, serverVars, poolVars, conn, id,
                   subVars, down, crashed>>

-----------------------------------------------------------------------------
(***************************************************************************)
(* The environment of the pumps.                                           *)
(***************************************************************************)

\* The peer closes, the network resets, or nothing is read for pongWait.
ConnDrops(r) ==
    /\ Alive
    /\ phase[r] \in BoundPhases
    /\ r \notin down
    /\ down' = down \cup {r}
    /\ UNCHANGED <<phase, writer, serverVars, objectVars, open, crashed>>

\* broadcast gives a slow client up: conn.Close() on the connection the
\* object has at that moment, without closeOnce.
SlowClientClosed(o) ==
    /\ Alive
    /\ conn[o] \in open
    /\ open' = open \ {conn[o]}
    /\ UNCHANGED <<phase, writer, serverVars, objectVars, down, crashed>>

-----------------------------------------------------------------------------
Handler(r) ==
    \/ RejectedByGuard(r) \/ AcceptedByGuard(r)
    \/ AcquireSlot(r) \/ AcquireTimesOut(r)
    \/ UpgradeFails(r) \/ UpgradeSucceeds(r)
    \/ GetClient(r) \/ Register(r) \/ StartPumps(r)

Reader(r) ==
    \/ ReadOther(r)
    \/ SubscribeSet(r) \/ SubscribeIndex(r)
    \/ UnsubscribeSet(r) \/ UnsubscribeIndex(r)
    \/ ReadFails(r)

Cleanup(r) ==
    \/ CleanupClose(r) \/ CleanupUnregister(r) \/ CleanupUncount(r)
    \/ CleanupUnindex(r) \/ CleanupReset(r) \/ CleanupPool(r)
    \/ CleanupRelease(r) \/ CleanupRateLimiter(r)

Writer(r) ==
    \/ WriterWakes(r) \/ WriterWrites(r) \/ WriterFails(r)
    \/ WriterPanics(r) \/ WriterExits(r)

\* Every attempt has ended and no write pump is left, or the process is gone.
Terminated ==
    /\ \/ crashed
       \/ \A r \in Conns : /\ phase[r] \in {"rejected", "done"}
                           /\ writer[r] \in {"none", "done"}
    /\ UNCHANGED vars

Next ==
    \/ \E r \in Conns : \/ Handler(r) \/ Reader(r) \/ Cleanup(r)
                        \/ Writer(r) \/ ConnDrops(r)
    \/ \E o \in Clients : SlowClientClosed(o)
    \/ Terminated

Spec == Init /\ [][Next]_vars

(***************************************************************************)
(* The Go scheduler runs every goroutine that can run, and both timers of  *)
(* the code (the 5 s of connectionsSem, the 27 s ping) fire.  Nothing is   *)
(* assumed of what clients send, nor that a client ever leaves.            *)
(***************************************************************************)
Fairness ==
    \A r \in Conns :
        /\ WF_vars(phase[r] # "idle" /\ Handler(r))
        /\ WF_vars(ReadFails(r) \/ SubscribeIndex(r) \/ UnsubscribeIndex(r)
                     \/ Cleanup(r))
        /\ WF_vars(Writer(r))

FairSpec == Spec /\ Fairness

-----------------------------------------------------------------------------
(***************************************************************************)
(* What the code promises.                                                 *)
(***************************************************************************)
TypeOK ==
    /\ phase \in [Conns -> Phases]
    /\ writer \in [Conns -> WriterPhases]
    /\ obj \in [Conns -> Clients \cup {NoClient}]
    /\ connId \in [Conns -> Nat]
    /\ sem \in Nat /\ current \in Nat /\ clientCount \in Nat
    /\ registry \subseteq Clients
    /\ fresh \subseteq Clients /\ pool \subseteq Clients
    /\ conn \in [Clients -> Conns \cup {NoConn}]
    /\ id \in [Clients -> Nat]
    /\ once \in [Clients -> BOOLEAN]
    /\ request \in [Conns -> SUBSET Channels]
    /\ subs \in [Clients -> SUBSET Channels]
    /\ index \in [Channels -> SUBSET Clients]
    /\ buckets \subseteq Nat
    /\ open \subseteq Conns /\ down \subseteq Conns
    /\ crashed \in BOOLEAN

\* The semaphore counts exactly the attempts that are between their acquire
\* and their release, on every path through handleWebSocket and readPump, and
\* never more than MaxConnections of them.
SlotAccounting ==
    /\ sem = Cardinality(Holders)
    /\ sem <= MaxConnections

\* CurrentConnections, which ShouldAcceptConnection, /health and the drain
\* loop read, counts exactly the connections whose pumps have been started
\* and not yet uncounted; it never exceeds the slots in use, so the gauge
\* never shows more than MaxConnections.
GaugeAccounting ==
    /\ current = Cardinality(Counted)
    /\ current <= sem

\* A Client object belongs to at most one connection from Get until Put gives
\* it back, and it is not in the pool meanwhile: two read pumps never share
\* an object.
ExclusiveOwnership ==
    \A r \in Conns :
        phase[r] \in OwnerPhases =>
            /\ obj[r] \notin pool \cup fresh
            /\ \A q \in Conns \ {r} :
                  phase[q] \in OwnerPhases => obj[q] # obj[r]

\* While the read pump of r runs, and through its cleanup up to the reset in
\* Put, the object carries r's own socket and, once registered, r's own id:
\* readPump, which never tests c.conn for nil, cannot meet nil or the socket
\* of another connection.
OwnConnection ==
    \A r \in Conns :
        phase[r] \in BoundPhases =>
            /\ conn[obj[r]] = r
            /\ phase[r] # "register" => id[obj[r]] = connId[r] /\ connId[r] > 0

\* An object that Get can hand out is clean: no socket, no id, not registered,
\* not in the subscription index, no subscriptions of its own.
PooledObjectsAreClean ==
    \A o \in pool \cup fresh :
        /\ conn[o] = NoConn /\ id[o] = 0
        /\ o \notin registry
        /\ subs[o] = {}
        /\ \A ch \in Channels : o \notin index[ch]

\* The client's own set and the global index, updated under two different
\* locks, agree whenever the read pump is between messages; and the index
\* never names an object that no connection owns.
SubscriptionsAgree ==
    /\ \A r \in Conns, ch \in Channels :
          phase[r] = "read" => (ch \in subs[obj[r]] <=> obj[r] \in index[ch])
    /\ \A ch \in Channels : \A o \in index[ch] :
          \E r \in Conns : /\ obj[r] = o
                           /\ phase[r] \in ReadPhases \cup
                                {"close", "unregister", "uncount", "unindex"}

\* A write pump that outlived its connection never closes the socket of the
\* connection that owns the object now: closeOnce is spent before Put.
ExitClosesOwnSocketOnly ==
    [][\A r \in Conns :
         writer[r] = "exit" /\ writer'[r] = "done" => open \ open' \subseteq {r}]_vars

\* Seen from outside, all of this is a gate of MaxConnections places.
GateOf(r) == IF r \in Holders THEN "open"
             ELSE IF phase[r] \in {"idle", "acquire"} THEN "waiting" ELSE "ended"

Gate == INSTANCE AdmissionGate WITH
            Attempts <- Conns, Capacity <- MaxConnections,
            gate <- [r \in Conns |-> GateOf(r)]

\* The handlers, the pumps and the semaphore together implement the gate: an
\* attempt opens once, only when fewer than MaxConnections are open, and ends
\* for good.
ImplementsGate == Gate!GateSpec

\* Every connection whose socket fails gives its slot back.
SlotReturned ==
    \A r \in Conns :
        (phase[r] \in ReadPhases /\ r \in down) ~> (r \notin Holders \/ crashed)

\* A request that passed the guard is answered: it gets a read pump or a 503,
\* even when no slot ever frees.
RequestAnswered ==
    \A r \in Conns :
        (phase[r] = "acquire") ~> (phase[r] \in {"rejected", "read"} \/ crashed)

\* r is the first connection its Client object serves.
FirstUse(r) == \A q \in Conns \ {r} :
                  obj[q] = obj[r] => connId[q] = 0 \/ connId[q] > connId[r]

\* On an object's first use, a write pump that gave up (a write error or the
\* 5 s write deadline) takes its connection down with it.
FirstUseWriterExitEndsConnection ==
    \A r \in Conns :
        (writer[r] = "done" /\ FirstUse(r))
            ~> (phase[r] \notin ReadPhases \/ crashed)

-----------------------------------------------------------------------------
(***************************************************************************)
(* What comments and documents say, and the code does not do.              *)
(***************************************************************************)

\* rate_limiter.go: "With cleanup: Memory usage stays constant".  A finished
\* connection leaves no token bucket behind.
NoBucketLeak ==
    \A r \in Conns : phase[r] = "done" => connId[r] \notin buckets

\* CONNECTION_CLEANUP_EXPLAINED.md: "1. Close network connection".  A
\* connection whose cleanup has run has a closed socket.
SocketClosedByCleanup ==
    \A r \in Conns : phase[r] = "done" => r \notin open

\* INEVITABLE_CONNECTION_DROPS.md calls the race between the cleanup and the
\* write pump "Log Spam" and "Cosmetic only".  It never takes the process down.
CleanupRaceIsCosmetic == ~crashed
=============================================================================
