# A formal model of the WebSocket price server

`ws_poc` is a Go WebSocket server (`src/src/`) that takes price messages from NATS
JetStream and sends them to thousands of clients, with a TypeScript publisher
(`src/publisher/`) that feeds it in tests. This directory holds TLA+ modules
translated from that code, TLC configurations that check them on small
instances, and proofs checked by TLAPS.

Paths below are relative to the repository root; `server.go` and the other bare Go file
names are in `src/src/`.

## Inventory

| Component | State | Operations | Talks to |
|---|---|---|---|
| Admission, connection lifecycle (`server.go`, `connection.go`) | `connectionsSem`, `stats.CurrentConnections`, `clientCount`, the registry `clients`, a `sync.Pool` of `Client` objects, and in each object `conn`, `id`, `closeOnce` | `handleWebSocket`, `readPump` and its deferred cleanup, `writePump`, `ConnectionPool.Get/Put` | resource guard (read), subscription index, rate limiter, broadcast (shared `Client`) |
| Subscriptions (`connection.go`) | each client's `SubscriptionSet`, the global `SubscriptionIndex` | subscribe, unsubscribe, `RemoveClient`, `Clear`, `Get` | read pump writes, broadcast reads a copy |
| Broadcast (`server.go`, `message.go`) | `seqGen`, `send` channel, `sendAttempts` per client | look up, wrap, buffer, non-blocking send, strikes, disconnect | runs on the workers; shares the client with both pumps |
| Replay (`replay_buffer.go`, `server.go`) | `entries` of each client | `Add`, `GetRange`, `GetSince`, `Clear`, the replay loop with its 3 s timeout | broadcast adds, read pump reads and sends |
| Per-client rate limiter (`rate_limiter.go`) | bucket per client id | `CheckLimit`, `RemoveClient` | read pump |
| Resource guard (`resource_guard.go`) | limits, last CPU and memory reading, NATS token bucket | `ShouldAcceptConnection`, `AllowNATSMessage`, `ShouldPauseNATS`, `UpdateResources` | handler, NATS callback |
| NATS ingest (`server.go`) | durable consumer, one callback goroutine | reject (Nak), submit, broadcast, Ack | JetStream, worker pool |
| Worker pool (`worker_pool.go`) | `taskQueue`, workers, `droppedTasks` | `Submit`, worker loop with `recover`, `Stop` | ingest, broadcast |
| Shutdown (`server.go`, `main.go`) | `shuttingDown`, context | drain loop, force close, cancel, stop | everything |
| Byte buffers (`buffer.go`) | three `sync.Pool` tiers | `Get`, `Put` | replay entries |
| Price publisher (`src/publisher/publisher.ts`) | configuration, intervals, auto-stop timer | start, stop, configure, statistics | NATS |
| Monitors (`server.go`, `metrics.go`) | `stats.CPUPercent`, `stats.MemoryMB`, the NATS connection's state, gauges | `collectMetrics`, `monitorMemory`, `monitorNATS`, `collect`, `handleHealth` | the NATS client, operators |
| Logging, configuration | | report, validate | read only |

The behaviours that are hard to test:

* A `Client` object is recycled while a write pump or a broadcasting worker of
  its earlier connection still holds it. `Put` and `Get` reset some fields
  (`conn`, `id`, subscriptions, numbering, replay buffer) and leave others
  (`closeOnce`, all but one queued message).
* Counters and slots are taken and given back on many paths, by different goroutines.
* Broadcast is a sequence of unlocked steps per client; several workers do it
  at once to the same client, beside the replay loop.
* A full `send` channel: refusals, strikes, disconnection, a read pump that
  blocks on the channel only the write pump empties.
* Messages are rejected, dropped, delivered again, or expire; the process may end
  between the broadcast and its acknowledgement.
* Replay entries of all clients are slices of one buffer pool; a buffer given back
  too early is another client's message.
* The index changes its slices in place while workers go through copies of them.
* Limits are computed from elapsed time when somebody asks, in three steps with
  three readings of the clock for NATS messages.
* Shutdown closes channels under goroutines that still send on them, ends a drain at a
  momentary zero, and closes the task queue under a `select` with two ready cases.
* NATS may flap, or close for good while the server goes on; admission, the CPU
  brake, the memory alarm and `/health` look at readings taken at different times.

`PROJECT.json` lists each of these as a hazard with its line and the
properties that speak of it.

What makes each part correct:

* lifecycle: slots and gauge are exact, an object has one owner, its owner
  finds its own socket and id in it, the pool holds only clean objects, and
  a failed connection gives everything back;
* subscriptions: set and index agree whenever the client can observe them;
* delivery: numbers are unique, what is refused can be replayed, and however many
  workers interleave, few numbers arrive late, a range request misses few
  entries, and strikes span few successes (the comments promise more: none late, none
  missed, no success between strikes; see *Disagreements*);
* ingest: nothing is acknowledged before it was broadcast, a queued task is carried out;
* fan-out: a broadcast serves each subscriber once, whatever the index goes
  through meanwhile; an entry keeps its buffer to itself;
* limits: no window of time grants more than the burst and what drips in;
* shutdown: it ends, it tears down nobody before the grace period is over, and
  loses no message it has acknowledged;
* monitors: readings catch up with a steady load, a loss of NATS is reported once,
  and its final loss without fail.

## Modules

| Module | Models |
|---|---|
| `ConnectionLifecycle` | admission, both pumps, cleanup, object pool, subscriptions, bucket ownership |
| `AdmissionGate` | the abstract promise of admission: a gate of `Capacity` places |
| `ClientDelivery` | broadcast, replay and the write pump for one `Client` object over several connections |
| `NatsIngest` | JetStream callback, task queue, workers, acknowledgement, redelivery |
| `Fanout` | subscription index as slices, the loop of broadcast over many clients, replay buffers on the shared `BufferPool` |
| `Registry` | the abstract promise of the index: a relation between channels and present clients, and broadcasts that serve its members once |
| `RateLimits` | the client's token bucket and the limiter of NATS messages |
| `EagerBucket` | the abstract promise of a token bucket, dripping tick by tick |
| `Shutdown` | `Server.Shutdown`, `WorkerPool.Stop` and all they race with |
| `Monitoring` | samplers, `monitorNATS`, `/health`, the states of the NATS connection |
| `ConnectionLifecycleProofs`, `ClientDeliveryProofs`, `NatsIngestProofs`, `FanoutProofs`, `RateLimitsProofs`, `ShutdownProofs`, `MonitoringProofs` | the theorems, each about the module it is named after |
| `MC...` | symmetry sets for TLC |

Operators introduced by a comment `Mutant:` are deliberate mistakes. Each one stands
before the definition it perverts; a property counts as meaningful only when
swapping the mistake in makes TLC find it violated. `PROJECT.json` pairs them.

### ConnectionLifecycle

One *attempt* is one HTTP request with its own `net.Conn`. Its handler and then its
read pump run in sequence, so `phase[r]` is one program counter for both:

    idle -> acquire -> upgrade -> get -> register -> start        handleWebSocket
         -> read (<-> subscribe, unsubscribe)                     readPump loop
         -> close -> unregister -> uncount -> unindex             deferred cleanup
         -> reset -> pool -> release -> unlimit -> done

`writer[r]` is the write pump, which the cleanup neither stops nor waits for. `obj[r]`
is the object both pumps hold; `conn`, `id`, `once`, `subs` are fields of
*objects*, which is how a late write pump comes to look at the next connection's
socket. Each statement that another goroutine can observe is a step of its own,
in the order of the code (`RemoveClient(c.id)` after `Put`, line 649). `GetClient` picks
any pooled or new object, as `sync.Pool` may.

The two data races on `c.conn` are choices: `WriterPanics` dereferences the nil
interface that `Put` left, `WriterFails` covers a torn read that yields an
unusable connection. CPU, memory and goroutine readings of the resource guard,
and the shutdown flag, are inputs of `RejectedByGuard`. `ConnDrops` is a peer that
closes, a reset, or 30 s of silence (the read deadline), and `SlowClientClosed` is
broadcast's `conn.Close()`.

A subscription message handles any subset of `Channels`. Other messages change
neither subscriptions nor pumps and are one action (`ReadOther`).

### ClientDelivery

The state of *one* `Client` object, which may serve `MaxLives` connections in
turn. Clients share nothing in this part of the code, so one is enough; messages
for other clients do not appear. A worker goes through `Lookup` (copy of the
index), `Wrap`, `Buffer`, `SendQueued` or `SendRefused`, `ResetStrikes` or
`Disconnect`, and any other goroutine may run between two of them. An envelope is its
number, the connection it was looked up for, and whether it is a replay. The
numbered messages are told apart from control messages (acknowledgements, pongs, errors),
which share the channel and can fill it. `GetRange` is the loop of the code, with
its early `break`, and not the set of entries in range: that is what
`RangeMissesFew` and `RangeIsComplete` compare it with. What it returns is a copy, kept in `replaying` by
the positions the entries had in the buffer; the replay loop sends the least of those left.

A connection without its slot, gauge and registry is enough here (`Connect`,
`ReaderUnindexes`, `ReaderPuts`); that `GetClient` gives an object to one owner at
a time is what `ExclusiveOwnership` shows in the other module.

### NatsIngest

JetStream is external and modelled from the options the server gives it: messages
are `ready` or `pending`, come back after a Nak or `AckWait`, and expire at
`MaxAge`. The callback runs for one delivery at a time; the limiter and the CPU brake
are inputs, so `Reject` is always possible. `Submit` on a full queue drops the task and
says nothing to JetStream. A task is broadcast, then Ack, on any worker; a panic
in it is recovered and skips the Ack; `Restart` ends the process anywhere. A Nak or Ack may
fail without reaching JetStream. Of the NATS client, only the buffer of
deliveries is modelled here; `Monitoring` has the states of its connection.

### Fanout

Several clients this time, and what they share. `index` holds the slices of
`SubscriptionIndex` as sequences: `AddToList` is the search and append,
`RemoveFromList` the swap with the last element. A worker's `todo` is the rest of the
copy that `Get` returned. For each client of it the worker adds one entry to that
client's replay buffer, in two steps (`Evict`, `Store`) with `rb.mu` held
between them, and `Clear` returns a client's buffers one by one (`ClearPuts`)
with `rb.mu` held as well. `Put` and `Get` of the `ConnectionPool` both clear, hence
a client's way `in -> left -> out -> joining -> in`. The lock is not a variable: who
holds it follows from where the goroutines stand (`Locked`).

A byte slice has a capacity class (4, 16, 64 KB, more) and the envelope that was
written to it last; buffers that nobody refers to stand for garbage and for what
`make` returns. `sync.Pool` may return any pooled buffer of the tier or none, and
`Collect` empties it. An entry also carries, as the model's memory, the envelope it
was made for: `EntriesIntact` compares it with what the bytes say now.

That is the half of the loop that touches shared memory; queueing, strikes and
disconnection, which concern one client, are in `ClientDelivery`.

### RateLimits

Time is in ticks, and one tick adds one unit to a bucket; a token is `Cost` units, so
a client's 10 tokens per second and its fractions are whole numbers of units.
`TryConsume` refills from `idle`, the time since `lastRefill`, exactly as the code
does. The mapping to `EagerBucket` takes as its level what the bucket would hold if it
were refilled now. The limiter of `golang.org/x/time/rate` is external; of it the model
has what `AllowNATSMessage` uses: `Reserve` may go below zero, `Delay` is the time to the
reservation, `Cancel` restores a token unless the time of the reservation is
past. `Tick` may fall between any two of these. The rounding of `float64` is left out.

### Shutdown

`pc` follows the main goroutine through the statements of `Shutdown`. A connection is
between accepted and gone (`conn`), reduced to the steps shutdown can see: the
registry (`ForceClose` visits it), the counter the drain loop reads, the socket, and
whether its `send` is closed. Workers carry the set of clients their broadcast
still has to serve and may find any of them closed: a send on a closed channel
panics, which the worker recovers (`BroadcastPanics`) and the read pump does not
(`ReaderSendsOnClosed` ends the process). `TakeNil` is the closed queue, which yields
nil as often as it is asked.

Two facts of timing are assumed rather than modelled: a callback that runs when NATS
is closed returns before the first tick of the drain loop, a second later, so that
`Submit` never meets the closed queue; and monitors look at the context in between their rounds.

### Monitoring

`load` is the state of the machine, in the classes the thresholds tell apart. Each
sampler is an action that copies what it measures to where it stores it. `monitorNATS`
runs a round in two steps, the reading of the connection with its report and the rest,
and the connection may change between them. `losses` counts the reports of
losses minus those of returns. `RefusesConnections`, `PausesNATS` and `Unhealthy` are the
decisions the code derives from the readings.

## Runs

| Run | Question | Bounds |
|---|---|---|
| `LifecycleSafety` | Are counters, ownership, pool and subscriptions right in every interleaving? | 2 attempts, 2 objects, 1 channel, 2 slots |
| `LifecycleContention` | Does admission implement the gate; is everything given back, is everyone answered? | 2 attempts, 1 object, 1 slot |
| `Delivery` | Does the queue reach the client of a first connection, does a slow client leave? | 1 worker, 4 messages, 1 connection, `send` of 1, buffer of 2 |
| `DeliveryReuse` | What survives two workers and a recycled object: uniqueness, what can be replayed, and what is left of order, ranges and strikes? | 2 workers, 2 connections, 3 messages (2 once the object is used again: `ReuseBound`), `send` of 1, buffer of 2 |
| `Ingest` | Is nothing acknowledged too early, is every queued task done? | 2 messages, 2 workers, queue of 2, `MaxAge` 2, `AckWait` 1, 2 faults |
| `Fanout` | Do index and buffers stay right when clients come and go under broadcasts? | 2 clients, 1 channel, 2 workers, 4 buffers, payloads up to and beyond 64 KB, replay buffer of 2, 3 broadcasts |
| `RateLimits` | Is the limit the documented one, for windows that begin anywhere? | burst of 2 tokens of 2 (NATS: 3) units, windows of 7 ticks |
| `Shutdown` | Does it end, what can panic, what is left behind? | 2 connections, 1 worker, 1 monitor, queue of 1, 2 messages |
| `Monitoring` | Do reports and readings tell what happens? | 5 reconnects, 6 rounds between subscription checks (the code's values), 6 loads |

Three more runs refute what the documentation or a comment says; see
*Disagreements*.

Why the bounds suffice to be interesting: two attempts are what it takes for one
object to be recycled under a write pump that is still alive, with two objects
each may also have its own; one channel gives both a subscribed and an unsubscribed
state. A `send` of one is full after one message (control messages fill it
too), so four messages reach three strikes with a success between them. A
replay buffer of two evicts and has a range that ends inside it. Two messages with
redelivery yield duplicates that fill a queue of two. In `DeliveryReuse`, two workers are the
default size of the pool (`int(CPULimit * 2)`, `config.go:93`). One number late is then
allowed and does occur; two late numbers would take three messages, which the constraint
`ReuseBound` therefore lets fall into the first connection, and two missed entries
fit a buffer of two. The theorems of the same properties have no bound. In `Fanout`, two clients suffice for one to get
a buffer the other gave back, three broadcasts for an eviction with a full buffer left,
and four buffers are what two full replay buffers need, so that every further one
must come from the pool or the garbage. A slice of two is where the swapped element is not
the removed one. In `RateLimits` a window of seven ticks outlasts the time in which a
bucket fills (four and six). In `Shutdown` the two connections can stand on
either side of every step of the drain, a queue of one is full or empty, and a second
message finds it so. `MaxMsgs`, `MaxLives`, `NumMsgs`, `InboxSize`, `MaxFaults`, `MaxTasks`,
`Horizon`, `Bufs` and `Sizes` are bounds of the model and not of the code; the other
constants are parameters of the code.

`TypeOK` of each module also carries the capacities (`send`, replay buffer, task queue).
Deadlock is checked in every run: a state with no step but `Terminated`
would be a goroutine blocked for ever.

### Fairness

`FairSpec` of each module assumes weak fairness of each goroutine's own
steps: Go's scheduler runs what can run. It also makes the code's timers fire: the
5 s wait for a slot, the read deadline (a dead peer is a failing read), the 27 s
ping and 5 s write deadline, the 3 s replay timeout. Nothing is assumed of what
happens outside: that a client sends anything or ever leaves, that a message is published, how
often the limiter or the CPU brake lets go, that JetStream delivers.
`FirstUseWriterExitEndsConnection` is stated for the first connection of an object, since
on later ones the spent `closeOnce` really leaves the connection half alive.
`FirstUseQueuedIsDelivered` is restricted for the same reason: on a reused object a write
pump that gives up closes no socket, and the queue stays where it is while the
connection lives on.

`Shutdown` needs strong fairness once: after `Stop` has closed the queue, a worker's
`select` has two ready cases, and Go takes one of them at random, so the cancelled
context is taken in the end (`WorkerExits`). Weak fairness would let the nil tasks win
for ever. The listener and the monitors notice what ends them; clients owe nothing,
not even to leave: the grace period's timer takes care of that. `Monitoring`
assumes that tickers fire and that a measurement succeeds now and then, and
nothing of the load or of NATS.

## Disagreements

Each run violates exactly the property that states the claim.

* `BucketLeak`: `readPump` removes the token bucket of `c.id` after `Put` has set
  `c.id` to 0 (`server.go:649`), so no bucket is ever removed. If the object has a new
  owner by then, the new owner's bucket goes instead. `rate_limiter.go:259` claims
  constant memory.
* `CleanupPanic`: the write pump tests `c.conn` and reads it again
  (`server.go:757-765`); `Put` may clear it between. The goroutine has no
  `recover`, so the process ends. A document calls this race cosmetic.
  The same unjoined write pump may also go on with the object's next
  connection, beside that connection's own.
* `RangeGap` (`RangeIsComplete`): numbering, buffering and sending are separate steps of concurrent
  workers, so on the first connection and without a fault 2 may be buffered before 1.
  `GetRange` stops at the first entry beyond the range (`replay_buffer.go:186`), and a request for 1 does
  not find it, against "Full slice if all messages available (normal case)" in line 155.

The following claims are stated as definitions too, and TLC refutes each of them, but no
run is kept for them. To repeat one, put the definition under `INVARIANTS` or `PROPERTIES` of
a copy of the configuration named.

* `SocketClosedByCleanup` (`ConnectionLifecycle`, `BucketLeak.cfg`): `Get` does not renew
  `closeOnce` (`connection.go:127`), so from the second connection of an object on neither
  pump closes the socket; `src/src/docs/CONNECTION_CLEANUP_EXPLAINED.md:97` says the cleanup
  does. For the same reason a write pump that gives up there leaves a read pump alone
  with the client.
* `ReceivedInOrder` (`ClientDelivery`, `RangeGap.cfg`): for the reason just given the client may be sent 2
  before 1 (`server.go:906` numbers, `server.go:930` sends). `message.go:47` calls the number
  monotonically increasing, and the gap detection it describes then asks for a replay of what
  was not lost.
* `StrikesAreConsecutive` (`ClientDelivery`, `RangeGap.cfg` with four messages): `sendAttempts` is
  cleared in a step after the send (`server.go:933`). Refusals of another worker in between
  count on from the strikes before, and the client is given up for failures that were not
  consecutive, as `server.go:955` says they are.
* `DrainedByGet` (`ClientDelivery`, `RangeGap.cfg` with a `send` of two and two connections): `Get` takes at
  most one message out of `send` (`connection.go:131`) where its comment speaks of "any pending
  messages"; two acknowledgements that a dying connection did not get rid of are enough
  for one to be there when the next connection of the object begins. Draining the
  channel completely would not keep messages of an earlier connection from the next client:
  a worker that looked up the earlier one sends after `Get`, and a write pump that
  outlived it already holds a message.
* `DroppedComesBack` (`NatsIngest`, `Ingest.cfg` with `AckWait` and `MaxAge` equal, as with the
  defaults of `config.go:44` and `config.go:47`): what `Submit` drops expires no later than
  JetStream would deliver it again, against
  `src/docs/production/CONFIG_MIGRATION_PLAN.md:455` ("30s allows for retries").
* `StopEmptiesQueue` (`Shutdown`, `Shutdown.cfg`): `worker_pool.go:179` says that Stop's workers
  "process any remaining queued tasks". The context is cancelled before, and a worker may
  take that case of its `select` first. `LeftoversUnacked` is what remains true: JetStream
  still has those messages.

What remains true of order, ranges and strikes for any number of workers is stated by
`FewArriveLate`, `RangeMissesFew` and `StrikesSpanPendingResets`: what one worker may get wrong is
what another has in its hand, and it has one message at a time. `RangeMissesFew` is stated for
a buffer without entries of an earlier connection: a late worker may put one there, and
a range request then stops at it at once.

Read in passing, without a definition of their own: `worker_pool.go:183` also calls `Stop` safe
to call twice (closing a closed channel panics). `resource_guard.go:246` says of
`Cancel` "Don't consume token": when the token drips in between `Delay` and `Cancel`, the
refused message has consumed it (`RefusalsLeaveNoDebt` bounds what that costs). A drain that reports
all connections gone may be wrong by those whose handshake passed the shutdown test
before (`OnlyLateHandshakesRemain` says: by no others). Closing `send` to force connections out
(`server.go:1498`) is met by a read pump about to answer, whose panic nobody
recovers (`NoPanicUnlessForced` says: only then). The comment at `server.go:319` has
`odin.token.BTC` broadcast to `BTC`; `extractChannel` wants four parts and drops it.

## Proofs

`ConnectionLifecycleProofs`, for any attempts, objects, channels and `MaxConnections`:

* `TypesAreRight`, `SlotsAreAccounted`, `GaugeIsAccounted`, `ObjectsAreExclusive`,
  `ConnectionsAreOwn`, `PoolIsClean`, `SubscriptionsStayInStep`: the invariants of
  `LifecycleSafety`;
* `ExitIsHarmless`: the action property of the write pump's exit;
* `LifecycleImplementsGate`: the refinement of `AdmissionGate`.

All but one rest on one inductive invariant, `IInv == TypeOK /\ Accounting /\ Ownership`.
*Accounting* says that `sem` and `current` are the sizes of two sets of attempts,
given by ranges of phases. The second set lies in the first, which bounds the gauge
by the semaphore and makes every decrement of a counter start above zero, so it
belongs to the typing argument too. *Ownership* has the invariants the runs
check and what makes them inductive: an attempt past `GetClient` has an object
(`ObjectSet`), `Put` has reset it before it reaches the pool (`ResetBeforePool`), the
registry and the index name it only between entry and exit
(`RegistryFollows`, `IndexFollows`), a write pump starts with the read pump
(`WriterFollows`), and a write pump is either beside its own read loop or on an
object whose `closeOnce` is spent (`OnceSpent`): the last one is why a late
exit closes nobody's socket. The refinement proof moves one attempt at a time
(`PhaseMoves`): the handler's and the cleanup's steps change the gate only where
the slot is taken or given back, and `Accounting` turns `sem < MaxConnections` into
the gate's guard.

`SubscriptionsStayInStep` needs a second one, `Agreement`, proved under `IInv`. The
subscription set of an object and the server's index are changed in two steps, so
`InStep` says for each phase how far they may differ: not at all between messages,
by the message's channels in between. `IndexOwned` says that what the index
holds is an object some connection still owns, hence nothing is left when an
object goes back to the pool. Ownership is what makes this local: without
`ExclusiveOwnership` one connection's message could change another's object.

`NatsIngestProofs`, for any number of messages, workers, faults and any limits:
`IngestTypes` and `AckedIsBroadcast`. `AckedWasBroadcast` speaks of JetStream alone;
it is inductive together with `AckFollowsBroadcast`, what a worker on its way to
the Ack knows of its own message.

`ClientDeliveryProofs`, for any number of workers, broadcasts and connections of the
object and any sizes of channel and buffer:

* `DeliveryTypes`. The counters are bounded by an argument about all workers: a number
  and a strike each use up one broadcast, so `counter` plus the workers that have yet to
  draw a number never exceeds `published`, and strikes plus the workers
  that have yet to send do not either (`CountsOK`).
* `SequenceNumbersAreUnique`. The property is inductive only together with
  `NumbersDrawn` (no number in use exceeds the counter) and `NoneOfLaterLife` (nothing is
  marked with a connection still to come). The second is why `Get` may restart the
  generator while workers of an earlier connection go on drawing from it: theirs are marked
  with the old connection, and the new one starts with no number in use.
* `RefusedEnvelopesAreBuffered`, from `Buffered`: an envelope about to be sent is in the buffer,
  or newer ones have filled it. `Get` and `Put` clear the buffer, but then the
  envelope is no longer one of the current connection.
* `FewNumbersAreLate`. `FewArriveLate` speaks of the number received last; what is inductive,
  `LateInv`, says of every number on its way that those behind it and lower than it are
  fewer than the workers. When a worker appends to the channel, nothing is behind its
  envelope but what the other workers have in hand (`FewInOtherHands`), and a number drawn
  later is greater. That the numbers are unique makes their count that of the messages.
* `RangesMissFew`, by the same argument about the places of the replay buffer (`EntriesInv`),
  whose entries also move up when one is evicted. The first entry beyond a range has
  overtaken all that the request misses.
* `StrikesSpanPending`. Inductive as it stands, given the types: a send that succeeds between strikes
  puts its worker among those that have yet to clear them.

`FanoutProofs`, for any number of clients, channels, workers, byte slices and broadcasts:

* `FanoutTypes`, with what the lock of a replay buffer gives: one holder (`OneHolder`), and
  room for one entry once `Evict` has run (`HolderHasRoom`).
* `NobodyAddressedTwice`, from lemmas about a list without repetitions: what append and
  the swap with the last element do to its set of elements, and that its
  length is that set's cardinality.
* `IndexImplementsRegistry`: the refinement of `Registry`, one action at a time, by the same
  lemmas. Taking the head of a copy removes exactly one member because the copy has no repetitions.
* `EntriesStayIntact`. `EntriesIntact` says nothing of a buffer that `Clear` is going through;
  what is inductive, `LiveInv`, speaks of the entries `Clear` has not come to: each
  refers to a slice that is in no pool and that no other such entry refers to, and
  whose bytes are its own. Hence `Get` never hands out a slice in use.

`RateLimitsProofs`, for any burst, cost and length of the window:

* `LimiterTypes` and `NoDebtAfterRefusals`, by one invariant: a pending reservation is due by the
  time its debt is paid (`DebtIsDue`), so what `Cancel` fails to give back has dripped in.
* `WindowsAreBounded`, from `Accounts`: granted, reserved and the level of the bucket together never
  exceed what the bucket held at most and has gained since the window opened. The
  level is the term that `BurstBound` leaves out and that a grant turns into a count.
* `LazyBucketIsEager`: the refinement of `EagerBucket`, whose level is the refilled one.

`ShutdownProofs`, for finitely many connections and workers and any queue:

* `ShutdownTypes` and `LeftoversStayUnacked`, proved together: the inductive `Covered` counts also
  the message in the callback's hand, and is what bounds `acked`.
* `PanicsOnlyAfterGrace`, from `ClosedByForce`: channels are closed by the force close alone.
* `DrainLeavesLateHandshakes`, from `DrainInv`: from the tick that read zero on, the connections that
  remain are among those that were in the middle of a handshake then.

`MonitoringProofs`: `MonitoringTypes`, and `ReportsAlternate` from `ReportedAsSeen`: what was reported last is
what the monitor saw in its latest round, not what the connection is now.

The assumptions are the named ones of the modules: limits are natural numbers (sizes and
costs positive), the nil values are not among the connections and objects, connections
of `Shutdown` and workers are finitely many where a proof counts them, and `Fanout` has at
least the byte slices that full replay buffers need (`make` always finds another one).

With that every invariant and every safety property of the passing runs, and all three
refinements, are theorems. The models serve the proofs in one respect: what is on its way to
the client, and what a replay has found, are sets of positions in a queue and not
filtered sequences, since what a recursive operator such as `SelectSeq` computes takes
an induction the provers do not have.

Model-checked only: liveness (`SlotReturned`, `RequestAnswered`,
`FirstUseWriterExitEndsConnection`, `FirstUseQueuedIsDelivered`, `SlowClientLeaves`,
`QueuedIsBroadcast`, `ShutdownCompletes`, `ReadingsCatchUp`, `ClosedForGoodIsReported`), which
the installed provers do not reach, and the three counterexamples under *Disagreements*, which are
facts about an instance.

## Not modelled

* Parsing and formatting (`extractChannel`, JSON, logging, alerting, the Prometheus gauges but one), how
  CPU, memory and cgroups are measured, and configuration but for the order of
  thresholds: they change no state the rest depends on, or are inputs.
* Code that nothing calls: `AllowBroadcast`, `AcquireGoroutine`, `MetricsCollector.Stop`, the
  single-channel `Add` and `Remove`.
* `WS_MAX_NATS_RATE` of zero, which lets nothing through and which `Validate` does not refuse.
* The publisher (`src/publisher`), a simulator that feeds the server in tests, the clients' side (load test
  scripts), deployment files and dashboards.
* Statistics such as `MessagesSent` and `droppedTasks`: only written and reported. `CurrentConnections`
  is modelled because admission and the drain loop read it.
* The number of goroutines: an input of admission, left out of `/health`.

## Plan

All modules of the original plan but the publisher are there, and so are the proofs of
every safety property the runs check. What is left:

1. The safety half of the liveness properties, where there is one: what is queued is not lost
   while the socket works (`FirstUseQueuedIsDelivered`), a task stays queued or with a worker until it was
   broadcast or panicked (`QueuedIsBroadcast`).
2. `EntriesStayIntact` at the level of what a replay request reads, across `Fanout` and `ClientDelivery`.

Runs stay few: a new module brings one run of its own, and small modules that
ask the same question share one.
