------------------------------ MODULE Shutdown ------------------------------
(***************************************************************************)
(* The end of the process: Server.Shutdown and everything it races with.   *)
(* Handshakes that passed the shuttingDown test, connections that drain    *)
(* or are forced to close, the subscription callback, workers in the       *)
(* middle of a broadcast, and the goroutines the last Wait counts.  The    *)
(* pumps are not among those: they end with their sockets or the process.  *)
(* ConnectionLifecycle, ClientDelivery and NatsIngest have the detail of   *)
(* what goes on before the signal.                                         *)
(***************************************************************************)
EXTENDS Naturals, FiniteSets

CONSTANTS
    Conns,      \* requests on /ws
    Workers,    \* goroutines of the WorkerPool
    Monitors,   \* collectMetrics, monitorMemory, monitorNATS
    QueueSize,  \* capacity of WorkerPool.taskQueue
    MaxTasks    \* bound: messages the callback receives

ASSUME ShutdownAssumption ==
    /\ IsFiniteSet(Conns) /\ IsFiniteSet(Workers)
    /\ QueueSize \in Nat \ {0} /\ MaxTasks \in Nat

VARIABLES
    pc,           \* where the main goroutine is in Shutdown
    shuttingDown, \* the flag
    natsOpen,     \* the NATS connection delivers
    ctxDone,      \* the context is cancelled
    queueClosed,  \* the task queue is closed
    forced,       \* connections the force close has yet to visit
    conn,         \* how far every request has come
    sock,         \* its socket works
    closed,       \* its send channel is closed
    callback,     \* the subscription callback runs
    received,     \* messages received so far
    queue,        \* tasks in taskQueue
    worker,       \* pc of every worker and whom its broadcast still has to serve
    background,   \* goroutines of Server.wg that still run
    panicked,     \* history: somebody has sent on a closed channel
    graceOver,    \* history: the grace period ran out
    late,         \* history: handshakes under way when the drain loop read zero
    acked         \* history: messages acknowledged

flagVars   == <<shuttingDown, natsOpen, ctxDone, queueClosed>>
pastVars   == <<graceOver, late>>
mainVars   == <<pc, flagVars, forced, pastVars>>
connVars   == <<conn, sock, closed>>
ingestVars == <<callback, received>>
workVars   == <<queue, worker, acked>>
vars == <<mainVars, connVars, ingestVars, workVars, background, panicked>>

Running == pc \notin {"done", "crashed"}

\* Server.clients, and CurrentConnections.
Registered(c) == conn[c] \in {"stored", "open"}
CurrentConnections == Cardinality({c \in Conns : conn[c] \in {"open", "unlisted"}})

\* The goroutines Server.wg counts: http.Server.Serve and the monitors.
Goroutines == Monitors \cup {"serve"}
Idle == [pc |-> "idle", todo |-> {}]

Init ==
    /\ pc = "serving"
    /\ shuttingDown = FALSE /\ natsOpen = TRUE /\ ctxDone = FALSE
    /\ queueClosed = FALSE /\ forced = {}
    /\ conn = [c \in Conns |-> "none"]
    /\ sock = [c \in Conns |-> FALSE] /\ closed = [c \in Conns |-> FALSE]
    /\ callback = FALSE /\ received = 0
    /\ queue = 0 /\ worker = [w \in Workers |-> Idle]
    /\ background = Goroutines
    /\ panicked = FALSE /\ graceOver = FALSE /\ late = {} /\ acked = 0

-----------------------------------------------------------------------------
(***************************************************************************)
(* main and Shutdown, one statement after the other.                       *)
(***************************************************************************)
Goto(from, to) == pc = from /\ pc' = to

\* What the steps of Shutdown leave alone.
Others == <<connVars, ingestVars, workVars, background, panicked>>

\* SIGINT or SIGTERM.
Signal ==
    /\ Goto("serving", "listener")
    /\ shuttingDown' = TRUE
    /\ UNCHANGED <<natsOpen, ctxDone, queueClosed, forced, pastVars, Others>>

CloseListener ==
    /\ Goto("listener", "nats")
    /\ UNCHANGED <<flagVars, forced, pastVars, Others>>

\* No callback starts any more; one that runs is not waited for.
CloseNATS ==
    /\ Goto("nats", "drain")
    /\ natsOpen' = FALSE
    /\ UNCHANGED <<shuttingDown, ctxDone, queueClosed, forced, pastVars, Others>>

\* A tick of the drain loop reads zero.  A callback that ran when NATS was
\* closed has returned long before the first tick: it waits for nothing, and
\* the ticker for a second.
Drained ==
    /\ Goto("drain", "cancel")
    /\ CurrentConnections = 0 /\ ~callback
    /\ late' = {c \in Conns : conn[c] \in {"accepted", "stored"}}
    /\ UNCHANGED <<flagVars, forced, graceOver, Others>>

\* The grace period of 30 s is over.
GraceExpires ==
    /\ Goto("drain", "force")
    /\ ~callback
    /\ forced' = {c \in Conns : Registered(c)}
    /\ graceOver' = TRUE
    /\ UNCHANGED <<flagVars, late, Others>>

\* clients.Range reaches a client.  It may or may not see one that is stored
\* while it runs.
ForceClose(c) ==
    /\ pc = "force" /\ Registered(c) /\ ~closed[c]
    /\ closed' = [closed EXCEPT ![c] = TRUE]
    /\ UNCHANGED <<mainVars, conn, sock, ingestVars, workVars, background, panicked>>

ForceEnds ==
    /\ Goto("force", "cancel")
    /\ \A c \in forced : closed[c] \/ ~Registered(c)
    /\ forced' = {}
    /\ UNCHANGED <<flagVars, pastVars, Others>>

\* Mutant: the pool is stopped, the context is not cancelled.
CancelForgotten ==
    /\ Goto("cancel", "stop")
    /\ UNCHANGED <<flagVars, forced, pastVars, Others>>

Cancel ==
    /\ Goto("cancel", "stop")
    /\ ctxDone' = TRUE
    /\ UNCHANGED <<shuttingDown, natsOpen, queueClosed, forced, pastVars, Others>>

\* WorkerPool.Stop: close, then wait for the workers.
CloseQueue ==
    /\ Goto("stop", "waitPool")
    /\ queueClosed' = TRUE
    /\ UNCHANGED <<shuttingDown, natsOpen, ctxDone, forced, pastVars, Others>>

PoolStopped ==
    /\ Goto("waitPool", "waitAll")
    /\ \A w \in Workers : worker[w].pc = "exited"
    /\ UNCHANGED <<flagVars, forced, pastVars, Others>>

\* Server.wg.Wait() returns, and with it main.
Finish ==
    /\ Goto("waitAll", "done")
    /\ background = {}
    /\ UNCHANGED <<flagVars, forced, pastVars, Others>>

\* What the main goroutine does once the signal is there.
Main == \/ CloseListener \/ CloseNATS \/ Drained \/ GraceExpires
        \/ (\E c \in Conns : ForceClose(c)) \/ ForceEnds
        \/ Cancel \/ CloseQueue \/ PoolStopped \/ Finish

-----------------------------------------------------------------------------
(***************************************************************************)
(* Connections.                                                            *)
(***************************************************************************)
ConnGoto(c, from, to) == Running /\ conn[c] = from /\ conn' = [conn EXCEPT ![c] = to]

\* The test at the top of handleWebSocket.  Requests still come after the
\* listener is closed, over HTTP connections that are kept alive.
Refuse(c) ==
    /\ ConnGoto(c, "none", "refused") /\ shuttingDown
    /\ UNCHANGED <<mainVars, sock, closed, ingestVars, workVars, background, panicked>>

\* Mutant: the flag is not tested.
AcceptAlways(c) ==
    /\ ConnGoto(c, "none", "accepted")
    /\ UNCHANGED <<mainVars, sock, closed, ingestVars, workVars, background, panicked>>

Accept(c) ==
    /\ ConnGoto(c, "none", "accepted") /\ ~shuttingDown
    /\ UNCHANGED <<mainVars, sock, closed, ingestVars, workVars, background, panicked>>

\* Upgrade and clients.Store; the flag is not looked at again.
Store(c) ==
    /\ ConnGoto(c, "accepted", "stored")
    /\ sock' = [sock EXCEPT ![c] = TRUE]
    /\ UNCHANGED <<mainVars, closed, ingestVars, workVars, background, panicked>>

\* CurrentConnections is incremented and the pumps start.
StartPumps(c) ==
    /\ ConnGoto(c, "stored", "open")
    /\ UNCHANGED <<mainVars, sock, closed, ingestVars, workVars, background, panicked>>

\* The peer leaves, or a deadline passes.
SocketEnds(c) ==
    /\ Running /\ conn[c] = "open" /\ sock[c]
    /\ sock' = [sock EXCEPT ![c] = FALSE]
    /\ UNCHANGED <<mainVars, conn, closed, ingestVars, workVars, background, panicked>>

\* The write pump comes to the end of a closed channel: a close frame, then its
\* deferred closeOnce.
WriterSeesClosed(c) ==
    /\ Running /\ conn[c] = "open" /\ sock[c] /\ closed[c]
    /\ sock' = [sock EXCEPT ![c] = FALSE]
    /\ UNCHANGED <<mainVars, conn, closed, ingestVars, workVars, background, panicked>>

\* The read pump answers a message (an acknowledgement, a pong, an error, a
\* replay) on the closed channel.  Nothing recovers: the process ends.
ReaderSendsOnClosed(c) ==
    /\ Running /\ conn[c] = "open" /\ sock[c] /\ closed[c]
    /\ pc' = "crashed" /\ panicked' = TRUE
    /\ UNCHANGED <<flagVars, forced, pastVars, connVars, ingestVars, workVars,
                   background>>

\* Mutant: the cleanup also closes the send channel, as its owner would.
UnregisterAndClose(c) ==
    /\ ConnGoto(c, "open", "unlisted") /\ ~sock[c]
    /\ closed' = [closed EXCEPT ![c] = TRUE]
    /\ UNCHANGED <<mainVars, sock, ingestVars, workVars, background, panicked>>

\* The deferred cleanup of the read pump, up to clients.Delete; the rest.
Unregister(c) ==
    /\ ConnGoto(c, "open", "unlisted") /\ ~sock[c]
    /\ UNCHANGED <<mainVars, sock, closed, ingestVars, workVars, background, panicked>>

Uncount(c) ==
    /\ ConnGoto(c, "unlisted", "gone")
    /\ UNCHANGED <<mainVars, sock, closed, ingestVars, workVars, background, panicked>>

Connection(c) ==
    \/ Refuse(c) \/ Accept(c) \/ Store(c) \/ StartPumps(c) \/ SocketEnds(c)
    \/ WriterSeesClosed(c) \/ ReaderSendsOnClosed(c) \/ Unregister(c) \/ Uncount(c)

-----------------------------------------------------------------------------
(***************************************************************************)
(* The callback, the workers, the rest of Server.wg.                       *)
(***************************************************************************)
CallbackStarts ==
    /\ Running /\ natsOpen /\ ~callback /\ received < MaxTasks
    /\ callback' = TRUE /\ received' = received + 1
    /\ UNCHANGED <<mainVars, connVars, workVars, background, panicked>>

\* Mutant: Submit has no default case and the queue is not bounded.
CallbackQueuesAlways ==
    /\ Running /\ callback
    /\ callback' = FALSE
    /\ queue' = queue + 1
    /\ UNCHANGED <<mainVars, connVars, received, worker, acked, background, panicked>>

\* Rejected, or submitted: queued, or dropped when the queue is full.
CallbackReturns ==
    /\ Running /\ callback
    /\ callback' = FALSE
    /\ queue' \in {queue, IF queue < QueueSize THEN queue + 1 ELSE queue}
    /\ UNCHANGED <<mainVars, connVars, received, worker, acked, background, panicked>>

WorkerGoto(w, from, next) ==
    /\ Running /\ worker[w].pc = from
    /\ worker' = [worker EXCEPT ![w] = next]

\* Mutant: the message is acknowledged when its task is taken.
TakeTaskAndAck(w) ==
    /\ queue > 0 /\ queue' = queue - 1
    /\ WorkerGoto(w, "idle", [pc |-> "broadcast",
                              todo |-> {c \in Conns : conn[c] = "open"}])
    /\ acked' = IF natsOpen THEN acked + 1 ELSE acked
    /\ UNCHANGED <<mainVars, connVars, ingestVars, background, panicked>>

\* A task; its broadcast looks up whoever is connected and subscribed.
TakeTask(w) ==
    /\ queue > 0 /\ queue' = queue - 1
    /\ WorkerGoto(w, "idle", [pc |-> "broadcast",
                              todo |-> {c \in Conns : conn[c] = "open"}])
    /\ UNCHANGED <<mainVars, connVars, ingestVars, acked, background, panicked>>

ServeClient(w, c) ==
    /\ c \in worker[w].todo /\ ~closed[c]
    /\ WorkerGoto(w, "broadcast", [worker[w] EXCEPT !.todo = @ \ {c}])
    /\ UNCHANGED <<mainVars, connVars, ingestVars, queue, acked, background, panicked>>

\* The send on a closed channel panics; the worker recovers.  The clients not
\* served yet get nothing, and the Ack is skipped.
BroadcastPanics(w, c) ==
    /\ c \in worker[w].todo /\ closed[c]
    /\ WorkerGoto(w, "broadcast", Idle)
    /\ panicked' = TRUE
    /\ UNCHANGED <<mainVars, connVars, ingestVars, queue, acked, background>>

\* The broadcast is over; Ack, which fails once NATS is closed.
TaskEnds(w) ==
    /\ worker[w].todo = {}
    /\ WorkerGoto(w, "broadcast", Idle)
    /\ acked' = IF natsOpen THEN acked + 1 ELSE acked
    /\ UNCHANGED <<mainVars, connVars, ingestVars, queue, background, panicked>>

\* The closed and empty queue yields nil, which is not a task.
TakeNil(w) ==
    /\ queueClosed /\ queue = 0
    /\ WorkerGoto(w, "idle", [pc |-> "nil", todo |-> {}])
    /\ UNCHANGED <<mainVars, connVars, ingestVars, queue, acked, background, panicked>>

SkipNil(w) ==
    /\ WorkerGoto(w, "nil", Idle)
    /\ UNCHANGED <<mainVars, connVars, ingestVars, queue, acked, background, panicked>>

\* ctx.Done() is chosen, even if tasks are left in the queue.
WorkerExits(w) ==
    /\ ctxDone
    /\ WorkerGoto(w, "idle", [pc |-> "exited", todo |-> {}])
    /\ UNCHANGED <<mainVars, connVars, ingestVars, queue, acked, background, panicked>>

Work(w) == \/ TakeTask(w) \/ TaskEnds(w) \/ TakeNil(w) \/ SkipNil(w)
           \/ \E c \in Conns : ServeClient(w, c) \/ BroadcastPanics(w, c)

\* Serve returns when its listener is closed, a monitor when the context is.
BackgroundEnds(g) ==
    /\ Running /\ g \in background
    /\ IF g = "serve" THEN pc \notin {"serving", "listener"} ELSE ctxDone
    /\ background' = background \ {g}
    /\ UNCHANGED <<mainVars, connVars, ingestVars, workVars, panicked>>

Terminated == ~Running /\ UNCHANGED vars

-----------------------------------------------------------------------------
Next == \/ Signal \/ Main
        \/ \E c \in Conns : Connection(c)
        \/ CallbackStarts \/ CallbackReturns
        \/ \E w \in Workers : Work(w) \/ WorkerExits(w)
        \/ \E g \in Goroutines : BackgroundEnds(g)
        \/ Terminated

Spec == Init /\ [][Next]_vars

(***************************************************************************)
(* The scheduler runs every goroutine that can run, and the timers fire.   *)
(* A select whose two cases are ready takes either at random, so that the  *)
(* end of the context, ready again and again beside the nil of the closed  *)
(* queue, is taken in the end: strong fairness.  Clients owe nothing.      *)
(***************************************************************************)
Fairness ==
    /\ WF_vars(Main) /\ WF_vars(CallbackReturns)
    /\ \A w \in Workers : WF_vars(Work(w)) /\ SF_vars(WorkerExits(w))
    /\ \A g \in Goroutines : WF_vars(BackgroundEnds(g))

FairSpec == Spec /\ Fairness

-----------------------------------------------------------------------------
(***************************************************************************)
(* What the code promises.                                                 *)
(***************************************************************************)
TypeOK ==
    /\ pc \in {"serving", "listener", "nats", "drain", "force", "cancel", "stop",
               "waitPool", "waitAll", "done", "crashed"}
    /\ {shuttingDown, natsOpen, ctxDone, queueClosed, callback, panicked}
         \subseteq BOOLEAN
    /\ forced \subseteq Conns
    /\ conn \in [Conns -> {"none", "refused", "accepted", "stored", "open",
                           "unlisted", "gone"}]
    /\ sock \in [Conns -> BOOLEAN] /\ closed \in [Conns -> BOOLEAN]
    /\ received \in 0..MaxTasks /\ queue \in 0..QueueSize
    /\ worker \in [Workers -> [pc : {"idle", "broadcast", "nil", "exited"},
                               todo : SUBSET Conns]]
    /\ background \subseteq Goroutines
    /\ graceOver \in BOOLEAN /\ late \subseteq Conns /\ acked \in 0..MaxTasks

\* Shutdown comes to an end, whatever clients do, whatever is queued and
\* however often the closed queue wins over the cancelled context.
ShutdownCompletes == shuttingDown ~> ~Running

\* Only the end of the grace period makes anybody send on a closed channel: as
\* long as clients leave by themselves no broadcast is cut short, and no pump
\* takes the process down, although senders and cleanups race.
NoPanicUnlessForced == panicked => graceOver

\* What the end of the pool leaves in the queue, or cuts short, was never
\* acknowledged, so that JetStream still has it: the messages received cover
\* those acknowledged, queued and being broadcast.
LeftoversUnacked ==
    acked + queue + Cardinality({w \in Workers : worker[w].pc = "broadcast"}) <= received

\* Connections that are still there when the drain ended by itself were in
\* the middle of their handshake when it did: the flag was tested before it
\* was set, and nobody who asked later is let in.
OnlyLateHandshakesRemain ==
    pc = "done" /\ ~graceOver =>
        {c \in Conns : conn[c] \in {"accepted", "stored", "open", "unlisted"}} \subseteq late

-----------------------------------------------------------------------------
(***************************************************************************)
(* What comments and documents say, and the code does not do.              *)
(***************************************************************************)

\* worker_pool.go, Stop: "Workers process any remaining queued tasks".
StopEmptiesQueue == pc \in {"waitAll", "done"} => queue = 0
=============================================================================
