----------------------------- MODULE NatsIngest -----------------------------
(***************************************************************************)
(* From JetStream to broadcast: the subscription callback (rate limit, CPU *)
(* brake, Submit), the bounded task queue and the workers of the pool, and *)
(* the acknowledgement after the broadcast.  JetStream itself is external: *)
(* a stream whose messages end after MaxAge, and a durable consumer that   *)
(* delivers again what was rejected, or not acknowledged within AckWait.   *)
(* What a broadcast does to a client is in ClientDelivery.                 *)
(***************************************************************************)
EXTENDS Naturals, Sequences, SequencesExt

CONSTANTS
    NumMsgs,     \* bound: messages published on odin.token.>
    Workers,     \* goroutines of the WorkerPool
    QueueSize,   \* capacity of WorkerPool.taskQueue
    MaxAge,      \* config.JSStreamMaxAge, in ticks
    AckWait,     \* config.JSConsumerAckWait, in ticks
    InboxSize,   \* bound: deliveries waiting in the NATS client
    MaxFaults    \* bound: panics, crashes and calls to NATS that fail

ASSUME BoundsAssumption ==
    /\ QueueSize \in Nat \ {0} /\ InboxSize \in Nat \ {0}
    /\ MaxAge \in Nat \ {0} /\ AckWait \in Nat \ {0}
    /\ NumMsgs \in Nat /\ MaxFaults \in Nat

VARIABLES
    state,     \* what JetStream knows of a message
    age,       \* ticks since it was published
    wait,      \* ticks since it was last delivered
    inbox,     \* deliveries the callback has not seen yet
    queue,     \* WorkerPool.taskQueue
    worker,    \* program counter and message of every worker
    faults,    \* faults so far
    seen,      \* history: messages delivered at least once
    repeated,  \* history: messages delivered more than once
    broadcast, \* history: messages whose broadcast has returned
    lost       \* history: messages of which a crash or a panic took a copy

jsVars     == <<state, age, wait>>
poolVars   == <<queue, worker>>
historyVars == <<seen, repeated, broadcast, lost>>
vars == <<jsVars, inbox, poolVars, faults, historyVars>>

Msgs == 1..NumMsgs

\* "ready" is in the stream and due for delivery, "pending" is delivered and
\* neither acknowledged nor rejected.
States == {"new", "ready", "pending", "acked", "expired"}
Idle == [pc |-> "idle", msg |-> 0]

InStream(m) == state[m] \in {"ready", "pending"}

Init ==
    /\ state = [m \in Msgs |-> "new"]
    /\ age = [m \in Msgs |-> 0] /\ wait = [m \in Msgs |-> 0]
    /\ inbox = <<>> /\ queue = <<>>
    /\ worker = [w \in Workers |-> Idle]
    /\ faults = 0
    /\ seen = {} /\ repeated = {} /\ broadcast = {} /\ lost = {}

-----------------------------------------------------------------------------
(***************************************************************************)
(* JetStream, as configured by NewServer and Start.                        *)
(***************************************************************************)

\* The publisher publishes the next message.
Publish(m) ==
    /\ state[m] = "new" /\ \A k \in 1..(m - 1) : state[k] # "new"
    /\ state' = [state EXCEPT ![m] = "ready"]
    /\ UNCHANGED <<age, wait, inbox, poolVars, faults, historyVars>>

\* Rejected and timed out messages are delivered among the new ones.
Deliver(m) ==
    /\ state[m] = "ready" /\ Len(inbox) < InboxSize
    /\ state' = [state EXCEPT ![m] = "pending"]
    /\ wait' = [wait EXCEPT ![m] = 0]
    /\ inbox' = Append(inbox, m)
    /\ repeated' = IF m \in seen THEN repeated \cup {m} ELSE repeated
    /\ seen' = seen \cup {m}
    /\ UNCHANGED <<age, poolVars, faults, broadcast, lost>>

AckWaitOver(m) ==
    /\ state[m] = "pending" /\ wait[m] = AckWait
    /\ state' = [state EXCEPT ![m] = "ready"]
    /\ UNCHANGED <<age, wait, inbox, poolVars, faults, historyVars>>

\* MaxAge; the copies on their way to a broadcast stay.
Expire(m) ==
    /\ InStream(m) /\ age[m] = MaxAge
    /\ state' = [state EXCEPT ![m] = "expired"]
    /\ UNCHANGED <<age, wait, inbox, poolVars, faults, historyVars>>

\* Time passes unless a timer of JetStream is due.
Tick ==
    /\ \E m \in Msgs : InStream(m)
    /\ \A m \in Msgs : /\ InStream(m) => age[m] < MaxAge
                       /\ state[m] = "pending" => wait[m] < AckWait
    /\ age' = [m \in Msgs |-> IF InStream(m) THEN age[m] + 1 ELSE age[m]]
    /\ wait' = [m \in Msgs |-> IF state[m] = "pending" THEN wait[m] + 1
                                                       ELSE wait[m]]
    /\ UNCHANGED <<state, inbox, poolVars, faults, historyVars>>

\* What a Nak and an Ack do when they reach JetStream, for whichever delivery
\* of the message they answer.
Naked(m) == state' = [state EXCEPT ![m] = IF @ = "pending" THEN "ready" ELSE @]
Acked(m) == state' = [state EXCEPT ![m] = IF InStream(m) THEN "acked" ELSE @]

Fault == faults < MaxFaults /\ faults' = faults + 1

\* The call returns nil, or it fails and JetStream never hears of it.
Answered(A) == \/ A /\ UNCHANGED faults
               \/ Fault /\ UNCHANGED state

-----------------------------------------------------------------------------
(***************************************************************************)
(* The subscription callback.  The NATS client runs it for one delivery    *)
(* after the other.                                                        *)
(***************************************************************************)

\* AllowNATSMessage or ShouldPauseNATS stops the message.
Reject ==
    /\ inbox # <<>>
    /\ inbox' = Tail(inbox)
    /\ Answered(Naked(Head(inbox)))
    /\ UNCHANGED <<age, wait, poolVars, historyVars>>

\* Mutant: a full queue grows by one.
SubmitQueuedAtLimit ==
    /\ inbox # <<>> /\ Len(queue) <= QueueSize
    /\ inbox' = Tail(inbox)
    /\ queue' = Append(queue, Head(inbox))
    /\ UNCHANGED <<jsVars, worker, faults, historyVars>>

\* Submit finds room in the queue.
SubmitQueued ==
    /\ inbox # <<>> /\ Len(queue) < QueueSize
    /\ inbox' = Tail(inbox)
    /\ queue' = Append(queue, Head(inbox))
    /\ UNCHANGED <<jsVars, worker, faults, historyVars>>

\* Submit finds the queue full: the task is dropped, and its message is
\* neither acknowledged nor rejected.
SubmitDropped ==
    /\ inbox # <<>> /\ Len(queue) = QueueSize
    /\ inbox' = Tail(inbox)
    /\ UNCHANGED <<jsVars, poolVars, faults, historyVars>>

Callback == Reject \/ SubmitQueued \/ SubmitDropped

-----------------------------------------------------------------------------
(***************************************************************************)
(* The worker loop and the submitted task: broadcast, then Ack.            *)
(***************************************************************************)
WorkerIn(w, pc) == worker[w].pc = pc

\* Mutant: a worker waits for a second task before it takes the first.
TakeTaskInPairs(w) ==
    /\ WorkerIn(w, "idle") /\ Len(queue) > 1
    /\ worker' = [worker EXCEPT ![w] = [pc |-> "broadcast", msg |-> Head(queue)]]
    /\ queue' = Tail(queue)
    /\ UNCHANGED <<jsVars, inbox, faults, historyVars>>

\* Mutant: the message is acknowledged when its task starts.
TakeTaskAndAck(w) ==
    /\ WorkerIn(w, "idle") /\ queue # <<>>
    /\ worker' = [worker EXCEPT ![w] = [pc |-> "broadcast", msg |-> Head(queue)]]
    /\ queue' = Tail(queue)
    /\ Acked(Head(queue))
    /\ UNCHANGED <<age, wait, inbox, faults, historyVars>>

TakeTask(w) ==
    /\ WorkerIn(w, "idle") /\ queue # <<>>
    /\ worker' = [worker EXCEPT ![w] = [pc |-> "broadcast", msg |-> Head(queue)]]
    /\ queue' = Tail(queue)
    /\ UNCHANGED <<jsVars, inbox, faults, historyVars>>

\* broadcast returns, whether or not anyone had subscribed to the channel.
BroadcastReturns(w) ==
    /\ WorkerIn(w, "broadcast")
    /\ worker' = [worker EXCEPT ![w].pc = "ack"]
    /\ broadcast' = broadcast \cup {worker[w].msg}
    /\ UNCHANGED <<jsVars, inbox, queue, faults, seen, repeated, lost>>

\* broadcast panics (a send on a channel that was closed): the worker recovers
\* and takes the next task; the Ack is skipped.
BroadcastPanics(w) ==
    /\ WorkerIn(w, "broadcast") /\ Fault
    /\ worker' = [worker EXCEPT ![w] = Idle]
    /\ lost' = lost \cup {worker[w].msg}
    /\ UNCHANGED <<jsVars, inbox, queue, seen, repeated, broadcast>>

Ack(w) ==
    /\ WorkerIn(w, "ack")
    /\ worker' = [worker EXCEPT ![w] = Idle]
    /\ Answered(Acked(worker[w].msg))
    /\ UNCHANGED <<age, wait, inbox, queue, historyVars>>

Work(w) == TakeTask(w) \/ BroadcastReturns(w) \/ BroadcastPanics(w) \/ Ack(w)

-----------------------------------------------------------------------------
\* The process dies and is started again: what it held is gone, the durable
\* consumer is not.
Restart ==
    /\ Fault
    /\ inbox' = <<>> /\ queue' = <<>>
    /\ worker' = [w \in Workers |-> Idle]
    /\ lost' = lost \cup ToSet(queue)
                    \cup {worker[w].msg : w \in {v \in Workers : WorkerIn(v, "broadcast")}}
    /\ UNCHANGED <<jsVars, seen, repeated, broadcast>>

\* Everything published has been acknowledged or has expired, and is done.
Terminated ==
    /\ \A m \in Msgs : state[m] \in {"acked", "expired"}
    /\ inbox = <<>> /\ queue = <<>>
    /\ \A w \in Workers : WorkerIn(w, "idle")
    /\ UNCHANGED vars

Next ==
    \/ \E m \in Msgs : Publish(m) \/ Deliver(m) \/ AckWaitOver(m) \/ Expire(m)
    \/ Tick \/ Callback \/ Restart \/ Terminated
    \/ \E w \in Workers : Work(w)

Spec == Init /\ [][Next]_vars

\* The callback and the workers run when they can; nothing is assumed of
\* JetStream, of time, or of how often the limiter and the brake let go.
FairSpec == Spec /\ WF_vars(Callback) /\ \A w \in Workers : WF_vars(Work(w))

-----------------------------------------------------------------------------
(***************************************************************************)
(* What the code promises.                                                 *)
(***************************************************************************)
TypeOK ==
    /\ state \in [Msgs -> States]
    /\ age \in [Msgs -> 0..MaxAge] /\ wait \in [Msgs -> 0..AckWait]
    /\ inbox \in Seq(Msgs) /\ Len(inbox) <= InboxSize
    /\ queue \in Seq(Msgs) /\ Len(queue) <= QueueSize
    /\ worker \in [Workers -> {Idle} \cup [pc : {"broadcast", "ack"}, msg : Msgs]]
    /\ faults \in 0..MaxFaults
    /\ repeated \subseteq seen /\ seen \subseteq Msgs
    /\ broadcast \subseteq Msgs /\ lost \subseteq Msgs

\* "Acknowledge message after successful broadcast": whatever copies of a
\* message are about, and wherever the process or a task dies, JetStream
\* never drops a message as acknowledged that no broadcast was made of.
AckedWasBroadcast == \A m \in Msgs : state[m] = "acked" => m \in broadcast

\* A task that Submit has queued is carried out, although tasks before it may
\* panic; only the end of the process takes it away.
QueuedIsBroadcast ==
    \A m \in Msgs : (m \in ToSet(queue)) ~> (m \in broadcast \cup lost)

-----------------------------------------------------------------------------
(***************************************************************************)
(* What the documentation says, and the code does not do.                  *)
(***************************************************************************)

\* CONFIG_MIGRATION_PLAN.md on JS_CONSUMER_ACK_WAIT: "30s allows for retries".
\* A message the server has let drop comes back before it expires.
DroppedComesBack ==
    [][\A m \in Msgs :
         state[m] = "pending" /\ state'[m] = "expired" =>
             \/ m \in repeated \/ m \in broadcast \/ m \in ToSet(inbox \o queue)
             \/ \E w \in Workers : worker[w].msg = m]_vars
=============================================================================
