--------------------------- MODULE ClientDelivery ---------------------------
(***************************************************************************)
(* How messages reach one client: the workers of the pool broadcast        *)
(* concurrently (sequence number, replay buffer, non-blocking send, slow   *)
(* client strikes), the read pump answers replay requests, the write pump  *)
(* empties the send channel.  The state is that of ONE Client object: the  *)
(* objects of different clients share nothing here.  The object may serve  *)
(* several connections in turn ("lives"), as ConnectionLifecycle allows;   *)
(* what an earlier life leaves behind is part of the model.                *)
(***************************************************************************)
EXTENDS Naturals, Sequences, SequencesExt

CONSTANTS
    Workers,     \* goroutines of the WorkerPool
    SendCap,     \* capacity of Client.send (512)
    ReplaySize,  \* ReplayBuffer.maxSize (100)
    MaxMsgs,     \* bound: broadcasts that reach this client
    MaxLives     \* bound: connections the object serves

ASSUME BoundsAssumption ==
    /\ SendCap \in Nat \ {0} /\ ReplaySize \in Nat \ {0}
    /\ MaxMsgs \in Nat /\ MaxLives \in Nat
    /\ IsFiniteSet(Workers)

VARIABLES
    life,        \* number of the connection the object serves or served last
    connected,   \* Client.conn # nil
    sock,        \* the socket of the current life works
    once,        \* Client.closeOnce has run
    indexed,     \* the object is in the subscription index for the channel
    reader,      \* read pump of the current life
    replaying,   \* what the replay handler still has to send, by position
                 \* in the buffer it was copied from
    writer,      \* write pump of every life
    worker,      \* program counter and envelope of every worker
    published,   \* broadcasts so far
    counter,     \* seqGen.counter
    replay,      \* replayBuffer.entries
    send,        \* Client.send
    strikes,     \* Client.sendAttempts
    got,         \* history: numbers the client of this life has received
    last,        \* history: the latest it received as a first transmission
    between      \* history: successful sends since strikes were last zero

lifeVars    == <<life, connected, sock, once, indexed>>
pumpVars    == <<reader, replaying, writer>>
deliverVars == <<worker, published, counter>>
strikeVars  == <<strikes, between>>
historyVars == <<got, last>>
vars == <<lifeVars, pumpVars, deliverVars, replay, send, strikeVars, historyVars>>

MaxStrikes == 3
Lives == 1..MaxLives
Numbers == 1..MaxMsgs

\* A numbered envelope, the life whose subscription it was looked up for, and
\* whether a replay sends it again.  Control stands for what is not numbered:
\* acknowledgements, pongs, errors, replay_incomplete; it also fills the hand
\* of a goroutine that holds no envelope.
Envelopes == [life : Lives, seq : Numbers, again : BOOLEAN]
Control == [life |-> 0, seq |-> 0, again |-> FALSE]

Seqs(q) == {q[i].seq : i \in DOMAIN q}

Init ==
    /\ life = 0 /\ connected = FALSE /\ sock = FALSE /\ once = FALSE
    /\ indexed = FALSE
    /\ reader = "none" /\ replaying = <<>>
    /\ writer = [l \in Lives |-> [pc |-> "none", msg |-> Control]]
    /\ worker = [w \in Workers |-> [pc |-> "idle", env |-> Control]]
    /\ published = 0 /\ counter = 0
    /\ replay = <<>> /\ send = <<>>
    /\ strikes = 0 /\ between = 0
    /\ got = {} /\ last = 0

-----------------------------------------------------------------------------
(***************************************************************************)
(* The object's lives.                                                     *)
(***************************************************************************)

\* Get and the rest of handleWebSocket.  Get takes at most one message out of
\* send, restarts the numbering, clears buffer and strikes; not closeOnce.
Connect ==
    /\ reader = "none" /\ life < MaxLives
    /\ life' = life + 1
    /\ connected' = TRUE /\ sock' = TRUE
    /\ send' = IF send = <<>> THEN send ELSE Tail(send)
    /\ counter' = 0 /\ replay' = <<>> /\ strikes' = 0
    /\ reader' = "read"
    /\ writer' = [writer EXCEPT ![life + 1].pc = "select"]
    /\ got' = {} /\ last' = 0 /\ between' = 0
    /\ UNCHANGED <<once, indexed, replaying, worker, published>>

\* The client subscribes (SubscriptionIndex.AddMultiple).
Subscribe ==
    /\ reader = "read" /\ sock /\ ~indexed
    /\ indexed' = TRUE
    /\ UNCHANGED <<life, connected, sock, once, pumpVars, deliverVars, replay,
                   send, strikeVars, historyVars>>

\* The peer goes away or falls silent.
SockDrops ==
    /\ connected /\ sock
    /\ sock' = FALSE
    /\ UNCHANGED <<life, connected, once, indexed, pumpVars, deliverVars,
                   replay, send, strikeVars, historyVars>>

\* The read pump's cleanup: closeOnce, then RemoveClient.
ReaderUnindexes ==
    /\ reader = "read" /\ ~sock
    /\ reader' = "put"
    /\ once' = TRUE /\ indexed' = FALSE
    /\ UNCHANGED <<life, connected, sock, replaying, writer, deliverVars,
                   replay, send, strikeVars, historyVars>>

\* ConnectionPool.Put: conn = nil, replayBuffer.Clear().
ReaderPuts ==
    /\ reader = "put"
    /\ reader' = "none"
    /\ connected' = FALSE /\ replay' = <<>>
    /\ UNCHANGED <<life, sock, once, indexed, replaying, writer, deliverVars,
                   send, strikeVars, historyVars>>

-----------------------------------------------------------------------------
(***************************************************************************)
(* broadcast, for the part of its loop that concerns this client.          *)
(***************************************************************************)
WorkerGoto(w, from, to, env) ==
    /\ worker[w].pc = from
    /\ worker' = [worker EXCEPT ![w] = [pc |-> to, env |-> env]]

\* subscriptionIndex.Get: a copy, used after the lock is released.
Lookup(w) ==
    /\ published < MaxMsgs /\ indexed
    /\ WorkerGoto(w, "idle", "wrap", [life |-> life, seq |-> 1, again |-> FALSE])
    /\ published' = published + 1
    /\ UNCHANGED <<lifeVars, pumpVars, counter, replay, send, strikeVars,
                   historyVars>>

\* Mutant: Next loads and stores without an atomic add, so that the update of
\* another worker is lost.
WrapLosesUpdate(w) ==
    /\ \E loaded \in 0..counter :
         /\ WorkerGoto(w, "wrap", "buffer", [worker[w].env EXCEPT !.seq = loaded + 1])
         /\ counter' = loaded + 1
    /\ UNCHANGED <<lifeVars, pumpVars, published, replay, send, strikeVars,
                   historyVars>>

\* Mutant: Next returns the counter without advancing it.
WrapReusesNumber(w) ==
    /\ WorkerGoto(w, "wrap", "buffer", [worker[w].env EXCEPT !.seq = counter + 1])
    /\ UNCHANGED <<lifeVars, pumpVars, published, counter, replay, send,
                   strikeVars, historyVars>>

\* seqGen.Next().
Wrap(w) ==
    /\ WorkerGoto(w, "wrap", "buffer", [worker[w].env EXCEPT !.seq = counter + 1])
    /\ counter' = counter + 1
    /\ UNCHANGED <<lifeVars, pumpVars, published, replay, send, strikeVars,
                   historyVars>>

\* A payload that is not JSON: the number is spent, then Add gives up
\* silently and Serialize makes broadcast go on to the next client.
WrapMalformed(w) ==
    /\ WorkerGoto(w, "wrap", "idle", Control)
    /\ counter' = counter + 1
    /\ UNCHANGED <<lifeVars, pumpVars, published, replay, send, strikeVars,
                   historyVars>>

\* Mutant: one entry more than maxSize.
ReplayAddOffByOne(buf, env) ==
    Append(IF Len(buf) > ReplaySize THEN Tail(buf) ELSE buf, env)

\* ReplayBuffer.Add.
ReplayAdd(buf, env) ==
    Append(IF Len(buf) >= ReplaySize THEN Tail(buf) ELSE buf, env)

\* Mutant: the envelope is sent before it is buffered, and a failed send skips
\* the buffer.
BufferSkipped(w) ==
    /\ WorkerGoto(w, "buffer", "send", worker[w].env)
    /\ UNCHANGED <<lifeVars, pumpVars, published, counter, replay, send,
                   strikeVars, historyVars>>

Buffer(w) ==
    /\ WorkerGoto(w, "buffer", "send", worker[w].env)
    /\ replay' = ReplayAdd(replay, worker[w].env)
    /\ UNCHANGED <<lifeVars, pumpVars, published, counter, send, strikeVars,
                   historyVars>>

\* The non-blocking send succeeds; sendAttempts is reset in a later step.
SendQueued(w) ==
    /\ Len(send) < SendCap
    /\ WorkerGoto(w, "send", "reset", Control)
    /\ send' = Append(send, worker[w].env)
    /\ between' = IF strikes = 0 THEN 0 ELSE between + 1
    /\ UNCHANGED <<lifeVars, pumpVars, published, counter, replay, strikes,
                   historyVars>>

\* Mutant: a successful send does not clear the strikes.
ResetStrikesForgotten(w) ==
    /\ WorkerGoto(w, "reset", "idle", Control)
    /\ UNCHANGED <<lifeVars, pumpVars, published, counter, replay, send,
                   strikeVars, historyVars>>

ResetStrikes(w) ==
    /\ WorkerGoto(w, "reset", "idle", Control)
    /\ strikes' = 0 /\ between' = 0
    /\ UNCHANGED <<lifeVars, pumpVars, published, counter, replay, send,
                   historyVars>>

\* The channel is full: the envelope is not sent, one more strike.
SendRefused(w) ==
    /\ Len(send) = SendCap
    /\ WorkerGoto(w, "send",
                  IF strikes + 1 >= MaxStrikes THEN "strike" ELSE "idle", Control)
    /\ strikes' = strikes + 1
    /\ UNCHANGED <<lifeVars, pumpVars, published, counter, replay, send,
                   between, historyVars>>

\* Mutant: the slow client is reported but its connection stays open.
DisconnectOnlyLogs(w) ==
    /\ WorkerGoto(w, "strike", "idle", Control)
    /\ UNCHANGED <<lifeVars, pumpVars, published, counter, replay, send,
                   strikeVars, historyVars>>

\* Three strikes: conn.Close() if there is one.
Disconnect(w) ==
    /\ WorkerGoto(w, "strike", "idle", Control)
    /\ sock' = (sock /\ ~connected)
    /\ UNCHANGED <<life, connected, once, indexed, pumpVars, published, counter,
                   replay, send, strikeVars, historyVars>>

-----------------------------------------------------------------------------
(***************************************************************************)
(* The read pump: replay requests and the messages it answers itself.      *)
(***************************************************************************)

\* Mutant: the end of the range is exclusive.
UpToExclusive(buf, to) ==
    {i \in DOMAIN buf : \A j \in 1..i : buf[j].seq < to}

\* ReplayBuffer.GetRange stops at the first entry beyond the range.
UpTo(buf, to) ==
    {i \in DOMAIN buf : \A j \in 1..i : buf[j].seq <= to}

GetRange(buf, from, to) ==
    Restrict(buf, {i \in UpTo(buf, to) : buf[i].seq >= from})

GetSince(buf, since) ==
    Restrict(buf, {i \in DOMAIN buf : buf[i].seq > since})

\* {"since": n} with n > 0, or else {"from": f, "to": t}; absent fields are 0.
ReplayFor(since, from, to) ==
    IF since > 0 THEN GetSince(replay, since) ELSE GetRange(replay, from, to)

ReadReplay ==
    /\ reader = "read" /\ sock
    /\ \E since, from, to \in {0} \cup Numbers :
         /\ since = 0 \/ (from = 0 /\ to = 0)
         /\ DOMAIN ReplayFor(since, from, to) # {}
         /\ replaying' = ReplayFor(since, from, to)
    /\ reader' = "replay"
    /\ UNCHANGED <<lifeVars, writer, deliverVars, replay, send, strikeVars,
                   historyVars>>

\* One blocking send of the replay loop, which goes through the copy in order.
ReplaySend ==
    /\ reader = "replay" /\ Len(send) < SendCap
    /\ \E next \in DOMAIN replaying :
         LET rest == DOMAIN replaying \ {next} IN
         /\ \A i \in rest : next < i
         /\ send' = Append(send, [replaying[next] EXCEPT !.again = TRUE])
         /\ replaying' = Restrict(replaying, rest)
         /\ reader' = IF rest = {} THEN "read" ELSE "replay"
    /\ UNCHANGED <<lifeVars, writer, deliverVars, replay, strikeVars, historyVars>>

\* The channel stayed full for 3 s: the rest of the replay is given up.
ReplayTimesOut ==
    /\ reader = "replay" /\ Len(send) = SendCap
    /\ replaying' = <<>> /\ reader' = "notice"
    /\ UNCHANGED <<lifeVars, writer, deliverVars, replay, send, strikeVars,
                   historyVars>>

\* Best-effort send of a control message: replay_incomplete after a timeout,
\* otherwise the answer to a heartbeat, a subscription, a rate limit.
ReadControl ==
    /\ reader = "notice" \/ (reader = "read" /\ sock)
    /\ reader' = "read"
    /\ send' = IF Len(send) < SendCap THEN Append(send, Control) ELSE send
    /\ UNCHANGED <<lifeVars, replaying, writer, deliverVars, replay, strikeVars,
                   historyVars>>

-----------------------------------------------------------------------------
(***************************************************************************)
(* The write pump of life l.  It may outlive its life; it then looks at    *)
(* the conn of whatever life the object has.                               *)
(***************************************************************************)
WriterGoto(l, from, to, msg) ==
    /\ writer[l].pc = from
    /\ writer' = [writer EXCEPT ![l] = [pc |-> to, msg |-> msg]]

\* Receive from send; with a nil conn the pump ends and the message is lost.
WriterTakes(l) ==
    /\ send # <<>>
    /\ send' = Tail(send)
    /\ IF connected THEN WriterGoto(l, "select", "write", Head(send))
                    ELSE WriterGoto(l, "select", "exit", Control)
    /\ UNCHANGED <<lifeVars, reader, replaying, deliverVars, replay, strikeVars,
                   historyVars>>

WriterWrites(l) ==
    /\ connected /\ sock
    /\ WriterGoto(l, "write", "select", Control)
    /\ LET msg == writer[l].msg IN
         /\ got' = IF msg.life = life THEN got \cup {msg.seq} ELSE got
         /\ last' = IF msg.life = life /\ ~msg.again THEN msg.seq ELSE last
    /\ UNCHANGED <<lifeVars, reader, replaying, deliverVars, replay, send,
                   strikeVars>>

\* A write or a ping fails: dead socket, 5 s deadline, or conn is nil by now.
WriterFails(l) ==
    /\ \/ WriterGoto(l, "write", "exit", Control)
       \/ WriterGoto(l, "select", "exit", Control)
    /\ UNCHANGED <<lifeVars, reader, replaying, deliverVars, replay, send,
                   strikeVars, historyVars>>

\* Mutant: the write pump leaves without closing.
WriterExitsQuietly(l) ==
    /\ WriterGoto(l, "exit", "done", Control)
    /\ UNCHANGED <<lifeVars, reader, replaying, deliverVars, replay, send,
                   strikeVars, historyVars>>

WriterExits(l) ==
    /\ WriterGoto(l, "exit", "done", Control)
    /\ once' = TRUE
    /\ sock' = (sock /\ (once \/ ~connected))
    /\ UNCHANGED <<life, connected, indexed, reader, replaying, deliverVars,
                   replay, send, strikeVars, historyVars>>

-----------------------------------------------------------------------------
Reader == \/ ReaderUnindexes \/ ReaderPuts
          \/ ReadReplay \/ ReplaySend \/ ReplayTimesOut \/ ReadControl

Worker(w) == \/ Lookup(w) \/ Wrap(w) \/ WrapMalformed(w) \/ Buffer(w)
             \/ SendQueued(w) \/ ResetStrikes(w) \/ SendRefused(w) \/ Disconnect(w)

Writer(l) == WriterTakes(l) \/ WriterWrites(l) \/ WriterFails(l) \/ WriterExits(l)

\* All lives are spent and every goroutine of them has ended.
Terminated == /\ reader = "none" /\ life = MaxLives
              /\ \A w \in Workers : worker[w].pc = "idle"
              /\ \A l \in Lives : writer[l].pc = "done"
              /\ UNCHANGED vars

Next == \/ Connect \/ Subscribe \/ SockDrops \/ Reader
        \/ \E w \in Workers : Worker(w)
        \/ \E l \in Lives : Writer(l)
        \/ Terminated

Spec == Init /\ [][Next]_vars

(***************************************************************************)
(* The scheduler runs every goroutine that can run and the timers fire.    *)
(* Clients need not send anything, nor does anyone publish.                *)
(***************************************************************************)
Fairness ==
    /\ WF_vars(ReaderUnindexes \/ ReaderPuts \/ ReplaySend \/ ReplayTimesOut
                 \/ (reader = "notice" /\ ReadControl))
    /\ \A w \in Workers : WF_vars(worker[w].pc # "idle" /\ Worker(w))
    /\ \A l \in Lives : WF_vars(Writer(l))

FairSpec == Spec /\ Fairness

-----------------------------------------------------------------------------
(***************************************************************************)
(* What the code promises.                                                 *)
(***************************************************************************)
Cell == Envelopes \cup {Control}

TypeOK ==
    /\ life \in 0..MaxLives
    /\ connected \in BOOLEAN /\ sock \in BOOLEAN
    /\ once \in BOOLEAN /\ indexed \in BOOLEAN
    /\ reader \in {"none", "read", "replay", "notice", "put"}
    /\ \E left \in SUBSET (1..ReplaySize) : replaying \in [left -> Envelopes]
    /\ writer \in [Lives -> [pc : {"none", "select", "write", "exit", "done"},
                             msg : Cell]]
    /\ worker \in [Workers -> [pc : {"idle", "wrap", "buffer", "send", "reset",
                                     "strike"},
                               env : Cell]]
    /\ published \in 0..MaxMsgs /\ counter \in 0..MaxMsgs
    /\ replay \in Seq(Envelopes) /\ Len(replay) <= ReplaySize
    /\ send \in Seq(Cell) /\ Len(send) <= SendCap
    /\ strikes \in 0..MaxMsgs
    /\ got \subseteq Numbers /\ last \in 0..MaxMsgs
    /\ between \in Nat

\* First transmissions of this life that are on their way: the positions of
\* those that wait in send, and the write pumps that hold one.
First(e) == e.life = life /\ ~e.again
Waiting == {i \in DOMAIN send : First(send[i])}
Writing == {l \in Lives : writer[l].pc = "write" /\ First(writer[l].msg)}
NumbersOnTheWay == {send[i].seq : i \in Waiting} \cup {writer[l].msg.seq : l \in Writing}

\* Workers that have numbered an envelope of this life and not yet sent it.
Numbering == {w \in Workers : /\ worker[w].pc \in {"buffer", "send"}
                              /\ worker[w].env.life = life}

\* A number is given to one envelope of a life only, however the workers
\* interleave and although stale workers of an earlier life draw numbers too.
NumbersUnique ==
    /\ \A i, j \in Waiting : send[i].seq = send[j].seq => i = j
    /\ \A k, l \in Writing : writer[k].msg.seq = writer[l].msg.seq => k = l
    /\ \A i \in Waiting, l \in Writing : send[i].seq # writer[l].msg.seq
    /\ \A w \in Numbering :
          /\ worker[w].env.seq \notin NumbersOnTheWay
          /\ \A v \in Numbering \ {w} : worker[v].env.seq # worker[w].env.seq

\* "If send fails, client can request replay": when the full channel refuses
\* an envelope of this life, the replay buffer holds it, unless newer entries
\* have filled the buffer and pushed it out.
RefusedIsReplayable ==
    [][\A w \in Workers :
         /\ worker[w].pc = "send" /\ worker'[w].pc # "send" /\ send' = send
         /\ connected /\ worker[w].env.life = life
         => worker[w].env \in ToSet(replay) \/ Len(replay) = ReplaySize]_vars

\* Several workers send to the client, so a number may be overtaken by greater
\* ones.  But a worker has one number in hand at a time: behind what the client
\* has received, fewer lower numbers are still to come than there are workers,
\* and with a single worker none is.
FewArriveLate ==
    last # 0 =>
        Cardinality({i \in Waiting : send[i].seq < last})
          + Cardinality({w \in Numbering : worker[w].env.seq < last})
            < Cardinality(Workers)

\* What a range request does not find although the buffer holds it.
Missed(from, to) ==
    {i \in DOMAIN replay : replay[i].seq \in from..to}
        \ DOMAIN GetRange(replay, from, to)

\* GetRange stops at the first entry beyond the range although workers may
\* have buffered lower numbers after it.  It misses fewer entries than there are
\* workers, once no stale worker has put an entry of an earlier life in the
\* buffer.
RangeMissesFew ==
    (\A i \in DOMAIN replay : replay[i].life = life) =>
        \A from, to \in Numbers :
            Missed(from, to) # {} => Cardinality(Missed(from, to)) < Cardinality(Workers)

\* sendAttempts is cleared after a successful send, not with it: the strikes
\* span no other successful sends than those whose worker has yet to clear them.
StrikesSpanPendingResets ==
    between <= Cardinality({w \in Workers : worker[w].pc = "reset"})

\* What is queued for the first connection of an object reaches it, or the
\* connection ends.  The pool does not renew closeOnce: on a reused object a
\* write pump that gives up leaves socket and queue as they are.
FirstUseQueuedIsDelivered ==
    \A n \in Numbers :
        (\E i \in DOMAIN send : send[i].life = 1 /\ send[i].seq = n /\ life = 1)
            ~> (n \in got \/ ~sock)

\* A client that is given up is cleaned up: unregistered and out of the index,
\* even if its read pump is in the middle of a replay into the full channel.
SlowClientLeaves ==
    (strikes >= MaxStrikes /\ connected) ~> (~indexed \/ strikes < MaxStrikes)

-----------------------------------------------------------------------------
(***************************************************************************)
(* What comments and documents say, and the code does not do.              *)
(***************************************************************************)

\* message.go, MessageEnvelope.Seq: "monotonically increasing per connection",
\* on which the client's gap detection relies.  First transmissions reach the
\* client in the order of their numbers.
ReceivedInOrder ==
    /\ \A i \in Waiting :
         /\ send[i].seq > last
         /\ \A j \in Waiting : j < i => send[j].seq < send[i].seq
    /\ \A l \in Writing :
         /\ writer[l].msg.seq > last
         /\ \A i \in Waiting : writer[l].msg.seq < send[i].seq

\* replay_buffer.go, GetRange: "Full slice if all messages available (normal
\* case)".  A range request finds every entry of the range in the buffer.
RangeIsComplete == \A from, to \in Numbers : Missed(from, to) = {}

\* server.go, broadcast: "Disconnect after 3 consecutive failures".  No send
\* has succeeded between the failures for which a client is given up.
StrikesAreConsecutive ==
    [][\A w \in Workers :
         worker[w].pc = "send" /\ worker'[w].pc = "strike" => between = 0]_vars

\* connection.go, Get: "Drain any pending messages from previous connection".
\* A connection starts with an empty send channel.
DrainedByGet == [][life' # life => send' = <<>>]_vars
=============================================================================
