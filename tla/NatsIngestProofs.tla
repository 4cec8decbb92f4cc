-------------------------- MODULE NatsIngestProofs --------------------------
(***************************************************************************)
(* Proofs about NatsIngest, for any number of messages and workers and any *)
(* sizes and time limits.                                                  *)
(***************************************************************************)
EXTENDS NatsIngest, TLAPS

USE DEF Idle, WorkerIn, jsVars, poolVars, historyVars

-----------------------------------------------------------------------------
(***************************************************************************)
(* Types.                                                                  *)
(***************************************************************************)

\* The head and the rest of a sequence of messages, and its set of elements.
LEMMA MessageSequences ==
    ASSUME NEW s \in Seq(Msgs)
    PROVE  /\ ToSet(s) \subseteq Msgs
           /\ Len(s) \in Nat
           /\ s # <<>> => /\ Head(s) \in Msgs /\ Tail(s) \in Seq(Msgs)
                          /\ Len(Tail(s)) = Len(s) - 1
           /\ \A m \in Msgs : /\ Append(s, m) \in Seq(Msgs)
                              /\ Len(Append(s, m)) = Len(s) + 1
  BY DEF ToSet

\* The initial state is well typed.
LEMMA TypeInit == Init => TypeOK
  BY BoundsAssumption DEF Init, TypeOK, States

\* JetStream's own steps keep the types.
LEMMA TypeJetStream ==
    ASSUME TypeOK,
           Tick \/ \E m \in Msgs : \/ Publish(m) \/ Deliver(m)
                                   \/ AckWaitOver(m) \/ Expire(m)
    PROVE  TypeOK'
<1>1. CASE Tick
  <2>1. age' \in [Msgs -> 0..MaxAge]
    BY <1>1, BoundsAssumption DEF TypeOK, Tick, InStream
  <2>2. wait' \in [Msgs -> 0..AckWait]
    BY <1>1, BoundsAssumption DEF TypeOK, Tick
  <2>3. QED
    BY <1>1, <2>1, <2>2 DEF TypeOK, Tick
<1>2. ASSUME NEW m \in Msgs, Publish(m) PROVE TypeOK'
  BY <1>2 DEF TypeOK, Publish, States
<1>3. ASSUME NEW m \in Msgs, Deliver(m) PROVE TypeOK'
  BY <1>3, MessageSequences, BoundsAssumption DEF TypeOK, Deliver, States
<1>4. ASSUME NEW m \in Msgs, AckWaitOver(m) PROVE TypeOK'
  BY <1>4 DEF TypeOK, AckWaitOver, States
<1>5. ASSUME NEW m \in Msgs, Expire(m) PROVE TypeOK'
  BY <1>5 DEF TypeOK, Expire, States
<1>6. QED
  BY <1>1, <1>2, <1>3, <1>4, <1>5

\* The callback takes the head of the inbox; the queue stays within its size.
LEMMA TypeCallback == TypeOK /\ Callback => TypeOK'
<1> SUFFICES ASSUME TypeOK, Callback PROVE TypeOK'
  OBVIOUS
<1>1. CASE Reject
  <2>1. inbox' \in Seq(Msgs) /\ Len(inbox') <= InboxSize /\ Head(inbox) \in Msgs
    BY <1>1, MessageSequences, BoundsAssumption DEF TypeOK, Reject
  <2>2. faults' \in 0..MaxFaults
    BY <1>1, BoundsAssumption DEF TypeOK, Reject, Answered, Fault
  <2>3. state' \in [Msgs -> States]
    BY <1>1 DEF TypeOK, Reject, Answered, Naked, States
  <2>4. QED
    BY <1>1, <2>1, <2>2, <2>3 DEF TypeOK, Reject
<1>2. CASE SubmitQueued
  <2>1. inbox' \in Seq(Msgs) /\ Len(inbox') <= InboxSize /\ Head(inbox) \in Msgs
    BY <1>2, MessageSequences, BoundsAssumption DEF TypeOK, SubmitQueued
  <2>2. queue' \in Seq(Msgs) /\ Len(queue') <= QueueSize
    BY <1>2, <2>1, MessageSequences, BoundsAssumption DEF TypeOK, SubmitQueued
  <2>3. QED
    BY <1>2, <2>1, <2>2 DEF TypeOK, SubmitQueued
<1>3. CASE SubmitDropped
  <2>1. inbox' \in Seq(Msgs) /\ Len(inbox') <= InboxSize
    BY <1>3, MessageSequences, BoundsAssumption DEF TypeOK, SubmitDropped
  <2>2. QED
    BY <1>3, <2>1 DEF TypeOK, SubmitDropped
<1>4. QED
  BY <1>1, <1>2, <1>3 DEF Callback

\* The worker pool keeps the types.
LEMMA TypeWork ==
    ASSUME TypeOK, NEW w \in Workers, Work(w)
    PROVE  TypeOK'
<1>1. CASE TakeTask(w)
  <2>1. /\ queue' \in Seq(Msgs) /\ Len(queue') <= QueueSize
        /\ Head(queue) \in Msgs
    BY <1>1, MessageSequences, BoundsAssumption DEF TypeOK, TakeTask
  <2>2. worker' \in [Workers -> {Idle} \cup [pc : {"broadcast", "ack"}, msg : Msgs]]
    BY <1>1, <2>1 DEF TypeOK, TakeTask
  <2>3. UNCHANGED <<jsVars, inbox, faults, historyVars>>
    BY <1>1 DEF TakeTask
  <2>4. QED
    BY <2>1, <2>2, <2>3 DEF TypeOK
<1>2. CASE BroadcastReturns(w)
  <2>1. worker[w] \in [pc : {"broadcast", "ack"}, msg : Msgs]
    BY <1>2 DEF TypeOK, BroadcastReturns
  <2>2. worker' \in [Workers -> {Idle} \cup [pc : {"broadcast", "ack"}, msg : Msgs]]
    BY <1>2, <2>1 DEF TypeOK, BroadcastReturns
  <2>3. QED
    BY <1>2, <2>1, <2>2 DEF TypeOK, BroadcastReturns
<1>3. CASE BroadcastPanics(w)
  BY <1>3, BoundsAssumption DEF TypeOK, BroadcastPanics, Fault
<1>4. CASE Ack(w)
  <2>1. faults' \in 0..MaxFaults
    BY <1>4, BoundsAssumption DEF TypeOK, Ack, Answered, Fault
  <2>2. state' \in [Msgs -> States]
    BY <1>4 DEF TypeOK, Ack, Answered, Acked, States
  <2>3. QED
    BY <1>4, <2>1, <2>2 DEF TypeOK, Ack
<1>5. QED
  BY <1>1, <1>2, <1>3, <1>4 DEF Work

\* A restart of the server keeps the types.
LEMMA TypeRestart == TypeOK /\ Restart => TypeOK'
<1> SUFFICES ASSUME TypeOK, Restart PROVE TypeOK'
  OBVIOUS
<1>1. lost' \subseteq Msgs
  BY MessageSequences DEF TypeOK, Restart
<1>2. /\ inbox' \in Seq(Msgs) /\ Len(inbox') <= InboxSize
      /\ queue' \in Seq(Msgs) /\ Len(queue') <= QueueSize
  BY BoundsAssumption DEF Restart
<1>3. faults' \in 0..MaxFaults
  BY BoundsAssumption DEF TypeOK, Restart, Fault
<1>4. QED
  BY <1>1, <1>2, <1>3 DEF TypeOK, Restart

\* Every variable of the ingest keeps its type: the queue never exceeds its
\* capacity, and JetStream's timers stop at their limits.
THEOREM IngestTypes == Spec => []TypeOK
<1>1. TypeOK /\ [Next]_vars => TypeOK'
  <2> SUFFICES ASSUME TypeOK, [Next]_vars PROVE TypeOK'
    OBVIOUS
  <2>1. CASE Tick \/ \E m \in Msgs : \/ Publish(m) \/ Deliver(m)
                                     \/ AckWaitOver(m) \/ Expire(m)
    BY <2>1, TypeJetStream
  <2>2. CASE Callback
    BY <2>2, TypeCallback
  <2>3. CASE \E w \in Workers : Work(w)
    BY <2>3, TypeWork
  <2>4. CASE Restart
    BY <2>4, TypeRestart
  <2>5. CASE Terminated \/ UNCHANGED vars
    BY <2>5 DEF Terminated, TypeOK, vars
  <2>6. QED
    BY <2>1, <2>2, <2>3, <2>4, <2>5 DEF Next
<1>2. QED
  BY <1>1, TypeInit, PTL DEF Spec

-----------------------------------------------------------------------------
(***************************************************************************)
(* What is acknowledged has been broadcast.  The property speaks of        *)
(* JetStream and of the history only; it is inductive together with what a *)
(* worker on its way to the Ack knows.                                     *)
(***************************************************************************)
AckFollowsBroadcast ==
    \A w \in Workers : WorkerIn(w, "ack") => worker[w].msg \in broadcast

IInv == AckFollowsBroadcast /\ AckedWasBroadcast

\* Nothing is acknowledged at the start.
LEMMA IInvInit == Init => IInv
  BY DEF Init, IInv, AckFollowsBroadcast, AckedWasBroadcast

\* A step that leaves the workers and the broadcasts alone, and acknowledges
\* nothing, keeps the invariant.
LEMMA IInvQuiet ==
    ASSUME TypeOK, IInv, UNCHANGED <<worker, broadcast>>,
           \A m \in Msgs : state'[m] = "acked" => state[m] = "acked"
    PROVE  IInv'
  BY DEF IInv, AckFollowsBroadcast, AckedWasBroadcast

\* What JetStream does by itself never acknowledges a message.
LEMMA IInvJetStream ==
    ASSUME TypeOK, IInv,
           Tick \/ \E m \in Msgs : \/ Publish(m) \/ Deliver(m)
                                   \/ AckWaitOver(m) \/ Expire(m)
    PROVE  IInv'
<1>1. UNCHANGED <<worker, broadcast>>
  BY DEF Tick, Publish, Deliver, AckWaitOver, Expire
<1>2. \A m \in Msgs : state'[m] = "acked" => state[m] = "acked"
  BY DEF TypeOK, Tick, Publish, Deliver, AckWaitOver, Expire
<1>3. QED
  BY <1>1, <1>2, IInvQuiet

\* The subscription callback acknowledges nothing.
LEMMA IInvCallback == TypeOK /\ IInv /\ Callback => IInv'
<1> SUFFICES ASSUME TypeOK, IInv, Callback PROVE IInv'
  OBVIOUS
<1>1. UNCHANGED <<worker, broadcast>>
  BY DEF Callback, Reject, SubmitQueued, SubmitDropped
<1>2. \A m \in Msgs : state'[m] = "acked" => state[m] = "acked"
  BY DEF TypeOK, Callback, Reject, SubmitQueued, SubmitDropped, Answered, Naked
<1>3. QED
  BY <1>1, <1>2, IInvQuiet

\* A worker acknowledges only the message it has just broadcast.
LEMMA IInvWork ==
    ASSUME TypeOK, IInv, NEW w \in Workers, Work(w)
    PROVE  IInv'
<1> USE DEF IInv, AckFollowsBroadcast, AckedWasBroadcast
<1>1. CASE TakeTask(w)
  BY <1>1 DEF TypeOK, TakeTask
<1>2. CASE BroadcastReturns(w)
  BY <1>2 DEF TypeOK, BroadcastReturns
<1>3. CASE BroadcastPanics(w)
  BY <1>3 DEF TypeOK, BroadcastPanics
<1>4. CASE Ack(w)
  <2>1. worker[w].msg \in broadcast /\ broadcast' = broadcast
    BY <1>4 DEF Ack
  <2>2. \A m \in Msgs : state'[m] = "acked" =>
                           state[m] = "acked" \/ m = worker[w].msg
    BY <1>4 DEF TypeOK, Ack, Answered, Acked
  <2>3. AckFollowsBroadcast'
    BY <1>4, <2>1 DEF TypeOK, Ack
  <2>4. QED
    BY <2>1, <2>2, <2>3
<1>5. QED
  BY <1>1, <1>2, <1>3, <1>4 DEF Work

\* A restart forgets the tasks, not what JetStream knows.
LEMMA IInvRestart == TypeOK /\ IInv /\ Restart => IInv'
  BY DEF TypeOK, Restart, IInv, AckFollowsBroadcast, AckedWasBroadcast

\* However often a message is delivered, rejected or delivered again, and
\* wherever a task or the process dies, an acknowledged message is one whose
\* broadcast has returned.
THEOREM AckedIsBroadcast == Spec => []AckedWasBroadcast
<1>1. TypeOK /\ IInv /\ [Next]_vars => IInv'
  <2> SUFFICES ASSUME TypeOK, IInv, [Next]_vars PROVE IInv'
    OBVIOUS
  <2>1. CASE Tick \/ \E m \in Msgs : \/ Publish(m) \/ Deliver(m)
                                     \/ AckWaitOver(m) \/ Expire(m)
    BY <2>1, IInvJetStream
  <2>2. CASE Callback
    BY <2>2, IInvCallback
  <2>3. CASE \E w \in Workers : Work(w)
    BY <2>3, IInvWork
  <2>4. CASE Restart
    BY <2>4, IInvRestart
  <2>5. CASE Terminated \/ UNCHANGED vars
    BY <2>5, IInvQuiet DEF Terminated, vars
  <2>6. QED
    BY <2>1, <2>2, <2>3, <2>4, <2>5 DEF Next
<1>2. IInv => AckedWasBroadcast
  BY DEF IInv
<1>3. QED
  BY <1>1, <1>2, IInvInit, IngestTypes, PTL DEF Spec
=============================================================================
