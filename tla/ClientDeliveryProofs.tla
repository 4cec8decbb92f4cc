------------------------ MODULE ClientDeliveryProofs ------------------------
(***************************************************************************)
(* Proofs about ClientDelivery, for any number of workers, any capacities, *)
(* any number of broadcasts and any number of connections the object       *)
(* serves in turn.                                                         *)
(***************************************************************************)
EXTENDS ClientDelivery, FiniteSetTheorems, SequenceTheorems, WellFoundedInduction,
        TLAPS

USE DEF lifeVars, pumpVars, deliverVars, strikeVars, historyVars

-----------------------------------------------------------------------------
(***************************************************************************)
(* The queues.                                                             *)
(***************************************************************************)

\* What a send does to the channel, what Add does to the buffer.
LEMMA AppendPlaces ==
    ASSUME NEW S, NEW q \in Seq(S), NEW e \in S
    PROVE  /\ Append(q, e) \in Seq(S)
           /\ Len(q) \in Nat /\ DOMAIN q = 1..Len(q)
           /\ DOMAIN Append(q, e) = 1..(Len(q) + 1)
           /\ Len(Append(q, e)) = Len(q) + 1
           /\ \A i \in 1..Len(q) : Append(q, e)[i] = q[i]
           /\ Append(q, e)[Len(q) + 1] = e
<1>1. Len(q) \in Nat /\ DOMAIN q = 1..Len(q)
  BY LenProperties
<1>2. QED
  BY <1>1, AppendProperties

\* What a receive does to the channel.
LEMMA TailPlaces ==
    ASSUME NEW S, NEW q \in Seq(S), q # <<>>
    PROVE  /\ Tail(q) \in Seq(S) /\ Head(q) \in S /\ Head(q) = q[1]
           /\ Len(q) \in Nat \ {0} /\ DOMAIN q = 1..Len(q)
           /\ DOMAIN Tail(q) = 1..(Len(q) - 1)
           /\ Len(Tail(q)) = Len(q) - 1
           /\ \A i \in 1..(Len(q) - 1) : Tail(q)[i] = q[i + 1] /\ i + 1 \in 1..Len(q)
<1>1. Len(q) \in Nat /\ DOMAIN q = 1..Len(q) /\ Len(q) # 0
  BY LenProperties, EmptySeq
<1>2. /\ Tail(q) \in Seq(S) /\ Head(q) \in S /\ Head(q) = q[1]
      /\ Len(Tail(q)) = Len(q) - 1
      /\ \A i \in 1..(Len(q) - 1) : Tail(q)[i] = q[i + 1]
  BY <1>1, HeadTailProperties
<1>3. DOMAIN Tail(q) = 1..(Len(q) - 1)
  BY <1>2, LenProperties
<1>4. QED
  BY <1>1, <1>2, <1>3

\* ReplayBuffer.Add keeps the buffer within its size and keeps the new entry.
LEMMA ReplayAddPlaces ==
    ASSUME NEW q \in Seq(Envelopes), Len(q) <= ReplaySize, NEW e \in Envelopes
    PROVE  /\ ReplayAdd(q, e) \in Seq(Envelopes)
           /\ Len(ReplayAdd(q, e)) <= ReplaySize
           /\ e \in ToSet(ReplayAdd(q, e))
           /\ \/ /\ Len(q) = ReplaySize /\ Len(ReplayAdd(q, e)) = ReplaySize
                 /\ ReplayAdd(q, e) = Append(Tail(q), e) /\ q # <<>>
              \/ /\ Len(q) < ReplaySize /\ ToSet(q) \subseteq ToSet(ReplayAdd(q, e))
                 /\ ReplayAdd(q, e) = Append(q, e)
<1>1. Len(q) \in Nat /\ DOMAIN q = 1..Len(q) /\ (q = <<>> => Len(q) = 0)
  BY LenProperties, EmptySeq
<1>2. CASE Len(q) >= ReplaySize
  <2>0. ReplaySize \in Nat \ {0} /\ Len(q) \in Nat
    BY <1>1, BoundsAssumption
  <2>1. Len(q) = ReplaySize /\ Len(q) # 0
    BY <1>2, <2>0
  <2>2. Len(q) = ReplaySize /\ q # <<>> /\ ReplayAdd(q, e) = Append(Tail(q), e)
    BY <1>1, <1>2, <2>1 DEF ReplayAdd
  <2>3. Tail(q) \in Seq(Envelopes) /\ Len(Tail(q)) = ReplaySize - 1
    BY <2>2, TailPlaces
  <2>4. /\ ReplayAdd(q, e) \in Seq(Envelopes)
        /\ Len(ReplayAdd(q, e)) = ReplaySize
        /\ DOMAIN ReplayAdd(q, e) = 1..ReplaySize
        /\ ReplayAdd(q, e)[ReplaySize] = e
    BY <2>0, <2>2, <2>3, AppendPlaces
  <2>5. ReplaySize \in 1..ReplaySize /\ ReplaySize <= ReplaySize
    BY <2>0
  <2>6. e \in ToSet(ReplayAdd(q, e))
    BY <2>4, <2>5 DEF ToSet
  <2>7. Len(ReplayAdd(q, e)) <= ReplaySize
    BY <2>4, <2>5
  <2>8. QED
    BY <2>2, <2>4, <2>6, <2>7
<1>3. CASE Len(q) < ReplaySize
  <2>1. ReplayAdd(q, e) = Append(q, e)
    BY <1>1, <1>3, BoundsAssumption DEF ReplayAdd
  <2>2. /\ ReplayAdd(q, e) \in Seq(Envelopes)
        /\ Len(ReplayAdd(q, e)) = Len(q) + 1
        /\ DOMAIN ReplayAdd(q, e) = 1..(Len(q) + 1)
        /\ \A i \in 1..Len(q) : ReplayAdd(q, e)[i] = q[i]
        /\ ReplayAdd(q, e)[Len(q) + 1] = e
    BY <2>1, AppendPlaces
  <2>3. \A i \in 1..Len(q) : i \in 1..(Len(q) + 1)
    BY <1>1
  <2>4. Len(q) + 1 \in 1..(Len(q) + 1) /\ Len(q) + 1 <= ReplaySize
    BY <1>1, <1>3, BoundsAssumption
  <2>5. e \in ToSet(ReplayAdd(q, e)) /\ ToSet(q) \subseteq ToSet(ReplayAdd(q, e))
    BY <1>1, <2>2, <2>3, <2>4 DEF ToSet
  <2>6. QED
    BY <1>3, <2>1, <2>2, <2>4, <2>5
<1>4. Len(q) >= ReplaySize \/ Len(q) < ReplaySize
  BY <1>1, BoundsAssumption
<1>5. QED
  BY <1>2, <1>3, <1>4

-----------------------------------------------------------------------------
(***************************************************************************)
(* The workers.                                                            *)
(***************************************************************************)

\* The workers at one of some points of broadcast.
At(points) == {w \in Workers : worker[w].pc \in points}

\* Those that have yet to draw a number, and those that have yet to send.
Unnumbered == At({"wrap"})
Unsent == At({"wrap", "buffer", "send"})

\* How the number of workers at some points changes when one of them moves.
LEMMA AtMoves ==
    ASSUME NEW points, NEW w \in Workers,
           \A v \in Workers \ {w} : worker'[v] = worker[v]
    PROVE  /\ Cardinality(At(points)) \in Nat /\ Cardinality(At(points)') \in Nat
           /\ (worker[w].pc \in points /\ worker'[w].pc \notin points)
                => Cardinality(At(points)') = Cardinality(At(points)) - 1
           /\ (worker[w].pc \notin points /\ worker'[w].pc \in points)
                => Cardinality(At(points)') = Cardinality(At(points)) + 1
           /\ (worker[w].pc \in points <=> worker'[w].pc \in points)
                => At(points)' = At(points)
<1>1. IsFiniteSet(At(points)) /\ IsFiniteSet(At(points)')
  BY BoundsAssumption, FS_Subset DEF At
<1>2. Cardinality(At(points)) \in Nat /\ Cardinality(At(points)') \in Nat
  BY <1>1, FS_CardinalityType
<1>3. (worker[w].pc \in points /\ worker'[w].pc \notin points)
        => w \in At(points) /\ At(points)' = At(points) \ {w}
  BY DEF At
<1>4. (worker[w].pc \notin points /\ worker'[w].pc \in points)
        => w \notin At(points) /\ At(points)' = At(points) \cup {w}
  BY DEF At
<1>5. (worker[w].pc \in points <=> worker'[w].pc \in points)
        => At(points)' = At(points)
  BY DEF At
<1>6. QED
  BY <1>1, <1>2, <1>3, <1>4, <1>5, FS_RemoveElement, FS_AddElement

WorkerPoints == {"idle", "wrap", "buffer", "send", "reset", "strike"}
WorkerStates == [pc : WorkerPoints, env : Cell]

\* A step of a worker takes it from one point to another and leaves the
\* others where they are.
LEMMA WorkerMoves ==
    ASSUME worker \in [Workers -> WorkerStates],
           NEW w \in Workers, NEW from, NEW to \in WorkerPoints, NEW env \in Cell,
           WorkerGoto(w, from, to, env)
    PROVE  /\ worker' \in [Workers -> WorkerStates]
           /\ worker[w].pc = from /\ worker'[w].pc = to /\ worker'[w].env = env
           /\ \A v \in Workers \ {w} : worker'[v] = worker[v]
<1>1. worker' = [worker EXCEPT ![w] = [pc |-> to, env |-> env]]
  BY DEF WorkerGoto
<1>2. [pc |-> to, env |-> env] \in WorkerStates
  BY DEF WorkerStates
<1>3. QED
  BY <1>1, <1>2 DEF WorkerGoto

-----------------------------------------------------------------------------
(***************************************************************************)
(* Types.  TypeOK is not inductive.  What is missing: an object that is    *)
(* used has a life; a worker that has yet to send holds an envelope; and   *)
(* the counters are bounded only because every number and every strike     *)
(* uses up one of the broadcasts that were looked up.                      *)
(***************************************************************************)
FlagsOK ==
    /\ life \in 0..MaxLives
    /\ connected \in BOOLEAN /\ sock \in BOOLEAN
    /\ once \in BOOLEAN /\ indexed \in BOOLEAN
    /\ reader \in {"none", "read", "replay", "notice", "put"}
    /\ (connected \/ indexed \/ reader # "none") => life \in Lives

PumpsOK ==
    /\ \E left \in SUBSET (1..ReplaySize) : replaying \in [left -> Envelopes]
    /\ writer \in [Lives -> [pc : {"none", "select", "write", "exit", "done"},
                             msg : Cell]]

QueuesOK ==
    /\ replay \in Seq(Envelopes) /\ Len(replay) <= ReplaySize
    /\ send \in Seq(Cell) /\ Len(send) <= SendCap

WorkersOK ==
    /\ worker \in [Workers -> WorkerStates]
    /\ \A w \in Unsent : worker[w].env \in Envelopes

CountsOK ==
    /\ published \in 0..MaxMsgs
    /\ counter \in Nat /\ counter + Cardinality(Unnumbered) <= published
    /\ strikes \in Nat /\ strikes + Cardinality(Unsent) <= published
    /\ between \in Nat

HistoryOK == got \subseteq Numbers /\ last \in 0..MaxMsgs

TypeInv == FlagsOK /\ PumpsOK /\ QueuesOK /\ WorkersOK /\ CountsOK /\ HistoryOK

LEMMA TypeInvImplies == TypeInv => TypeOK
<1>1. ASSUME TypeInv PROVE TypeOK
  <2>1. Cardinality(Unnumbered) \in Nat /\ Cardinality(Unsent) \in Nat
    BY BoundsAssumption, FS_Subset, FS_CardinalityType DEF Unnumbered, Unsent, At
  <2>2. counter \in 0..MaxMsgs /\ strikes \in 0..MaxMsgs /\ between \in Nat
    BY <1>1, <2>1, BoundsAssumption DEF TypeInv, CountsOK
  <2>3. QED
    BY <1>1, <2>2 DEF TypeInv, TypeOK, FlagsOK, PumpsOK, QueuesOK, WorkersOK, CountsOK,
       HistoryOK, WorkerStates, WorkerPoints
<1>2. QED
  BY <1>1

LEMMA TypeInvInit == Init => TypeInv
<1>1. ASSUME Init PROVE TypeInv
  <2>1. FlagsOK
    <3>1. 0 \in 0..MaxLives
      BY BoundsAssumption
    <3>2. QED
      BY <1>1, <3>1 DEF Init, FlagsOK
  <2>2. PumpsOK
    <3>1. {} \in SUBSET (1..ReplaySize) /\ replaying \in [{} -> Envelopes]
      BY <1>1, EmptySeq DEF Init
    <3>2. QED
      BY <1>1, <3>1 DEF Init, PumpsOK, Cell
  <2>3. QueuesOK
    BY <1>1, EmptySeq, BoundsAssumption DEF Init, QueuesOK
  <2>4. WorkersOK
    BY <1>1 DEF Init, WorkersOK, WorkerStates, WorkerPoints, Unsent, At, Cell
  <2>5. CountsOK
    <3>1. Unnumbered = {} /\ Unsent = {}
      BY <1>1 DEF Init, Unnumbered, Unsent, At
    <3>2. QED
      BY <1>1, <3>1, FS_EmptySet, BoundsAssumption DEF Init, CountsOK
  <2>6. HistoryOK
    BY <1>1, BoundsAssumption DEF Init, HistoryOK
  <2>7. QED
    BY <2>1, <2>2, <2>3, <2>4, <2>5, <2>6 DEF TypeInv
<1>2. QED
  BY <1>1

\* The life of the object and the read pump.
LEMMA FlagsKept == FlagsOK /\ [Next]_vars => FlagsOK'
<1> SUFFICES ASSUME FlagsOK, [Next]_vars PROVE FlagsOK'
  OBVIOUS
<1>1. CASE Connect
  BY <1>1, BoundsAssumption DEF FlagsOK, Connect, Lives
<1>2. CASE Subscribe \/ SockDrops
  BY <1>2 DEF FlagsOK, Subscribe, SockDrops
<1>3. CASE ReaderUnindexes \/ ReaderPuts
  BY <1>3 DEF FlagsOK, ReaderUnindexes, ReaderPuts
<1>4. CASE ReadReplay \/ ReplaySend \/ ReplayTimesOut \/ ReadControl
  BY <1>4 DEF FlagsOK, ReadReplay, ReplaySend, ReplayTimesOut, ReadControl
<1>5. ASSUME NEW w \in Workers, Worker(w) PROVE FlagsOK'
  <2>1. CASE Disconnect(w)
    BY <2>1 DEF FlagsOK, Disconnect
  <2>2. CASE ~Disconnect(w)
    BY <1>5, <2>2 DEF FlagsOK, Worker, Lookup, Wrap, WrapMalformed, Buffer, SendQueued,
       ResetStrikes, SendRefused
  <2>3. QED
    BY <2>1, <2>2
<1>6. ASSUME NEW l \in Lives, Writer(l) PROVE FlagsOK'
  <2>1. CASE WriterExits(l)
    BY <2>1 DEF FlagsOK, WriterExits
  <2>2. CASE ~WriterExits(l)
    BY <1>6, <2>2 DEF FlagsOK, Writer, WriterTakes, WriterWrites, WriterFails
  <2>3. QED
    BY <2>1, <2>2
<1>7. CASE Terminated \/ UNCHANGED vars
  BY <1>7 DEF FlagsOK, Terminated, vars
<1>8. QED
  BY <1>1, <1>2, <1>3, <1>4, <1>5, <1>6, <1>7 DEF Next, Reader

\* What a replay finds are entries of the buffer, by their positions.
LEMMA ReplayForPlaces ==
    ASSUME replay \in Seq(Envelopes), Len(replay) <= ReplaySize,
           NEW since, NEW from, NEW to
    PROVE  \E left \in SUBSET (1..ReplaySize) :
               ReplayFor(since, from, to) \in [left -> Envelopes]
<1>1. /\ Len(replay) \in Nat /\ DOMAIN replay = 1..Len(replay)
      /\ \A i \in 1..Len(replay) : replay[i] \in Envelopes /\ i \in 1..ReplaySize
  BY LenProperties, BoundsAssumption
<1>2. \A P \in SUBSET (1..Len(replay)) : Restrict(replay, P) \in [P -> Envelopes]
  BY <1>1 DEF Restrict
<1>3. \A P \in SUBSET (1..Len(replay)) : P \in SUBSET (1..ReplaySize)
  BY <1>1
<1>4. GetRange(replay, from, to) = Restrict(replay, {i \in UpTo(replay, to) : replay[i].seq >= from})
  BY DEF GetRange
<1>5. {i \in UpTo(replay, to) : replay[i].seq >= from} \in SUBSET (1..Len(replay))
  BY <1>1 DEF UpTo
<1>6. GetSince(replay, since) = Restrict(replay, {i \in 1..Len(replay) : replay[i].seq > since})
  BY <1>1 DEF GetSince
<1>7. {i \in 1..Len(replay) : replay[i].seq > since} \in SUBSET (1..Len(replay))
  OBVIOUS
<1>8. CASE since > 0
  BY <1>2, <1>3, <1>6, <1>7, <1>8 DEF ReplayFor
<1>9. CASE ~(since > 0)
  BY <1>2, <1>3, <1>4, <1>5, <1>9 DEF ReplayFor
<1>10. QED
  BY <1>8, <1>9

\* The copy of the replay handler and the write pumps.
LEMMA PumpsKept == TypeInv /\ [Next]_vars => PumpsOK'
<1> SUFFICES ASSUME TypeInv, [Next]_vars PROVE PumpsOK'
  OBVIOUS
<1> USE DEF TypeInv
<1>1. CASE Connect
  BY <1>1, BoundsAssumption DEF FlagsOK, PumpsOK, Connect, Lives
<1>2. CASE ReadReplay
  BY <1>2, ReplayForPlaces DEF PumpsOK, QueuesOK, ReadReplay
<1>3. CASE ReplaySend
  <2>1. PICK next \in DOMAIN replaying :
          replaying' = Restrict(replaying, DOMAIN replaying \ {next})
    BY <1>3 DEF ReplaySend
  <2>2. PICK left \in SUBSET (1..ReplaySize) : replaying \in [left -> Envelopes]
    BY DEF PumpsOK
  <2>3. left \ {next} \in SUBSET (1..ReplaySize)
        /\ replaying' \in [left \ {next} -> Envelopes]
    BY <2>1, <2>2 DEF Restrict
  <2>4. QED
    BY <1>3, <2>3 DEF PumpsOK, ReplaySend
<1>4. CASE ReplayTimesOut
  <2>1. {} \in SUBSET (1..ReplaySize) /\ <<>> \in [{} -> Envelopes]
    BY EmptySeq
  <2>2. QED
    BY <1>4, <2>1 DEF PumpsOK, ReplayTimesOut
<1>5. CASE \/ Subscribe \/ SockDrops \/ ReaderUnindexes \/ ReaderPuts \/ ReadControl
           \/ Terminated \/ UNCHANGED vars
  BY <1>5 DEF PumpsOK, Subscribe, SockDrops, ReaderUnindexes, ReaderPuts, ReadControl,
     Terminated, vars
<1>6. ASSUME NEW w \in Workers, Worker(w) PROVE PumpsOK'
  BY <1>6 DEF PumpsOK, Worker, Lookup, Wrap, WrapMalformed, Buffer, SendQueued,
     ResetStrikes, SendRefused, Disconnect
<1>7. ASSUME NEW l \in Lives, Writer(l) PROVE PumpsOK'
  <2>1. CASE WriterTakes(l)
    <3>1. Head(send) \in Cell
      BY <2>1, TailPlaces DEF QueuesOK, WriterTakes
    <3>2. QED
      BY <2>1, <3>1 DEF PumpsOK, WriterTakes, WriterGoto, Cell
  <2>2. CASE WriterWrites(l) \/ WriterFails(l) \/ WriterExits(l)
    BY <2>2 DEF PumpsOK, WriterWrites, WriterFails, WriterExits, WriterGoto, Cell
  <2>3. QED
    BY <1>7, <2>1, <2>2 DEF Writer
<1>8. QED
  BY <1>1, <1>2, <1>3, <1>4, <1>5, <1>6, <1>7 DEF Next, Reader

\* The send channel and the replay buffer.
LEMMA QueuesKept == TypeInv /\ [Next]_vars => QueuesOK'
<1> SUFFICES ASSUME TypeInv, [Next]_vars PROVE QueuesOK'
  OBVIOUS
<1> USE DEF TypeInv
<1>1. replay \in Seq(Envelopes) /\ Len(replay) <= ReplaySize
      /\ send \in Seq(Cell) /\ Len(send) <= SendCap
  BY DEF QueuesOK
<1>2. SendCap \in Nat \ {0} /\ ReplaySize \in Nat \ {0}
  BY BoundsAssumption
<1>3. Len(send) \in Nat /\ Len(<<>>) = 0 /\ <<>> \in Seq(Envelopes)
  BY <1>1, LenProperties, EmptySeq
<1>4. ASSUME send # <<>> PROVE Tail(send) \in Seq(Cell) /\ Len(Tail(send)) <= SendCap
  BY <1>1, <1>2, <1>4, TailPlaces
<1>5. ASSUME Len(send) < SendCap
      PROVE  \A e \in Cell : Append(send, e) \in Seq(Cell) /\ Len(Append(send, e)) <= SendCap
  BY <1>1, <1>2, <1>3, <1>5, AppendPlaces
<1>6. CASE Connect
  BY <1>1, <1>2, <1>3, <1>4, <1>6 DEF QueuesOK, Connect
<1>7. CASE ReaderPuts
  BY <1>1, <1>2, <1>3, <1>7 DEF QueuesOK, ReaderPuts
<1>8. CASE ReplaySend
  <2>1. PICK next \in DOMAIN replaying :
          send' = Append(send, [replaying[next] EXCEPT !.again = TRUE])
    BY <1>8 DEF ReplaySend
  <2>2. replaying[next] \in Envelopes
    BY <2>1 DEF PumpsOK
  <2>3. [replaying[next] EXCEPT !.again = TRUE] \in Cell
    BY <2>2 DEF Envelopes, Cell
  <2>4. QED
    BY <1>1, <1>5, <1>8, <2>1, <2>3 DEF QueuesOK, ReplaySend
<1>9. CASE ReadControl
  <2>1. Control \in Cell
    BY DEF Cell
  <2>2. QED
    BY <1>1, <1>5, <1>9, <2>1 DEF QueuesOK, ReadControl
<1>10. CASE \/ Subscribe \/ SockDrops \/ ReaderUnindexes \/ ReadReplay \/ ReplayTimesOut
            \/ Terminated \/ UNCHANGED vars
  BY <1>10 DEF QueuesOK, Subscribe, SockDrops, ReaderUnindexes, ReadReplay, ReplayTimesOut,
     Terminated, vars
<1>11. ASSUME NEW w \in Workers, Worker(w) PROVE QueuesOK'
  <2>1. worker[w].pc \in {"buffer", "send"} => worker[w].env \in Envelopes
    BY DEF WorkersOK, Unsent, At
  <2>2. CASE Buffer(w)
    <3>1. worker[w].env \in Envelopes
      BY <2>1, <2>2 DEF Buffer, WorkerGoto
    <3>2. ReplayAdd(replay, worker[w].env) \in Seq(Envelopes)
          /\ Len(ReplayAdd(replay, worker[w].env)) <= ReplaySize
      BY <1>1, <3>1, ReplayAddPlaces
    <3>3. QED
      BY <1>1, <2>2, <3>2 DEF QueuesOK, Buffer
  <2>3. CASE SendQueued(w)
    <3>1. worker[w].env \in Cell
      BY <2>1, <2>3 DEF SendQueued, WorkerGoto, Cell
    <3>2. QED
      BY <1>1, <1>5, <2>3, <3>1 DEF QueuesOK, SendQueued
  <2>4. CASE ~Buffer(w) /\ ~SendQueued(w)
    BY <1>11, <2>4 DEF QueuesOK, Worker, Lookup, Wrap, WrapMalformed, ResetStrikes,
       SendRefused, Disconnect
  <2>5. QED
    BY <2>2, <2>3, <2>4
<1>12. ASSUME NEW l \in Lives, Writer(l) PROVE QueuesOK'
  BY <1>1, <1>4, <1>12 DEF QueuesOK, Writer, WriterTakes, WriterWrites, WriterFails,
     WriterExits
<1>13. QED
  BY <1>6, <1>7, <1>8, <1>9, <1>10, <1>11, <1>12 DEF Next, Reader

\* How every step of a worker moves it: from which point, to which, with what
\* in its hand, and what it counts.
LEMMA WorkerSteps ==
    ASSUME TypeInv, NEW w \in Workers, Worker(w)
    PROVE  /\ worker' \in [Workers -> WorkerStates]
           /\ \A v \in Workers \ {w} : worker'[v] = worker[v]
           /\ \/ /\ Lookup(w) /\ worker[w].pc = "idle" /\ worker'[w].pc = "wrap"
                 /\ worker'[w].env = [life |-> life, seq |-> 1, again |-> FALSE]
                 /\ worker'[w].env \in Envelopes
              \/ /\ Wrap(w) /\ worker[w].pc = "wrap" /\ worker'[w].pc = "buffer"
                 /\ worker'[w].env = [worker[w].env EXCEPT !.seq = counter + 1]
                 /\ worker'[w].env \in Envelopes
              \/ /\ WrapMalformed(w) /\ worker[w].pc = "wrap" /\ worker'[w].pc = "idle"
              \/ /\ Buffer(w) /\ worker[w].pc = "buffer" /\ worker'[w].pc = "send"
                 /\ worker'[w].env = worker[w].env /\ worker'[w].env \in Envelopes
              \/ /\ SendQueued(w) /\ worker[w].pc = "send" /\ worker'[w].pc = "reset"
              \/ /\ ResetStrikes(w) /\ worker[w].pc = "reset" /\ worker'[w].pc = "idle"
              \/ /\ SendRefused(w) /\ worker[w].pc = "send"
                 /\ worker'[w].pc = IF strikes + 1 >= MaxStrikes THEN "strike" ELSE "idle"
              \/ /\ Disconnect(w) /\ worker[w].pc = "strike" /\ worker'[w].pc = "idle"
<1> USE DEF TypeInv
<1>1. worker \in [Workers -> WorkerStates] /\ Control \in Cell /\ Envelopes \subseteq Cell
  BY DEF WorkersOK, Cell
<1>2. worker[w].pc \in {"wrap", "buffer", "send"} => worker[w].env \in Envelopes
  BY DEF WorkersOK, Unsent, At
<1>3. CASE Lookup(w)
  <2> DEFINE env == [life |-> life, seq |-> 1, again |-> FALSE]
  <2>1. published \in 0..MaxMsgs /\ published < MaxMsgs /\ life \in Lives /\ MaxMsgs \in Nat
    BY <1>3, BoundsAssumption DEF FlagsOK, CountsOK, Lookup
  <2>2. 1 \in Numbers
    BY <2>1 DEF Numbers
  <2>3. env \in Envelopes
    BY <2>1, <2>2 DEF Envelopes
  <2>4. WorkerGoto(w, "idle", "wrap", env)
    BY <1>3 DEF Lookup
  <2>5. /\ worker' \in [Workers -> WorkerStates]
        /\ worker[w].pc = "idle" /\ worker'[w].pc = "wrap" /\ worker'[w].env = env
        /\ \A v \in Workers \ {w} : worker'[v] = worker[v]
    <3> HIDE DEF env
    <3> QED
      BY <1>1, <2>3, <2>4, WorkerMoves DEF WorkerPoints
  <2>6. QED
    BY <1>3, <2>3, <2>5
<1>4. CASE Wrap(w)
  <2> DEFINE env == [worker[w].env EXCEPT !.seq = counter + 1]
  <2>1. w \in Unnumbered /\ worker[w].env \in Envelopes
    BY <1>2, <1>4 DEF Wrap, WorkerGoto, Unnumbered, At
  <2>2. Cardinality(Unnumbered) \in Nat /\ Cardinality(Unnumbered) # 0
    BY <2>1, BoundsAssumption, FS_Subset, FS_CardinalityType, FS_EmptySet DEF Unnumbered, At
  <2>3. counter + 1 \in Numbers
    BY <2>2, BoundsAssumption DEF CountsOK, Numbers
  <2>4. env \in Envelopes
    BY <2>1, <2>3 DEF Envelopes
  <2>5. WorkerGoto(w, "wrap", "buffer", env)
    BY <1>4 DEF Wrap
  <2>6. /\ worker' \in [Workers -> WorkerStates]
        /\ worker[w].pc = "wrap" /\ worker'[w].pc = "buffer" /\ worker'[w].env = env
        /\ \A v \in Workers \ {w} : worker'[v] = worker[v]
    <3> HIDE DEF env
    <3> QED
      BY <1>1, <2>4, <2>5, WorkerMoves DEF WorkerPoints
  <2>7. QED
    BY <1>4, <2>4, <2>6
<1>5. CASE WrapMalformed(w)
  <2>1. WorkerGoto(w, "wrap", "idle", Control)
    BY <1>5 DEF WrapMalformed
  <2>2. QED
    BY <1>1, <1>5, <2>1, WorkerMoves DEF WorkerPoints
<1>6. CASE Buffer(w)
  <2> DEFINE env == worker[w].env
  <2>1. WorkerGoto(w, "buffer", "send", env) /\ env \in Envelopes
    BY <1>2, <1>6 DEF Buffer, WorkerGoto
  <2>2. /\ worker' \in [Workers -> WorkerStates]
        /\ worker[w].pc = "buffer" /\ worker'[w].pc = "send" /\ worker'[w].env = env
        /\ \A v \in Workers \ {w} : worker'[v] = worker[v]
    <3> HIDE DEF env
    <3> QED
      BY <1>1, <2>1, WorkerMoves DEF WorkerPoints
  <2>3. QED
    BY <1>6, <2>1, <2>2
<1>7. CASE SendQueued(w)
  <2>1. WorkerGoto(w, "send", "reset", Control)
    BY <1>7 DEF SendQueued
  <2>2. QED
    BY <1>1, <1>7, <2>1, WorkerMoves DEF WorkerPoints
<1>8. CASE ResetStrikes(w)
  <2>1. WorkerGoto(w, "reset", "idle", Control)
    BY <1>8 DEF ResetStrikes
  <2>2. QED
    BY <1>1, <1>8, <2>1, WorkerMoves DEF WorkerPoints
<1>9. CASE SendRefused(w)
  <2> DEFINE next == IF strikes + 1 >= MaxStrikes THEN "strike" ELSE "idle"
  <2>1. WorkerGoto(w, "send", next, Control)
    BY <1>9 DEF SendRefused
  <2>2. next \in WorkerPoints
    BY DEF WorkerPoints
  <2>3. /\ worker' \in [Workers -> WorkerStates]
        /\ worker[w].pc = "send" /\ worker'[w].pc = next
        /\ \A v \in Workers \ {w} : worker'[v] = worker[v]
    <3> HIDE DEF next
    <3> QED
      BY <1>1, <2>1, <2>2, WorkerMoves
  <2>4. QED
    BY <1>9, <2>3
<1>10. CASE Disconnect(w)
  <2>1. WorkerGoto(w, "strike", "idle", Control)
    BY <1>10 DEF Disconnect
  <2>2. QED
    BY <1>1, <1>10, <2>1, WorkerMoves DEF WorkerPoints
<1>11. QED
  BY <1>3, <1>4, <1>5, <1>6, <1>7, <1>8, <1>9, <1>10 DEF Worker

\* The steps that are not a worker's leave the workers alone.
LEMMA OthersLeaveWorkers ==
    ASSUME [Next]_vars
    PROVE  \/ \E w \in Workers : Worker(w)
           \/ Connect /\ UNCHANGED <<worker, published>>
           \/ UNCHANGED <<worker, published, counter, strikes, between>>
<1>1. CASE Connect \/ Subscribe \/ SockDrops \/ Terminated \/ UNCHANGED vars
  BY <1>1 DEF Connect, Subscribe, SockDrops, Terminated, vars
<1>2. CASE Reader
  BY <1>2 DEF Reader, ReaderUnindexes, ReaderPuts, ReadReplay, ReplaySend, ReplayTimesOut,
     ReadControl
<1>3. CASE \E l \in Lives : Writer(l)
  BY <1>3 DEF Writer, WriterTakes, WriterWrites, WriterFails, WriterExits
<1>4. QED
  BY <1>1, <1>2, <1>3 DEF Next

\* Where the workers are and what they hold.
LEMMA WorkersKept == TypeInv /\ [Next]_vars => WorkersOK'
<1> SUFFICES ASSUME TypeInv, [Next]_vars PROVE WorkersOK'
  OBVIOUS
<1>1. ASSUME NEW w \in Workers, Worker(w) PROVE WorkersOK'
  <2>1. worker' \in [Workers -> WorkerStates] /\ \A v \in Workers \ {w} : worker'[v] = worker[v]
    BY <1>1, WorkerSteps
  <2>2. worker'[w].pc \in {"wrap", "buffer", "send"} => worker'[w].env \in Envelopes
    BY <1>1, WorkerSteps
  <2>3. \A v \in Workers : worker[v].pc \in {"wrap", "buffer", "send"}
          => worker[v].env \in Envelopes
    BY DEF TypeInv, WorkersOK, Unsent, At
  <2>4. QED
    BY <2>1, <2>2, <2>3 DEF WorkersOK, Unsent, At
<1>2. CASE worker' = worker
  BY <1>2 DEF TypeInv, WorkersOK, Unsent, At
<1>3. QED
  BY <1>1, <1>2, OthersLeaveWorkers

\* Every number and every strike uses up a broadcast.
LEMMA CountsKept == TypeInv /\ [Next]_vars => CountsOK'
<1> SUFFICES ASSUME TypeInv, [Next]_vars PROVE CountsOK'
  OBVIOUS
<1>1. /\ published \in 0..MaxMsgs /\ counter \in Nat /\ strikes \in Nat /\ between \in Nat
      /\ MaxMsgs \in Nat
      /\ counter + Cardinality(Unnumbered) <= published
      /\ strikes + Cardinality(Unsent) <= published
  BY BoundsAssumption DEF TypeInv, CountsOK
<1>2. Cardinality(Unnumbered) \in Nat /\ Cardinality(Unsent) \in Nat
  BY BoundsAssumption, FS_Subset, FS_CardinalityType DEF Unnumbered, Unsent, At
<1>3. ASSUME NEW w \in Workers, Worker(w) PROVE CountsOK'
  <2>1. \A v \in Workers \ {w} : worker'[v] = worker[v]
    BY <1>3, WorkerSteps
  <2> DEFINE before == worker[w].pc
             after  == worker'[w].pc
  <2>2. /\ Cardinality(Unnumbered)' \in Nat
        /\ (before = "wrap" /\ after # "wrap")
             => Cardinality(Unnumbered)' = Cardinality(Unnumbered) - 1
        /\ (before # "wrap" /\ after = "wrap")
             => Cardinality(Unnumbered)' = Cardinality(Unnumbered) + 1
        /\ (before = "wrap" <=> after = "wrap")
             => Cardinality(Unnumbered)' = Cardinality(Unnumbered)
    BY <2>1, AtMoves DEF Unnumbered
  <2>3. /\ Cardinality(Unsent)' \in Nat
        /\ (before \in {"wrap", "buffer", "send"} /\ after \notin {"wrap", "buffer", "send"})
             => Cardinality(Unsent)' = Cardinality(Unsent) - 1
        /\ (before \notin {"wrap", "buffer", "send"} /\ after \in {"wrap", "buffer", "send"})
             => Cardinality(Unsent)' = Cardinality(Unsent) + 1
        /\ (before \in {"wrap", "buffer", "send"} <=> after \in {"wrap", "buffer", "send"})
             => Cardinality(Unsent)' = Cardinality(Unsent)
    BY <2>1, AtMoves DEF Unsent
  <2>4. CASE Lookup(w)
    <3>1. before = "idle" /\ after = "wrap"
      BY <1>3, <2>4, WorkerSteps DEF Lookup, WorkerGoto
    <3>2. published' = published + 1 /\ published < MaxMsgs
          /\ UNCHANGED <<counter, strikes, between>>
      BY <2>4 DEF Lookup
    <3>3. /\ Cardinality(Unnumbered)' = Cardinality(Unnumbered) + 1
          /\ Cardinality(Unsent)' = Cardinality(Unsent) + 1
      BY <2>2, <2>3, <3>1
    <3>4. QED
      BY <1>1, <1>2, <3>2, <3>3 DEF CountsOK
  <2>5. CASE Wrap(w)
    <3>1. before = "wrap" /\ after = "buffer"
      BY <1>3, <2>5, WorkerSteps DEF Wrap, WorkerGoto
    <3>2. counter' = counter + 1 /\ UNCHANGED <<published, strikes, between>>
      BY <2>5 DEF Wrap
    <3>3. /\ Cardinality(Unnumbered)' = Cardinality(Unnumbered) - 1
          /\ Cardinality(Unsent)' = Cardinality(Unsent)
      BY <2>2, <2>3, <3>1
    <3>4. QED
      BY <1>1, <1>2, <3>2, <3>3 DEF CountsOK
  <2>6. CASE WrapMalformed(w)
    <3>1. before = "wrap" /\ after = "idle"
      BY <1>3, <2>6, WorkerSteps DEF WrapMalformed, WorkerGoto
    <3>2. counter' = counter + 1 /\ UNCHANGED <<published, strikes, between>>
      BY <2>6 DEF WrapMalformed
    <3>3. /\ Cardinality(Unnumbered)' = Cardinality(Unnumbered) - 1
          /\ Cardinality(Unsent)' = Cardinality(Unsent) - 1
      BY <2>2, <2>3, <3>1
    <3>4. QED
      BY <1>1, <1>2, <3>2, <3>3 DEF CountsOK
  <2>7. CASE Buffer(w)
    <3>1. before = "buffer" /\ after = "send"
      BY <1>3, <2>7, WorkerSteps DEF Buffer, WorkerGoto
    <3>2. UNCHANGED <<published, counter, strikes, between>>
      BY <2>7 DEF Buffer
    <3>3. /\ Cardinality(Unnumbered)' = Cardinality(Unnumbered)
          /\ Cardinality(Unsent)' = Cardinality(Unsent)
      BY <2>2, <2>3, <3>1
    <3>4. QED
      BY <1>1, <1>2, <3>2, <3>3 DEF CountsOK
  <2>8. CASE SendQueued(w)
    <3>1. before = "send" /\ after = "reset"
      BY <1>3, <2>8, WorkerSteps DEF SendQueued, WorkerGoto
    <3>2. between' \in Nat /\ UNCHANGED <<published, counter, strikes>>
      BY <1>1, <2>8 DEF SendQueued
    <3>3. /\ Cardinality(Unnumbered)' = Cardinality(Unnumbered)
          /\ Cardinality(Unsent)' = Cardinality(Unsent) - 1
      BY <2>2, <2>3, <3>1
    <3>4. QED
      BY <1>1, <1>2, <2>3, <3>2, <3>3 DEF CountsOK
  <2>9. CASE ResetStrikes(w)
    <3>1. before = "reset" /\ after = "idle"
      BY <1>3, <2>9, WorkerSteps DEF ResetStrikes, WorkerGoto
    <3>2. strikes' = 0 /\ between' = 0 /\ UNCHANGED <<published, counter>>
      BY <2>9 DEF ResetStrikes
    <3>3. /\ Cardinality(Unnumbered)' = Cardinality(Unnumbered)
          /\ Cardinality(Unsent)' = Cardinality(Unsent)
      BY <2>2, <2>3, <3>1
    <3>4. QED
      BY <1>1, <1>2, <3>2, <3>3 DEF CountsOK
  <2>10. CASE SendRefused(w)
    <3>1. before = "send" /\ after \in {"strike", "idle"}
      BY <1>3, <2>10, WorkerSteps DEF SendRefused, WorkerGoto
    <3>2. strikes' = strikes + 1 /\ UNCHANGED <<published, counter, between>>
      BY <2>10 DEF SendRefused
    <3>3. /\ Cardinality(Unnumbered)' = Cardinality(Unnumbered)
          /\ Cardinality(Unsent)' = Cardinality(Unsent) - 1
      BY <2>2, <2>3, <3>1
    <3>4. QED
      BY <1>1, <1>2, <3>2, <3>3 DEF CountsOK
  <2>11. CASE Disconnect(w)
    <3>1. before = "strike" /\ after = "idle"
      BY <1>3, <2>11, WorkerSteps DEF Disconnect, WorkerGoto
    <3>2. UNCHANGED <<published, counter, strikes, between>>
      BY <2>11 DEF Disconnect
    <3>3. /\ Cardinality(Unnumbered)' = Cardinality(Unnumbered)
          /\ Cardinality(Unsent)' = Cardinality(Unsent)
      BY <2>2, <2>3, <3>1
    <3>4. QED
      BY <1>1, <1>2, <3>2, <3>3 DEF CountsOK
  <2>12. QED
    BY <1>3, <2>4, <2>5, <2>6, <2>7, <2>8, <2>9, <2>10, <2>11 DEF Worker
<1>4. ASSUME worker' = worker
      PROVE  Cardinality(Unnumbered)' = Cardinality(Unnumbered)
             /\ Cardinality(Unsent)' = Cardinality(Unsent)
  BY <1>4 DEF Unnumbered, Unsent, At
<1>5. CASE Connect /\ UNCHANGED <<worker, published>>
  <2>1. counter' = 0 /\ strikes' = 0 /\ between' = 0
    BY <1>5 DEF Connect
  <2>2. QED
    BY <1>1, <1>2, <1>4, <1>5, <2>1 DEF CountsOK
<1>6. CASE UNCHANGED <<worker, published, counter, strikes, between>>
  BY <1>1, <1>2, <1>4, <1>6 DEF CountsOK
<1>7. QED
  BY <1>3, <1>5, <1>6, OthersLeaveWorkers

\* What the client has received.
LEMMA HistoryKept == TypeInv /\ [Next]_vars => HistoryOK'
<1> SUFFICES ASSUME TypeInv, [Next]_vars PROVE HistoryOK'
  OBVIOUS
<1>1. CASE Connect
  BY <1>1, BoundsAssumption DEF HistoryOK, Connect
<1>2. CASE \E w \in Workers : Worker(w)
  BY <1>2 DEF TypeInv, HistoryOK, Worker, Lookup, Wrap, WrapMalformed, Buffer, SendQueued,
     ResetStrikes, SendRefused, Disconnect
<1>3. ASSUME NEW l \in Lives, WriterWrites(l) PROVE HistoryOK'
  <2>1. writer[l].msg \in Cell /\ life \in Lives
    BY <1>3 DEF TypeInv, PumpsOK, FlagsOK, WriterWrites
  <2>2. writer[l].msg.life = life => writer[l].msg.seq \in Numbers
    BY <2>1, BoundsAssumption DEF Cell, Control, Envelopes, Lives
  <2>3. Numbers \subseteq 0..MaxMsgs
    BY BoundsAssumption DEF Numbers
  <2>4. QED
    BY <1>3, <2>2, <2>3 DEF TypeInv, HistoryOK, WriterWrites
<1>4. ASSUME NEW l \in Lives, WriterTakes(l) \/ WriterFails(l) \/ WriterExits(l)
      PROVE  HistoryOK'
  BY <1>4 DEF TypeInv, HistoryOK, WriterTakes, WriterFails, WriterExits
<1>5. CASE Subscribe \/ SockDrops \/ Reader \/ Terminated \/ UNCHANGED vars
  BY <1>5 DEF TypeInv, HistoryOK, Subscribe, SockDrops, Reader, ReaderUnindexes, ReaderPuts,
     ReadReplay, ReplaySend, ReplayTimesOut, ReadControl, Terminated, vars
<1>6. QED
  BY <1>1, <1>2, <1>3, <1>4, <1>5 DEF Next, Writer

LEMMA TypeInvKept == TypeInv /\ [Next]_vars => TypeInv'
  BY FlagsKept, PumpsKept, QueuesKept, WorkersKept, CountsKept, HistoryKept DEF TypeInv

LEMMA TypesHold == Spec => []TypeInv
  BY TypeInvInit, TypeInvKept, PTL DEF Spec

\* However many workers interleave over however many connections, the buffer
\* never holds more than maxSize entries, the channel never more than its
\* capacity, and every number and every strike is one broadcast's
\* (ReplayBuffer.Add, broadcast, ConnectionPool.Get).
THEOREM DeliveryTypes == Spec => []TypeOK
  BY TypesHold, TypeInvImplies, PTL

-----------------------------------------------------------------------------
(***************************************************************************)
(* Numbers are unique.  NumbersUnique is not inductive: it must also be    *)
(* known that no number in use exceeds the counter, and that nothing is    *)
(* marked with a life that is still to come, so that a connection starts   *)
(* with no number in use although Get restarts the counter while workers   *)
(* of an earlier connection go on drawing numbers.                         *)
(***************************************************************************)
NoneOfLaterLife ==
    /\ \A w \in Unsent : worker[w].env.life <= life /\ ~worker[w].env.again
    /\ \A i \in DOMAIN send : send[i].again \/ send[i].life <= life
    /\ \A l \in Lives : writer[l].pc = "write" =>
         writer[l].msg.again \/ writer[l].msg.life <= life

NumbersDrawn ==
    /\ \A i \in Waiting : send[i].seq <= counter
    /\ \A l \in Writing : writer[l].msg.seq <= counter
    /\ \A w \in Numbering : worker[w].env.seq <= counter

\* A message is appended to the channel.
LEMMA WaitingGrows ==
    ASSUME send \in Seq(Cell), NEW e \in Cell, send' = Append(send, e), life' = life
    PROVE  /\ Len(send) \in Nat /\ DOMAIN send = 1..Len(send)
           /\ DOMAIN send' = 1..(Len(send) + 1)
           /\ \A i \in 1..Len(send) : send'[i] = send[i]
           /\ send'[Len(send) + 1] = e
           /\ Len(send) + 1 \notin Waiting
           /\ \A i \in Waiting : i \in Waiting' /\ send'[i] = send[i] /\ i < Len(send) + 1
           /\ \A i \in Waiting' : i # Len(send) + 1 => i \in Waiting
           /\ Len(send) + 1 \in Waiting' <=> First(e)
<1>1. /\ Len(send) \in Nat /\ DOMAIN send = 1..Len(send)
      /\ DOMAIN send' = 1..(Len(send) + 1)
      /\ \A i \in 1..Len(send) : send'[i] = send[i]
      /\ send'[Len(send) + 1] = e
  BY AppendPlaces
<1>2. \A i \in 1..Len(send) : i \in 1..(Len(send) + 1) /\ i < Len(send) + 1
  BY <1>1
<1>3. Len(send) + 1 \in 1..(Len(send) + 1) /\ Len(send) + 1 \notin 1..Len(send)
  BY <1>1
<1>4. \A i \in 1..(Len(send) + 1) : i # Len(send) + 1 => i \in 1..Len(send)
  BY <1>1
<1>5. \A m : First(m)' <=> First(m)
  BY DEF First
<1>6. \A i : i \in Waiting <=> i \in 1..Len(send) /\ First(send[i])
  BY <1>1 DEF Waiting
<1>7. \A i : i \in Waiting' <=> i \in 1..(Len(send) + 1) /\ First(send'[i])
  BY <1>1 DEF Waiting, First
<1>8. QED
  BY <1>1, <1>2, <1>3, <1>4, <1>6, <1>7

\* The oldest message is taken from the channel.
LEMMA WaitingShifts ==
    ASSUME send \in Seq(Cell), send # <<>>, send' = Tail(send)
    PROVE  /\ 1 \in DOMAIN send /\ Head(send) = send[1]
           /\ \A i \in DOMAIN send' : i \in Nat \ {0} /\ i + 1 \in DOMAIN send
                                        /\ send'[i] = send[i + 1]
           /\ life' = life => \A i \in Waiting' : i + 1 \in Waiting
           /\ First(Head(send)) => 1 \in Waiting
<1>1. /\ Len(send) \in Nat \ {0} /\ DOMAIN send = 1..Len(send) /\ Head(send) = send[1]
      /\ DOMAIN send' = 1..(Len(send) - 1)
      /\ \A i \in 1..(Len(send) - 1) : send'[i] = send[i + 1] /\ i + 1 \in 1..Len(send)
  BY TailPlaces
<1>2. 1 \in DOMAIN send
  BY <1>1
<1>3. \A i \in DOMAIN send' : i \in Nat \ {0} /\ i + 1 \in DOMAIN send
                                /\ send'[i] = send[i + 1]
  BY <1>1
<1>4. life' = life => \A i \in Waiting' : i + 1 \in Waiting
  BY <1>3 DEF Waiting, First
<1>5. First(Head(send)) => 1 \in Waiting
  BY <1>1, <1>2 DEF Waiting
<1>6. QED
  BY <1>1, <1>2, <1>3, <1>4, <1>5

\* Nothing is marked with a life that is still to come.
LEMMA LivesInit == Init => NoneOfLaterLife
  BY EmptySeq DEF Init, NoneOfLaterLife, Unsent, At

LEMMA LivesKept == TypeInv /\ NoneOfLaterLife /\ [Next]_vars => NoneOfLaterLife'
<1> SUFFICES ASSUME TypeInv, NoneOfLaterLife, [Next]_vars PROVE NoneOfLaterLife'
  OBVIOUS
<1> DEFINE WorkersOld == \A w \in Unsent : worker[w].env.life <= life /\ ~worker[w].env.again
           SendOld == \A i \in DOMAIN send : send[i].again \/ send[i].life <= life
           WritersOld == \A l \in Lives : writer[l].pc = "write" =>
                           writer[l].msg.again \/ writer[l].msg.life <= life
<1>1. WorkersOld /\ SendOld /\ WritersOld
  BY DEF NoneOfLaterLife
<1>2. life \in Nat /\ send \in Seq(Cell)
  BY BoundsAssumption DEF TypeInv, FlagsOK, QueuesOK
<1>3. CASE Connect
  <2>1. life' = life + 1 /\ UNCHANGED worker /\ (send' = send \/ (send # <<>> /\ send' = Tail(send)))
    BY <1>3 DEF Connect
  <2>2. \A l \in Lives : writer'[l].pc = "write" => writer[l].pc = "write" /\ writer'[l].msg = writer[l].msg
    BY <1>3 DEF Connect, TypeInv, PumpsOK
  <2>3. \A m \in Cell : m.life \in Nat
    BY BoundsAssumption DEF Cell, Envelopes, Control, Lives
  <2>4. \A m \in Cell : m.life <= life => m.life <= life + 1
    BY <1>2, <2>3
  <2>5. WorkersOld'
    <3>1. \A w \in Unsent : worker[w].env \in Cell
      BY DEF TypeInv, WorkersOK, Unsent, At, Cell
    <3>2. Unsent' = Unsent
      BY <2>1 DEF Unsent, At
    <3>3. QED
      BY <1>1, <2>1, <2>4, <3>1, <3>2
  <2>6. WritersOld'
    <3>1. \A l \in Lives : writer[l].msg \in Cell
      BY DEF TypeInv, PumpsOK
    <3>2. QED
      BY <1>1, <2>1, <2>2, <2>4, <3>1
  <2>7. SendOld'
    <3>1. \A i \in DOMAIN send : send[i] \in Cell
      BY <1>2
    <3>2. CASE send' = send
      BY <1>1, <2>1, <2>4, <3>1, <3>2
    <3>3. CASE send # <<>> /\ send' = Tail(send)
      <4>1. \A i \in DOMAIN send' : i + 1 \in DOMAIN send /\ send'[i] = send[i + 1]
        BY <1>2, <3>3, WaitingShifts
      <4>2. QED
        BY <1>1, <2>1, <2>4, <3>1, <4>1
    <3>4. QED
      BY <2>1, <3>2, <3>3
  <2>8. QED
    BY <2>5, <2>6, <2>7 DEF NoneOfLaterLife
<1>4. ASSUME life' = life, UNCHANGED worker PROVE WorkersOld'
  BY <1>1, <1>4 DEF Unsent, At
<1>5. ASSUME life' = life, UNCHANGED send PROVE SendOld'
  BY <1>1, <1>5
<1>6. ASSUME life' = life, UNCHANGED writer PROVE WritersOld'
  BY <1>1, <1>6
<1>7. ASSUME NEW e \in Cell, e.again \/ e.life <= life, send' = Append(send, e), life' = life
      PROVE  SendOld'
  <2>1. /\ Len(send) \in Nat /\ DOMAIN send = 1..Len(send)
        /\ DOMAIN send' = 1..(Len(send) + 1)
        /\ \A i \in 1..Len(send) : send'[i] = send[i]
        /\ send'[Len(send) + 1] = e
    BY <1>2, <1>7, AppendPlaces
  <2>2. \A i \in 1..(Len(send) + 1) : i \in 1..Len(send) \/ i = Len(send) + 1
    BY <2>1
  <2>3. QED
    BY <1>1, <1>7, <2>1, <2>2
<1>8. CASE ReplaySend
  <2>1. PICK next \in DOMAIN replaying :
          send' = Append(send, [replaying[next] EXCEPT !.again = TRUE])
    BY <1>8 DEF ReplaySend
  <2>2. [replaying[next] EXCEPT !.again = TRUE] \in Cell
        /\ [replaying[next] EXCEPT !.again = TRUE].again
    <3>1. replaying[next] \in Envelopes
      BY <2>1 DEF TypeInv, PumpsOK
    <3>2. QED
      BY <3>1 DEF Envelopes, Cell
  <2>3. SendOld'
    BY <1>7, <1>8, <2>1, <2>2 DEF ReplaySend
  <2>4. QED
    BY <1>4, <1>6, <1>8, <2>3 DEF ReplaySend, NoneOfLaterLife
<1>9. CASE ReadControl
  <2>1. Control \in Cell /\ Control.life <= life
    BY <1>2 DEF Cell, Control
  <2>2. SendOld'
    BY <1>5, <1>7, <1>9, <2>1 DEF ReadControl
  <2>3. QED
    BY <1>4, <1>6, <1>9, <2>2 DEF ReadControl, NoneOfLaterLife
<1>10. CASE \/ Subscribe \/ SockDrops \/ ReaderUnindexes \/ ReaderPuts \/ ReadReplay
            \/ ReplayTimesOut \/ Terminated \/ UNCHANGED vars
  <2>1. UNCHANGED <<life, worker, send, writer>>
    BY <1>10 DEF Subscribe, SockDrops, ReaderUnindexes, ReaderPuts, ReadReplay,
       ReplayTimesOut, Terminated, vars
  <2>2. QED
    BY <1>4, <1>5, <1>6, <2>1 DEF NoneOfLaterLife
<1>11. ASSUME NEW w \in Workers, Worker(w) PROVE NoneOfLaterLife'
  <2>1. life' = life /\ UNCHANGED writer
    BY <1>11 DEF Worker, Lookup, Wrap, WrapMalformed, Buffer, SendQueued, ResetStrikes,
       SendRefused, Disconnect
  <2>2. \A v \in Workers \ {w} : worker'[v] = worker[v]
    BY <1>11, WorkerSteps
  <2>3. w \in Unsent' => worker'[w].env.life <= life /\ ~worker'[w].env.again
    <3>1. CASE Lookup(w)
      <4>1. worker'[w].env = [life |-> life, seq |-> 1, again |-> FALSE]
        BY <1>11, <3>1, WorkerSteps DEF Lookup, WorkerGoto
      <4>2. QED
        BY <1>2, <4>1
    <3>2. CASE Wrap(w)
      <4>1. worker[w].pc = "wrap" /\ worker[w].env \in Envelopes
            /\ worker'[w].env = [worker[w].env EXCEPT !.seq = counter + 1]
        BY <1>11, <3>2, WorkerSteps DEF Wrap, WorkerGoto, TypeInv, WorkersOK, Unsent, At
      <4>2. worker'[w].env.life = worker[w].env.life /\ worker'[w].env.again = worker[w].env.again
        BY <4>1 DEF Envelopes
      <4>3. QED
        BY <1>1, <4>1, <4>2 DEF Unsent, At
    <3>3. CASE Buffer(w)
      <4>1. worker[w].pc = "buffer" /\ worker'[w].env = worker[w].env
        BY <1>11, <3>3, WorkerSteps DEF Buffer, WorkerGoto
      <4>2. QED
        BY <1>1, <4>1 DEF Unsent, At
    <3>4. CASE ~Lookup(w) /\ ~Wrap(w) /\ ~Buffer(w)
      BY <1>11, <3>4, WorkerSteps DEF Unsent, At
    <3>5. QED
      BY <3>1, <3>2, <3>3, <3>4
  <2>4. WorkersOld'
    BY <1>1, <2>1, <2>2, <2>3 DEF Unsent, At
  <2>5. SendOld'
    <3>1. CASE SendQueued(w)
      <4>1. worker[w].pc = "send" /\ send' = Append(send, worker[w].env)
        BY <3>1 DEF SendQueued, WorkerGoto
      <4>2. worker[w].env \in Cell /\ worker[w].env.life <= life
        BY <1>1, <4>1 DEF TypeInv, WorkersOK, Unsent, At, Cell
      <4>3. QED
        BY <1>7, <2>1, <4>1, <4>2
    <3>2. CASE ~SendQueued(w)
      <4>1. UNCHANGED send
        BY <1>11, <3>2 DEF Worker, Lookup, Wrap, WrapMalformed, Buffer, ResetStrikes,
           SendRefused, Disconnect
      <4>2. QED
        BY <1>5, <2>1, <4>1
    <3>3. QED
      BY <3>1, <3>2
  <2>6. QED
    BY <1>6, <2>1, <2>4, <2>5 DEF NoneOfLaterLife
<1>12. ASSUME NEW l \in Lives, Writer(l) PROVE NoneOfLaterLife'
  <2>1. life' = life /\ UNCHANGED worker
    BY <1>12 DEF Writer, WriterTakes, WriterWrites, WriterFails, WriterExits
  <2>2. CASE WriterTakes(l)
    <3>1. send # <<>> /\ send' = Tail(send)
      BY <2>2 DEF WriterTakes
    <3>2. /\ 1 \in DOMAIN send /\ Head(send) = send[1]
          /\ \A i \in DOMAIN send' : i + 1 \in DOMAIN send /\ send'[i] = send[i + 1]
      BY <1>2, <3>1, WaitingShifts
    <3>3. SendOld'
      BY <1>1, <2>1, <3>2
    <3>4. \A k \in Lives : writer'[k].pc = "write" =>
            writer'[k] = writer[k] \/ writer'[k].msg = Head(send)
      BY <2>2 DEF WriterTakes, WriterGoto, TypeInv, PumpsOK
    <3>5. WritersOld'
      BY <1>1, <2>1, <3>2, <3>4
    <3>6. QED
      BY <1>4, <2>1, <3>3, <3>5 DEF NoneOfLaterLife
  <2>3. CASE WriterWrites(l) \/ WriterFails(l) \/ WriterExits(l)
    <3>1. UNCHANGED send /\ \A k \in Lives : writer'[k].pc = "write" => writer'[k] = writer[k]
      BY <2>3 DEF WriterWrites, WriterFails, WriterExits, WriterGoto, TypeInv, PumpsOK
    <3>2. WritersOld'
      BY <1>1, <2>1, <3>1
    <3>3. QED
      BY <1>4, <1>5, <2>1, <3>1, <3>2 DEF NoneOfLaterLife
  <2>4. QED
    BY <1>12, <2>2, <2>3 DEF Writer
<1>13. QED
  BY <1>3, <1>8, <1>9, <1>10, <1>11, <1>12 DEF Next, Reader

\* The numbers in use are drawn, and no two are the same.
NumbersInv == NumbersDrawn /\ NumbersUnique

LEMMA NumbersInit == Init => NumbersInv
<1>1. ASSUME Init PROVE NumbersInv
  <2>1. Waiting = {} /\ Writing = {} /\ Numbering = {}
    BY <1>1, EmptySeq DEF Init, Waiting, Writing, Numbering
  <2>2. QED
    BY <2>1 DEF NumbersInv, NumbersDrawn, NumbersUnique
<1>2. QED
  BY <1>1

\* Every number in use is a natural number.
LEMMA NumbersTyped ==
    ASSUME TypeInv
    PROVE  /\ counter \in Nat
           /\ \A i \in Waiting : send[i].seq \in Nat
           /\ \A l \in Writing : writer[l].msg.seq \in Nat
           /\ \A w \in Numbering : worker[w].env.seq \in Nat
<1>1. \A m \in Cell : m.seq \in Nat
  BY BoundsAssumption DEF Cell, Control, Envelopes, Numbers
<1>2. \A i \in Waiting : send[i] \in Cell
  BY DEF TypeInv, QueuesOK, Waiting
<1>3. \A l \in Writing : writer[l].msg \in Cell
  BY DEF TypeInv, PumpsOK, Writing
<1>4. \A w \in Numbering : worker[w].env \in Cell
  BY DEF TypeInv, WorkersOK, Unsent, At, Numbering, Cell
<1>5. counter \in Nat
  BY DEF TypeInv, CountsOK
<1>6. QED
  BY <1>1, <1>2, <1>3, <1>4, <1>5

\* A step after which the same numbers or fewer are in use.
NoNewNumbers ==
    /\ counter' = counter \/ counter' = counter + 1
    /\ Waiting' = Waiting /\ \A i \in Waiting : send'[i] = send[i]
    /\ Writing' \subseteq Writing /\ \A l \in Writing' : writer'[l].msg = writer[l].msg
    /\ Numbering' \subseteq Numbering
    /\ \A w \in Numbering' : worker'[w].env = worker[w].env

LEMMA NumbersUndisturbed ==
    ASSUME TypeInv, NumbersInv, NoNewNumbers PROVE NumbersInv'
<1>1. NumbersDrawn'
  BY NumbersTyped DEF NumbersInv, NumbersDrawn, NoNewNumbers
<1>2. NumbersOnTheWay' \subseteq NumbersOnTheWay
  BY DEF NumbersOnTheWay, NoNewNumbers
<1>3. NumbersUnique'
  BY <1>2 DEF NumbersInv, NumbersUnique, NoNewNumbers
<1>4. QED
  BY <1>1, <1>3 DEF NumbersInv

\* Get: no number of the new life is in use yet.
LEMMA NumbersRestart ==
    ASSUME TypeInv, NoneOfLaterLife, Connect
    PROVE  Waiting' = {} /\ Writing' = {} /\ Numbering' = {}
<1>1. life \in Nat /\ life' = life + 1 /\ UNCHANGED worker
      /\ (send' = send \/ (send # <<>> /\ send' = Tail(send)))
  BY BoundsAssumption DEF Connect, TypeInv, FlagsOK
<1>2. \A m \in Cell : m.again \/ m.life <= life => ~First(m)'
  BY <1>1, BoundsAssumption DEF First, Cell, Envelopes, Control, Lives
<1>3. Waiting' = {}
  <2>1. send \in Seq(Cell) /\ \A i \in DOMAIN send : send[i] \in Cell
    BY DEF TypeInv, QueuesOK
  <2>2. \A i \in DOMAIN send' : \E j \in DOMAIN send : send'[i] = send[j]
    BY <1>1, <2>1, WaitingShifts
  <2>3. QED
    BY <1>2, <2>1, <2>2 DEF Waiting, NoneOfLaterLife, First
<1>4. Writing' = {}
  <2>1. \A l \in Lives : writer[l].msg \in Cell
    BY DEF TypeInv, PumpsOK
  <2>2. \A l \in Lives : writer'[l].pc = "write" =>
          writer[l].pc = "write" /\ writer'[l].msg = writer[l].msg
    BY DEF Connect, TypeInv, PumpsOK
  <2>3. QED
    BY <1>2, <2>1, <2>2 DEF Writing, NoneOfLaterLife, First
<1>5. Numbering' = {}
  <2>1. \A w \in Unsent : worker[w].env \in Cell
    BY DEF TypeInv, WorkersOK, Cell
  <2>2. \A w \in Numbering' : w \in Unsent /\ worker[w].env.life = life + 1
    BY <1>1 DEF Numbering, Unsent, At
  <2>3. \A m \in Cell : m.life <= life => m.life # life + 1
    BY <1>1, BoundsAssumption DEF Cell, Envelopes, Control, Lives
  <2>4. QED
    BY <2>1, <2>2, <2>3 DEF NoneOfLaterLife
<1>6. QED
  BY <1>3, <1>4, <1>5

\* seqGen.Next(): the new number is greater than every number in use.
LEMMA NumbersWrapped ==
    ASSUME TypeInv, NumbersInv, NEW w \in Workers, Wrap(w) PROVE NumbersInv'
<1>1. /\ life' = life /\ counter' = counter + 1
      /\ UNCHANGED <<send, writer>>
  BY DEF Wrap
<1>2. /\ worker[w].pc = "wrap" /\ worker'[w].pc = "buffer"
      /\ worker'[w].env = [worker[w].env EXCEPT !.seq = counter + 1]
      /\ worker[w].env \in Envelopes
      /\ \A v \in Workers \ {w} : worker'[v] = worker[v]
  BY WorkerSteps DEF Wrap, WorkerGoto, Worker, TypeInv, WorkersOK, Unsent, At
<1>3. worker'[w].env.seq = counter + 1
  BY <1>2 DEF Envelopes
<1>4. Waiting' = Waiting /\ Writing' = Writing /\ NumbersOnTheWay' = NumbersOnTheWay
  BY <1>1 DEF Waiting, Writing, NumbersOnTheWay, First
<1>5. w \notin Numbering /\ \A v \in Numbering' \ {w} : v \in Numbering /\ worker'[v] = worker[v]
  BY <1>1, <1>2 DEF Numbering
<1>6. NumbersDrawn'
  BY <1>1, <1>3, <1>4, <1>5, NumbersTyped DEF NumbersInv, NumbersDrawn
<1>7. \A n \in NumbersOnTheWay : n # counter + 1
  BY NumbersTyped DEF NumbersInv, NumbersDrawn, NumbersOnTheWay
<1>8. \A v \in Numbering : worker[v].env.seq # counter + 1
  BY NumbersTyped DEF NumbersInv, NumbersDrawn
<1>9. NumbersUnique'
  <2>1. \A v \in Numbering' : worker'[v].env.seq \notin NumbersOnTheWay'
    BY <1>3, <1>4, <1>5, <1>7 DEF NumbersInv, NumbersUnique
  <2>2. \A u, v \in Numbering' : u # v => worker'[u].env.seq # worker'[v].env.seq
    BY <1>3, <1>5, <1>8 DEF NumbersInv, NumbersUnique
  <2>3. QED
    BY <1>1, <1>4, <2>1, <2>2 DEF NumbersInv, NumbersUnique
<1>10. QED
  BY <1>6, <1>9 DEF NumbersInv

\* The envelope moves from the worker to the end of the channel.
LEMMA NumbersQueued ==
    ASSUME TypeInv, NoneOfLaterLife, NumbersInv, NEW w \in Workers, SendQueued(w)
    PROVE  NumbersInv'
<1>1. life' = life /\ UNCHANGED <<counter, writer>> /\ send' = Append(send, worker[w].env)
  BY DEF SendQueued
<1>2. /\ worker[w].pc = "send" /\ worker'[w].pc = "reset" /\ worker[w].env \in Cell
      /\ \A v \in Workers \ {w} : worker'[v] = worker[v]
  BY WorkerSteps DEF SendQueued, WorkerGoto, Worker, TypeInv, WorkersOK, Unsent, At, Cell
<1>3. send \in Seq(Cell)
  BY DEF TypeInv, QueuesOK
<1> DEFINE e == worker[w].env
           end == Len(send) + 1
<1>4. /\ send'[end] = e
      /\ end \notin Waiting
      /\ \A i \in Waiting : i \in Waiting' /\ send'[i] = send[i]
      /\ \A i \in Waiting' : i # end => i \in Waiting
      /\ end \in Waiting' <=> First(e)
  <2> HIDE DEF e
  <2> QED
    BY <1>1, <1>2, <1>3, WaitingGrows DEF e
<1>5. First(e) => w \in Numbering
  BY <1>2 DEF Numbering, First
<1>6. /\ Writing' = Writing /\ \A l \in Writing : writer'[l] = writer[l]
      /\ \A v \in Numbering' : v # w /\ v \in Numbering /\ worker'[v] = worker[v]
  BY <1>1, <1>2 DEF Writing, First, Numbering
<1>7. NumbersDrawn'
  BY <1>1, <1>4, <1>5, <1>6 DEF NumbersInv, NumbersDrawn
<1>8. \A i \in Waiting' : send'[i].seq \in NumbersOnTheWay \/ (i = end /\ w \in Numbering)
  BY <1>4, <1>5 DEF NumbersOnTheWay
<1>9. \A n \in NumbersOnTheWay' : n \in NumbersOnTheWay \/ (n = e.seq /\ w \in Numbering)
  BY <1>4, <1>6, <1>8 DEF NumbersOnTheWay
<1>10. NumbersUnique'
  <2>1. \A i, j \in Waiting' : send'[i].seq = send'[j].seq => i = j
    BY <1>4, <1>5 DEF NumbersInv, NumbersUnique, NumbersOnTheWay
  <2>2. \A i \in Waiting', l \in Writing' : send'[i].seq # writer'[l].msg.seq
    BY <1>4, <1>5, <1>6 DEF NumbersInv, NumbersUnique, NumbersOnTheWay
  <2>3. \A v \in Numbering' : worker'[v].env.seq \notin NumbersOnTheWay'
    BY <1>6, <1>9 DEF NumbersInv, NumbersUnique
  <2>4. \A u, v \in Numbering' : u # v => worker'[u].env.seq # worker'[v].env.seq
    BY <1>6 DEF NumbersInv, NumbersUnique
  <2>5. \A k, l \in Writing' : writer'[k].msg.seq = writer'[l].msg.seq => k = l
    BY <1>6 DEF NumbersInv, NumbersUnique
  <2>6. QED
    BY <2>1, <2>2, <2>3, <2>4, <2>5 DEF NumbersUnique
<1>11. QED
  BY <1>7, <1>10 DEF NumbersInv

\* The oldest message moves from the channel to a write pump, or is lost.
LEMMA NumbersTaken ==
    ASSUME TypeInv, NumbersInv, NEW l \in Lives, WriterTakes(l) PROVE NumbersInv'
<1>1. /\ life' = life /\ UNCHANGED <<counter, worker>>
      /\ send # <<>> /\ send' = Tail(send)
  BY DEF WriterTakes
<1>2. \A k \in Lives : writer'[k].pc = "write" =>
        (k # l /\ writer'[k] = writer[k]) \/ (k = l /\ writer'[k].msg = Head(send))
  BY DEF WriterTakes, WriterGoto, TypeInv, PumpsOK
<1>3. l \notin Writing
  BY DEF WriterTakes, WriterGoto, Writing
<1>4. /\ Head(send) = send[1]
      /\ \A i \in Waiting' : i \in Nat \ {0} /\ i + 1 \in Waiting /\ send'[i] = send[i + 1]
      /\ First(Head(send)) => 1 \in Waiting
  <2>1. send \in Seq(Cell)
    BY DEF TypeInv, QueuesOK
  <2>2. \A i \in Waiting' : i \in DOMAIN send'
    BY DEF Waiting
  <2>3. QED
    BY <1>1, <2>1, <2>2, WaitingShifts
<1>5. \A k \in Writing' : (k # l /\ k \in Writing /\ writer'[k] = writer[k])
                          \/ (k = l /\ 1 \in Waiting /\ writer'[k].msg = send[1])
  BY <1>1, <1>2, <1>4 DEF Writing, First
<1>6. Numbering' = Numbering
  BY <1>1 DEF Numbering
<1>7. \A i \in Nat \ {0} : i + 1 # 1
  OBVIOUS
<1>8. \A i, j \in Nat \ {0} : i + 1 = j + 1 => i = j
  OBVIOUS
<1>9. NumbersDrawn'
  BY <1>1, <1>4, <1>5, <1>6 DEF NumbersInv, NumbersDrawn
<1>10. NumbersOnTheWay' \subseteq NumbersOnTheWay
  BY <1>4, <1>5 DEF NumbersOnTheWay
<1>11. NumbersUnique'
  <2>1. \A i, j \in Waiting' : send'[i].seq = send'[j].seq => i = j
    BY <1>4, <1>8 DEF NumbersInv, NumbersUnique
  <2>2. \A i \in Waiting', k \in Writing' : send'[i].seq # writer'[k].msg.seq
    BY <1>4, <1>5, <1>7 DEF NumbersInv, NumbersUnique
  <2>3. \A j, k \in Writing' : writer'[j].msg.seq = writer'[k].msg.seq => j = k
    BY <1>5 DEF NumbersInv, NumbersUnique
  <2>4. QED
    BY <1>1, <1>6, <1>10, <2>1, <2>2, <2>3 DEF NumbersInv, NumbersUnique
<1>12. QED
  BY <1>9, <1>11 DEF NumbersInv

\* The steps that put numbers elsewhere, and all the others.
LEMMA NumberSteps ==
    ASSUME TypeInv, [Next]_vars
    PROVE  \/ Connect
           \/ \E w \in Workers : Wrap(w) \/ SendQueued(w)
           \/ \E l \in Lives : WriterTakes(l) \/ WriterWrites(l)
           \/ NoNewNumbers /\ last' = last
<1> DEFINE Undisturbed == NoNewNumbers /\ last' = last
<1>1. ASSUME life' = life, UNCHANGED send
      PROVE  Waiting' = Waiting /\ \A i \in Waiting : send'[i] = send[i]
  BY <1>1 DEF Waiting, First
<1>2. ASSUME life' = life, UNCHANGED writer
      PROVE  Writing' = Writing /\ \A l \in Writing : writer'[l] = writer[l]
  BY <1>2 DEF Writing, First
<1>3. ASSUME life' = life, UNCHANGED worker
      PROVE  Numbering' = Numbering /\ \A w \in Numbering : worker'[w] = worker[w]
  BY <1>3 DEF Numbering
<1>4. ASSUME NEW e \in Cell, e.again \/ e.life # life, send' = Append(send, e),
             UNCHANGED <<life, counter, writer, worker, last>>
      PROVE  Undisturbed
  <2>1. send \in Seq(Cell) /\ ~First(e)
    BY <1>4 DEF TypeInv, QueuesOK, First
  <2>2. Waiting' = Waiting /\ \A i \in Waiting : send'[i] = send[i]
    BY <1>4, <2>1, WaitingGrows
  <2>3. QED
    BY <1>2, <1>3, <1>4, <2>2 DEF NoNewNumbers
<1>5. CASE ReplaySend
  <2>1. PICK next \in DOMAIN replaying :
          send' = Append(send, [replaying[next] EXCEPT !.again = TRUE])
    BY <1>5 DEF ReplaySend
  <2>2. replaying[next] \in Envelopes
    BY <2>1 DEF TypeInv, PumpsOK
  <2>3. [replaying[next] EXCEPT !.again = TRUE] \in Cell
        /\ [replaying[next] EXCEPT !.again = TRUE].again
    BY <2>2 DEF Envelopes, Cell
  <2>4. QED
    BY <1>4, <1>5, <2>1, <2>3 DEF ReplaySend
<1>6. CASE ReadControl
  <2>1. Control \in Cell /\ Control.life # life
    BY <1>6, BoundsAssumption DEF Cell, Control, ReadControl, TypeInv, FlagsOK, Lives
  <2>2. CASE send' = Append(send, Control)
    BY <1>4, <1>6, <2>1, <2>2 DEF ReadControl
  <2>3. CASE send' = send
    BY <1>1, <1>2, <1>3, <1>6, <2>3 DEF ReadControl, NoNewNumbers
  <2>4. QED
    BY <1>6, <2>2, <2>3 DEF ReadControl
<1>7. CASE \/ Subscribe \/ SockDrops \/ ReaderUnindexes \/ ReaderPuts \/ ReadReplay
           \/ ReplayTimesOut \/ Terminated \/ UNCHANGED vars
  <2>1. UNCHANGED <<life, counter, worker, send, writer, last>>
    BY <1>7 DEF Subscribe, SockDrops, ReaderUnindexes, ReaderPuts, ReadReplay,
       ReplayTimesOut, Terminated, vars
  <2>2. QED
    BY <1>1, <1>2, <1>3, <2>1 DEF NoNewNumbers
<1>8. ASSUME NEW w \in Workers, Worker(w), ~Wrap(w), ~SendQueued(w) PROVE Undisturbed
  <2>1. UNCHANGED <<life, send, writer, last>> /\ (counter' = counter \/ counter' = counter + 1)
    BY <1>8 DEF Worker, Lookup, WrapMalformed, Buffer, ResetStrikes, SendRefused, Disconnect
  <2>2. /\ \A v \in Workers \ {w} : worker'[v] = worker[v]
        /\ worker'[w].pc \in {"buffer", "send"}
             => worker[w].pc = "buffer" /\ worker'[w].env = worker[w].env
    BY <1>8, WorkerSteps
  <2>3. Numbering' \subseteq Numbering /\ \A v \in Numbering' : worker'[v].env = worker[v].env
    BY <2>1, <2>2 DEF Numbering
  <2>4. QED
    BY <1>1, <1>2, <2>1, <2>3 DEF NoNewNumbers
<1>9. ASSUME NEW l \in Lives, WriterFails(l) \/ WriterExits(l) PROVE Undisturbed
  <2>1. UNCHANGED <<life, counter, worker, send, last>>
    BY <1>9 DEF WriterFails, WriterExits
  <2>2. \A k \in Lives : writer'[k].pc = "write" => writer'[k] = writer[k]
    BY <1>9 DEF WriterFails, WriterExits, WriterGoto, TypeInv, PumpsOK
  <2>3. Writing' \subseteq Writing /\ \A k \in Writing' : writer'[k].msg = writer[k].msg
    BY <2>1, <2>2 DEF Writing, First
  <2>4. QED
    BY <1>1, <1>3, <2>1, <2>3 DEF NoNewNumbers
<1>10. QED
  BY <1>5, <1>6, <1>7, <1>8, <1>9 DEF Next, Reader, Writer

LEMMA NumbersKept == TypeInv /\ NoneOfLaterLife /\ NumbersInv /\ [Next]_vars => NumbersInv'
<1> SUFFICES ASSUME TypeInv, NoneOfLaterLife, NumbersInv, [Next]_vars PROVE NumbersInv'
  OBVIOUS
<1>1. CASE Connect
  BY <1>1, NumbersRestart DEF NumbersInv, NumbersDrawn, NumbersUnique
<1>2. CASE \E w \in Workers : Wrap(w) \/ SendQueued(w)
  BY <1>2, NumbersWrapped, NumbersQueued
<1>3. CASE \E l \in Lives : WriterTakes(l)
  BY <1>3, NumbersTaken
<1>4. ASSUME NEW l \in Lives, WriterWrites(l) PROVE NumbersInv'
  <2>1. UNCHANGED <<life, counter, worker, send>>
    BY <1>4 DEF WriterWrites
  <2>2. \A k \in Lives : writer'[k].pc = "write" => writer'[k] = writer[k]
    BY <1>4 DEF WriterWrites, WriterGoto, TypeInv, PumpsOK
  <2>3. NoNewNumbers
    BY <2>1, <2>2 DEF NoNewNumbers, Waiting, Writing, Numbering, First
  <2>4. QED
    BY <2>3, NumbersUndisturbed
<1>5. CASE NoNewNumbers
  BY <1>5, NumbersUndisturbed
<1>6. QED
  BY <1>1, <1>2, <1>3, <1>4, <1>5, NumberSteps

LEMMA LivesHold == Spec => []NoneOfLaterLife
  BY LivesInit, LivesKept, TypesHold, PTL DEF Spec

\* No two envelopes of a connection carry the same number, whatever the order
\* in which any number of workers draw, buffer and send, and although workers
\* of earlier connections of the object draw numbers of the same generator
\* (SequenceGenerator.Next, broadcast, ConnectionPool.Get).
THEOREM SequenceNumbersAreUnique == Spec => []NumbersUnique
<1>1. NumbersInv => NumbersUnique
  BY DEF NumbersInv
<1>2. Spec => []NumbersInv
  BY NumbersInit, NumbersKept, LivesHold, TypesHold, PTL DEF Spec
<1>3. QED
  BY <1>1, <1>2, PTL

-----------------------------------------------------------------------------
(***************************************************************************)
(* What the full channel refuses can be replayed.                          *)
(***************************************************************************)

\* An envelope about to be sent on the current connection is in the buffer,
\* unless newer ones have filled it.
Buffered ==
    \A w \in Workers :
        worker[w].pc = "send" /\ worker[w].env.life = life /\ connected
            => worker[w].env \in ToSet(replay) \/ Len(replay) = ReplaySize

LEMMA BufferedInit == Init => Buffered
  BY DEF Init, Buffered

LEMMA BufferedKept ==
    TypeInv /\ NoneOfLaterLife /\ Buffered /\ [Next]_vars => Buffered'
<1> SUFFICES ASSUME TypeInv, NoneOfLaterLife, Buffered, [Next]_vars PROVE Buffered'
  OBVIOUS
<1>1. CASE Connect
  <2>1. life \in Nat /\ life' = life + 1 /\ UNCHANGED worker
    BY <1>1, BoundsAssumption DEF Connect, TypeInv, FlagsOK
  <2>2. \A w \in Unsent : worker[w].env.life \in Nat /\ worker[w].env.life <= life
    BY BoundsAssumption DEF TypeInv, WorkersOK, NoneOfLaterLife, Envelopes, Lives
  <2>3. \A w \in Unsent : worker[w].env.life # life + 1
    BY <2>1, <2>2
  <2>4. QED
    BY <2>1, <2>3 DEF Buffered, Unsent, At
<1>2. CASE ReaderPuts
  BY <1>2 DEF ReaderPuts, Buffered
<1>3. ASSUME UNCHANGED <<life, connected, worker, replay>> PROVE Buffered'
  BY <1>3 DEF Buffered
<1>4. CASE \/ Subscribe \/ SockDrops \/ ReaderUnindexes \/ ReadReplay \/ ReplaySend
           \/ ReplayTimesOut \/ ReadControl \/ Terminated \/ UNCHANGED vars
  BY <1>3, <1>4 DEF Subscribe, SockDrops, ReaderUnindexes, ReadReplay, ReplaySend,
     ReplayTimesOut, ReadControl, Terminated, vars
<1>5. CASE \E l \in Lives : Writer(l)
  BY <1>3, <1>5 DEF Writer, WriterTakes, WriterWrites, WriterFails, WriterExits
<1>6. ASSUME NEW w \in Workers, Worker(w) PROVE Buffered'
  <2>1. UNCHANGED <<life, connected>> /\ \A v \in Workers \ {w} : worker'[v] = worker[v]
    <3>1. UNCHANGED <<life, connected>>
      BY <1>6 DEF Worker, Lookup, Wrap, WrapMalformed, Buffer, SendQueued, ResetStrikes,
         SendRefused, Disconnect
    <3>2. QED
      BY <1>6, <3>1, WorkerSteps
  <2>2. CASE Buffer(w)
    <3>1. /\ worker[w].env \in Envelopes /\ worker'[w].env = worker[w].env
          /\ replay' = ReplayAdd(replay, worker[w].env)
      BY <1>6, <2>2, WorkerSteps DEF Buffer, WorkerGoto
    <3>2. /\ worker[w].env \in ToSet(replay')
          /\ Len(replay') = ReplaySize
             \/ (Len(replay) < ReplaySize /\ ToSet(replay) \subseteq ToSet(replay'))
      BY <3>1, ReplayAddPlaces DEF TypeInv, QueuesOK
    <3>3. Len(replay) < ReplaySize => Len(replay) # ReplaySize
      BY BoundsAssumption, LenProperties DEF TypeInv, QueuesOK
    <3>4. QED
      BY <2>1, <3>1, <3>2, <3>3 DEF Buffered
  <2>3. CASE ~Buffer(w)
    <3>1. UNCHANGED replay
      BY <1>6, <2>3 DEF Worker, Lookup, Wrap, WrapMalformed, SendQueued, ResetStrikes,
         SendRefused, Disconnect
    <3>2. worker'[w].pc # "send"
      BY <1>6, <2>3, WorkerSteps
    <3>3. QED
      BY <2>1, <3>1, <3>2 DEF Buffered
  <2>4. QED
    BY <2>2, <2>3
<1>7. QED
  BY <1>1, <1>2, <1>4, <1>5, <1>6 DEF Next, Reader

\* When the full channel refuses an envelope of the current connection, the
\* replay buffer holds it or is full of newer entries, however many workers
\* add to the buffer and however the connection ends meanwhile: broadcast
\* buffers before it sends ("If send fails, client can request replay").
THEOREM RefusedEnvelopesAreBuffered == Spec => RefusedIsReplayable
<1> DEFINE Refusal ==
      \A w \in Workers :
         /\ worker[w].pc = "send" /\ worker'[w].pc # "send" /\ send' = send
         /\ connected /\ worker[w].env.life = life
         => worker[w].env \in ToSet(replay) \/ Len(replay) = ReplaySize
<1>1. Buffered => [Refusal]_vars
  BY DEF Buffered
<1>2. Spec => []Buffered
  BY BufferedInit, BufferedKept, LivesHold, TypesHold, PTL DEF Spec
<1>3. Spec => [][Refusal]_vars
  BY <1>1, <1>2, PTL
<1>4. QED
  BY <1>3 DEF RefusedIsReplayable


-----------------------------------------------------------------------------
(***************************************************************************)
(* Fewer than the workers: how many numbers can be overtaken.              *)
(***************************************************************************)
Few(S) == IsFiniteSet(S) /\ Cardinality(S) < Cardinality(Workers)

LEMMA FewerStayFew ==
    ASSUME NEW S, NEW T, S \subseteq T, Few(T) PROVE Few(S)
<1>1. IsFiniteSet(T) /\ S \in SUBSET T /\ Cardinality(T) \in Nat
      /\ Cardinality(Workers) \in Nat
  BY BoundsAssumption, FS_CardinalityType DEF Few
<1>2. IsFiniteSet(S) /\ Cardinality(S) <= Cardinality(T) /\ Cardinality(S) \in Nat
  BY <1>1, FS_Subset, FS_CardinalityType
<1>3. QED
  BY <1>1, <1>2 DEF Few

\* A worker has one number in hand: the others have fewer in hand than there
\* are workers.
LEMMA FewInOtherHands ==
    ASSUME NEW w \in Workers, NEW S, S \subseteq {worker[v].env.seq : v \in Workers \ {w}}
    PROVE  Few(S)
<1> DEFINE others == Workers \ {w}
           hands  == {worker[v].env.seq : v \in others}
           inHand == [v \in others |-> worker[v].env.seq]
<1>1. inHand \in Surjection(others, hands)
  BY DEF Surjection
<1>2. IsFiniteSet(others) /\ Cardinality(others) = Cardinality(Workers) - 1
      /\ Cardinality(Workers) \in Nat
  BY BoundsAssumption, FS_RemoveElement, FS_CardinalityType
<1>3. IsFiniteSet(hands) /\ Cardinality(hands) <= Cardinality(others)
      /\ Cardinality(hands) \in Nat
  <2> HIDE DEF others, hands, inHand
  <2> QED
    BY <1>1, <1>2, FS_Surjection, FS_CardinalityType
<1>4. Few(hands)
  BY <1>2, <1>3 DEF Few
<1>5. QED
  BY <1>4, FewerStayFew

\* Different owners with different numbers are as many as their numbers.
LEMMA NumbersCountOwners ==
    ASSUME NEW A, IsFiniteSet(A), NEW f, f = [a \in A |-> f[a]],
           \A a, b \in A : f[a] = f[b] => a = b
    PROVE  /\ IsFiniteSet({f[a] : a \in A})
           /\ Cardinality({f[a] : a \in A}) = Cardinality(A)
<1> DEFINE T == {f[a] : a \in A}
<1>1. f \in Surjection(A, T)
  BY DEF Surjection
<1>2. f \in Injection(A, T)
  BY DEF Injection, IsInjective
<1>3. f \in Bijection(A, T)
  BY <1>1, <1>2 DEF Bijection
<1>4. ExistsBijection(A, T)
  BY <1>3 DEF ExistsBijection
<1> HIDE DEF T
<1>5. IsFiniteSet(T) /\ Cardinality(T) = Cardinality(A)
  BY <1>4, FS_Bijection
<1>6. QED
  BY <1>5 DEF T

-----------------------------------------------------------------------------
(***************************************************************************)
(* Few numbers arrive late.  FewArriveLate speaks of the number received   *)
(* last; to be inductive it must be said of every number that is on its    *)
(* way, at the place where it is.                                          *)
(***************************************************************************)

\* The numbers of this life that come after place i of the channel: those that
\* wait behind it and those in the hands of workers.
Behind(i) == {send[j].seq : j \in {k \in Waiting : i < k}}
               \cup {worker[w].env.seq : w \in Numbering}

\* Those of them that n has overtaken.
Overtaken(n, i) == {m \in Behind(i) : m < n}

LateInv ==
    /\ last <= counter
    /\ last # 0 => Few(Overtaken(last, 0))
    /\ \A l \in Writing : Few(Overtaken(writer[l].msg.seq, 0))
    /\ \A i \in Waiting : Few(Overtaken(send[i].seq, i))

LEMMA LateInit == Init => LateInv
<1>1. ASSUME Init PROVE LateInv
  <2>1. Waiting = {} /\ Writing = {}
    BY <1>1, EmptySeq DEF Init, Waiting, Writing
  <2>2. QED
    BY <1>1, <2>1 DEF Init, LateInv
<1>2. QED
  BY <1>1

\* A place in the channel, and the numbers behind it.
LEMMA PlacesTyped ==
    ASSUME TypeInv
    PROVE  /\ Waiting \subseteq Nat \ {0}
           /\ \A i : \A m \in Behind(i) : m \in Nat
           /\ last \in Nat
<1>1. Waiting \subseteq Nat \ {0}
  <2>1. DOMAIN send = 1..Len(send) /\ Len(send) \in Nat
    BY LenProperties DEF TypeInv, QueuesOK
  <2>2. QED
    BY <2>1 DEF Waiting
<1>2. \A i : \A m \in Behind(i) : m \in Nat
  BY NumbersTyped DEF Behind
<1>3. last \in Nat
  BY BoundsAssumption DEF TypeInv, HistoryOK
<1>4. QED
  BY <1>1, <1>2, <1>3

\* A step that puts no number behind what is on its way.
LEMMA LateUndisturbed ==
    ASSUME LateInv, last' <= counter',
           \A i, n : Overtaken(n, i)' \subseteq Overtaken(n, i),
           last' = last,
           \A l \in Writing' : l \in Writing /\ writer'[l].msg = writer[l].msg,
           \A i \in Waiting' : i \in Waiting /\ send'[i] = send[i]
    PROVE  LateInv'
<1>1. last' # 0 => Few(Overtaken(last, 0)')
  BY FewerStayFew DEF LateInv
<1>2. QED
  BY FewerStayFew DEF LateInv

\* seqGen.Next(): the new number is greater than all that are on their way, so
\* none of them overtakes it.
LEMMA LateWrapped ==
    ASSUME TypeInv, NumbersInv, LateInv, NEW w \in Workers, Wrap(w)
    PROVE  LateInv'
<1>1. /\ life' = life /\ counter' = counter + 1 /\ last' = last
      /\ UNCHANGED <<send, writer>>
  BY DEF Wrap
<1>2. /\ worker'[w].env = [worker[w].env EXCEPT !.seq = counter + 1]
      /\ worker[w].env \in Envelopes
      /\ \A v \in Workers \ {w} : worker'[v] = worker[v]
  BY WorkerSteps DEF Wrap, WorkerGoto, Worker, TypeInv, WorkersOK, Unsent, At
<1>3. worker'[w].env.seq = counter + 1
  BY <1>2 DEF Envelopes
<1>4. Waiting' = Waiting /\ Writing' = Writing
  BY <1>1 DEF Waiting, Writing, First
<1>5. \A v \in Numbering' \ {w} : v \in Numbering /\ worker'[v] = worker[v]
  BY <1>1, <1>2 DEF Numbering
<1>6. \A i : Behind(i)' \subseteq Behind(i) \cup {counter + 1}
  BY <1>1, <1>3, <1>4, <1>5 DEF Behind
<1>7. counter \in Nat /\ last \in Nat
  BY PlacesTyped DEF TypeInv, CountsOK
<1>8. ASSUME NEW n \in Nat, n <= counter, NEW i
      PROVE  Overtaken(n, i)' \subseteq Overtaken(n, i)
  <2>1. ~(counter + 1 < n)
    BY <1>7, <1>8
  <2>2. QED
    BY <1>6, <2>1 DEF Overtaken
<1>9. last' <= counter' /\ (last' # 0 => Few(Overtaken(last, 0)'))
  <2>1. last' # 0 => Few(Overtaken(last, 0)')
    BY <1>1, <1>7, <1>8, FewerStayFew DEF LateInv
  <2>2. QED
    BY <1>1, <1>7, <2>1 DEF LateInv
<1>10. \A l \in Writing' : Few(Overtaken(writer[l].msg.seq, 0)')
  BY <1>1, <1>4, <1>8, NumbersTyped, FewerStayFew DEF LateInv, NumbersInv, NumbersDrawn
<1>11. \A i \in Waiting' : Few(Overtaken(send[i].seq, i)')
  BY <1>1, <1>4, <1>8, NumbersTyped, FewerStayFew DEF LateInv, NumbersInv, NumbersDrawn
<1>12. QED
  BY <1>1, <1>9, <1>10, <1>11 DEF LateInv

\* The envelope is queued at the end, where only what other workers hold can
\* come after it; behind the others its number has been before.
LEMMA LateQueued ==
    ASSUME TypeInv, LateInv, NEW w \in Workers, SendQueued(w)
    PROVE  LateInv'
<1>1. /\ life' = life /\ UNCHANGED <<counter, writer, last>>
      /\ send' = Append(send, worker[w].env)
  BY DEF SendQueued
<1>2. /\ worker[w].pc = "send" /\ worker'[w].pc = "reset" /\ worker[w].env \in Cell
      /\ \A v \in Workers \ {w} : worker'[v] = worker[v]
  BY WorkerSteps DEF SendQueued, WorkerGoto, Worker, TypeInv, WorkersOK, Unsent, At, Cell
<1>3. send \in Seq(Cell)
  BY DEF TypeInv, QueuesOK
<1>0. PICK e, end : e = worker[w].env /\ end = Len(send) + 1
  OBVIOUS
<1>4. /\ send'[end] = e /\ end \in Nat
      /\ \A i \in Waiting : send'[i] = send[i] /\ i < end
      /\ \A i \in Waiting' : i # end => i \in Waiting
      /\ end \in Waiting' <=> First(e)
  <2>1. e \in Cell /\ send' = Append(send, e) /\ life' = life
    BY <1>0, <1>1, <1>2
  <2>2. /\ send'[Len(send) + 1] = e /\ Len(send) \in Nat
        /\ \A i \in Waiting : send'[i] = send[i] /\ i < Len(send) + 1
        /\ \A i \in Waiting' : i # Len(send) + 1 => i \in Waiting
        /\ Len(send) + 1 \in Waiting' <=> First(e)
    BY <1>3, <2>1, WaitingGrows
  <2>3. QED
    BY <1>0, <2>2
<1>5. First(e) => w \in Numbering /\ worker[w].env.seq = e.seq
  BY <1>0, <1>2 DEF Numbering, First
<1>6. \A v \in Numbering' : v # w /\ v \in Numbering /\ worker'[v] = worker[v]
  BY <1>1, <1>2 DEF Numbering
<1>7. Writing' = Writing
  BY <1>1 DEF Writing, First
<1>8. \A i, n : Overtaken(n, i)' \subseteq Overtaken(n, i)
  <2>1. ASSUME NEW i PROVE Behind(i)' \subseteq Behind(i)
    <3>1. \A j \in Waiting' : i < j => send'[j].seq \in Behind(i)
      BY <1>4, <1>5 DEF Behind
    <3>2. \A v \in Numbering' : worker'[v].env.seq \in Behind(i)
      BY <1>6 DEF Behind
    <3>3. QED
      BY <3>1, <3>2 DEF Behind
  <2>2. QED
    BY <2>1 DEF Overtaken
<1>9. Few(Overtaken(e.seq, end)')
  <2>1. \A j \in Waiting' : ~(end < j)
    <3>1. \A j \in Waiting : j \in Nat
      BY PlacesTyped
    <3>2. QED
      BY <1>4, <3>1
  <2>2. Behind(end)' \subseteq {worker[v].env.seq : v \in Workers \ {w}}
    <3>1. \A v \in Numbering' : v \in Workers \ {w} /\ worker'[v].env = worker[v].env
      BY <1>6 DEF Numbering
    <3>2. QED
      BY <1>1, <2>1, <3>1 DEF Behind
  <2>3. Overtaken(e.seq, end)' \subseteq {worker[v].env.seq : v \in Workers \ {w}}
    BY <2>2 DEF Overtaken
  <2>4. QED
    BY <2>3, FewInOtherHands
<1>10. \A i \in Waiting' : Few(Overtaken(send[i].seq, i)')
  BY <1>4, <1>8, <1>9, FewerStayFew DEF LateInv
<1>11. \A l \in Writing' : Few(Overtaken(writer[l].msg.seq, 0)')
  BY <1>1, <1>7, <1>8, FewerStayFew DEF LateInv
<1>12. QED
  BY <1>1, <1>8, <1>10, <1>11, FewerStayFew DEF LateInv

\* The oldest message moves to a write pump, or is lost; what was behind it in
\* the channel is all that the channel then holds.
LEMMA LateTaken ==
    ASSUME TypeInv, LateInv, NEW l \in Lives, WriterTakes(l)
    PROVE  LateInv'
<1>1. /\ life' = life /\ UNCHANGED <<counter, worker, last>>
      /\ send # <<>> /\ send' = Tail(send)
  BY DEF WriterTakes
<1>2. \A k \in Lives : writer'[k].pc = "write" =>
        (k # l /\ writer'[k] = writer[k]) \/ (k = l /\ writer'[k].msg = Head(send))
  BY DEF WriterTakes, WriterGoto, TypeInv, PumpsOK
<1>3. /\ Head(send) = send[1]
      /\ \A i \in Waiting' : i \in Nat \ {0} /\ i + 1 \in Waiting /\ send'[i] = send[i + 1]
      /\ First(Head(send)) => 1 \in Waiting
  <2>1. send \in Seq(Cell)
    BY DEF TypeInv, QueuesOK
  <2>2. \A i \in Waiting' : i \in DOMAIN send'
    BY DEF Waiting
  <2>3. QED
    BY <1>1, <2>1, <2>2, WaitingShifts
<1>4. \A k \in Writing' : (k \in Writing /\ writer'[k] = writer[k])
                          \/ (1 \in Waiting /\ writer'[k].msg = send[1])
  BY <1>1, <1>2, <1>3 DEF Writing, First
<1>5. Numbering' = Numbering
  BY <1>1 DEF Numbering
<1>6. \A i, n : i \in Nat => Overtaken(n, i)' \subseteq Overtaken(n, i + 1)
                             /\ Overtaken(n, i)' \subseteq Overtaken(n, i)
  <2>1. ASSUME NEW i \in Nat
        PROVE  Behind(i)' \subseteq Behind(i + 1) /\ Behind(i)' \subseteq Behind(i)
    <3>1. \A j \in Nat : i < j => i + 1 < j + 1 /\ i < j + 1
      BY <2>1
    <3>2. \A j \in Waiting' : i < j => send'[j].seq \in Behind(i + 1) /\ send'[j].seq \in Behind(i)
      BY <1>3, <3>1 DEF Behind
    <3>3. \A v \in Numbering' : worker'[v].env.seq \in Behind(i + 1)
                                /\ worker'[v].env.seq \in Behind(i)
      BY <1>1, <1>5 DEF Behind
    <3>4. QED
      BY <3>2, <3>3 DEF Behind
  <2>2. QED
    BY <2>1 DEF Overtaken
<1>7. last' <= counter' /\ (last' # 0 => Few(Overtaken(last, 0)'))
  BY <1>1, <1>6, FewerStayFew DEF LateInv
<1>8. \A i \in Waiting' : Few(Overtaken(send[i].seq, i)')
  BY <1>3, <1>6, FewerStayFew DEF LateInv
<1>9. \A k \in Writing' : Few(Overtaken(writer[k].msg.seq, 0)')
  <2>1. ASSUME NEW n, Few(Overtaken(n, 0)) \/ Few(Overtaken(n, 1))
        PROVE  Few(Overtaken(n, 0)')
    <3>1. 0 \in Nat /\ 0 + 1 = 1
      OBVIOUS
    <3>2. Overtaken(n, 0)' \subseteq Overtaken(n, 0 + 1) /\ Overtaken(n, 0)' \subseteq Overtaken(n, 0)
      BY <1>6, <3>1
    <3>3. QED
      BY <2>1, <3>1, <3>2, FewerStayFew
  <2>2. ASSUME NEW k \in Writing' PROVE Few(Overtaken(writer[k].msg.seq, 0)')
    <3>1. PICK n : n = writer'[k].msg.seq
      OBVIOUS
    <3>2. Few(Overtaken(n, 0)) \/ Few(Overtaken(n, 1))
      <4>1. CASE k \in Writing /\ writer'[k] = writer[k]
        BY <3>1, <4>1 DEF LateInv
      <4>2. CASE 1 \in Waiting /\ writer'[k].msg = send[1]
        BY <3>1, <4>2 DEF LateInv
      <4>3. QED
        BY <1>4, <2>2, <4>1, <4>2
    <3>3. QED
      BY <2>1, <3>1, <3>2
  <2>3. QED
    BY <2>2
<1>10. QED
  BY <1>7, <1>8, <1>9 DEF LateInv

\* A write pump sends what it holds: that becomes the number received last.
LEMMA LateWritten ==
    ASSUME TypeInv, NumbersInv, LateInv, NEW l \in Lives, WriterWrites(l)
    PROVE  LateInv'
<1>1. /\ UNCHANGED <<life, counter, worker, send>>
      /\ writer[l].pc = "write"
      /\ last' = IF First(writer[l].msg) THEN writer[l].msg.seq ELSE last
  BY DEF WriterWrites, WriterGoto, First
<1>2. \A k \in Lives : writer'[k].pc = "write" => writer'[k] = writer[k]
  BY DEF WriterWrites, WriterGoto, TypeInv, PumpsOK
<1>3. /\ Waiting' = Waiting /\ Numbering' = Numbering
      /\ \A k \in Writing' : k \in Writing /\ writer'[k] = writer[k]
      /\ First(writer[l].msg) => l \in Writing
  BY <1>1, <1>2 DEF Waiting, Numbering, Writing, First
<1>4. \A i, n : Overtaken(n, i)' = Overtaken(n, i)
  BY <1>1, <1>3 DEF Overtaken, Behind
<1>5. last' <= counter' /\ (last' # 0 => Few(Overtaken(last, 0)'))
  <2>1. CASE First(writer[l].msg)
    BY <1>1, <1>3, <1>4, <2>1 DEF LateInv, NumbersInv, NumbersDrawn
  <2>2. CASE ~First(writer[l].msg)
    BY <1>1, <1>4, <2>2 DEF LateInv
  <2>3. QED
    BY <2>1, <2>2
<1>6. \A k \in Writing' : Few(Overtaken(writer[k].msg.seq, 0)')
  BY <1>3, <1>4 DEF LateInv
<1>7. \A i \in Waiting' : Few(Overtaken(send[i].seq, i)')
  BY <1>1, <1>3, <1>4 DEF LateInv
<1>8. QED
  BY <1>5, <1>6, <1>7 DEF LateInv

LEMMA LateKept ==
    TypeInv /\ NoneOfLaterLife /\ NumbersInv /\ LateInv /\ [Next]_vars => LateInv'
<1> SUFFICES ASSUME TypeInv, NoneOfLaterLife, NumbersInv, LateInv, [Next]_vars
             PROVE  LateInv'
  OBVIOUS
<1>1. CASE Connect
  <2>1. last' = 0 /\ counter' = 0
    BY <1>1 DEF Connect
  <2>2. QED
    BY <1>1, <2>1, NumbersRestart DEF LateInv
<1>2. CASE \E w \in Workers : Wrap(w) \/ SendQueued(w)
  BY <1>2, LateWrapped, LateQueued
<1>3. CASE \E l \in Lives : WriterTakes(l) \/ WriterWrites(l)
  BY <1>3, LateTaken, LateWritten
<1>4. CASE NoNewNumbers /\ last' = last
  <2>1. last' <= counter'
    BY <1>4, PlacesTyped, NumbersTyped DEF LateInv, NoNewNumbers
  <2>2. \A i : Behind(i)' \subseteq Behind(i)
    BY <1>4 DEF NoNewNumbers, Behind
  <2>3. \A i, n : Overtaken(n, i)' \subseteq Overtaken(n, i)
    BY <2>2 DEF Overtaken
  <2>4. /\ \A l \in Writing' : l \in Writing /\ writer'[l].msg = writer[l].msg
        /\ \A i \in Waiting' : i \in Waiting /\ send'[i] = send[i]
    BY <1>4 DEF NoNewNumbers
  <2>5. QED
    BY <1>4, <2>1, <2>3, <2>4, LateUndisturbed
<1>5. QED
  BY <1>1, <1>2, <1>3, <1>4, NumberSteps

\* The numbers are different, so there are as many late messages as numbers.
LEMMA LateAreCounted ==
    TypeInv /\ NumbersInv /\ LateInv => FewArriveLate
<1> SUFFICES ASSUME TypeInv, NumbersInv, LateInv, last # 0 PROVE FewArriveLate
  BY DEF FewArriveLate
<1> DEFINE queued == {i \in Waiting : send[i].seq < last}
           held   == {w \in Numbering : worker[w].env.seq < last}
           number == [i \in queued |-> send[i].seq]
           inHand == [w \in held |-> worker[w].env.seq]
           N == {number[i] : i \in queued}
           M == {inHand[w] : w \in held}
<1>1. IsFiniteSet(queued) /\ IsFiniteSet(held)
  <2>1. DOMAIN send = 1..Len(send) /\ Len(send) \in Nat
    BY LenProperties DEF TypeInv, QueuesOK
  <2>2. IsFiniteSet(1..Len(send))
    BY <2>1, FS_Interval
  <2>3. queued \in SUBSET (1..Len(send)) /\ held \in SUBSET Workers
    BY <2>1 DEF Waiting, Numbering
  <2>4. QED
    BY <2>2, <2>3, BoundsAssumption, FS_Subset
<1>2. IsFiniteSet(N) /\ Cardinality(N) = Cardinality(queued)
  <2>1. \A i, j \in queued : number[i] = number[j] => i = j
    BY DEF NumbersInv, NumbersUnique
  <2>2. number = [i \in queued |-> number[i]]
    OBVIOUS
  <2> HIDE DEF queued, number
  <2>3. QED
    BY <1>1, <2>1, <2>2, NumbersCountOwners
<1>3. IsFiniteSet(M) /\ Cardinality(M) = Cardinality(held)
  <2>1. \A v, w \in held : inHand[v] = inHand[w] => v = w
    BY DEF NumbersInv, NumbersUnique
  <2>2. inHand = [w \in held |-> inHand[w]]
    OBVIOUS
  <2> HIDE DEF held, inHand
  <2>3. QED
    BY <1>1, <2>1, <2>2, NumbersCountOwners
<1>4. N \cap M = {}
  <2>1. \A i \in queued, w \in held : send[i].seq # worker[w].env.seq
    BY DEF NumbersInv, NumbersUnique, NumbersOnTheWay
  <2>2. QED
    BY <2>1
<1>5. N \cup M \subseteq Overtaken(last, 0)
  <2>1. \A i \in queued : number[i] = send[i].seq /\ send[i].seq < last /\ i \in Waiting /\ 0 < i
    BY PlacesTyped
  <2>2. \A w \in held : inHand[w] = worker[w].env.seq /\ worker[w].env.seq < last /\ w \in Numbering
    OBVIOUS
  <2> HIDE DEF queued, held, number, inHand
  <2>3. N \subseteq Overtaken(last, 0)
    BY <2>1 DEF Overtaken, Behind
  <2>4. M \subseteq Overtaken(last, 0)
    BY <2>2 DEF Overtaken, Behind
  <2>5. QED
    BY <2>3, <2>4
<1>6. Few(N \cup M)
  <2> HIDE DEF N, M
  <2> QED
    BY <1>5, FewerStayFew DEF LateInv
<1>7. Cardinality(N \cup M) = Cardinality(queued) + Cardinality(held)
  <2> HIDE DEF N, M, queued, held
  <2>1. Cardinality(N \cup M) = Cardinality(N) + Cardinality(M) - Cardinality(N \cap M)
    BY <1>2, <1>3, FS_Union
  <2>2. Cardinality(N \cap M) = 0 /\ Cardinality(queued) \in Nat /\ Cardinality(held) \in Nat
    BY <1>1, <1>4, FS_EmptySet, FS_CardinalityType
  <2>3. QED
    BY <1>2, <1>3, <2>1, <2>2
<1>8. Cardinality(queued) + Cardinality(held) < Cardinality(Workers)
  BY <1>6, <1>7 DEF Few
<1>9. QED
  BY <1>8 DEF FewArriveLate

\* However many workers broadcast to the client at once, over however many
\* connections of the object: behind the number it received last, fewer lower
\* ones are still to come from channel and workers than there are workers; one
\* worker alone keeps the order (broadcast numbers in one step and sends in
\* another; writePump sends what it receives).
THEOREM FewNumbersAreLate == Spec => []FewArriveLate
<1>1. Spec => []NumbersInv
  BY NumbersInit, NumbersKept, LivesHold, TypesHold, PTL DEF Spec
<1>2. Spec => []LateInv
  BY <1>1, LateInit, LateKept, LivesHold, TypesHold, PTL DEF Spec
<1>3. QED
  BY <1>1, <1>2, LateAreCounted, TypesHold, PTL

-----------------------------------------------------------------------------
(***************************************************************************)
(* Strikes and successful sends.                                           *)
(***************************************************************************)
LEMMA StrikesInit == Init => StrikesSpanPendingResets
<1>1. ASSUME Init PROVE StrikesSpanPendingResets
  <2>1. {w \in Workers : worker[w].pc = "reset"} = {}
    BY <1>1 DEF Init
  <2>2. QED
    BY <1>1, <2>1, FS_EmptySet DEF Init, StrikesSpanPendingResets
<1>2. QED
  BY <1>1

\* A send that succeeds between strikes adds a worker that will clear them.
LEMMA StrikesKept ==
    TypeInv /\ StrikesSpanPendingResets /\ [Next]_vars => StrikesSpanPendingResets'
<1> SUFFICES ASSUME TypeInv, StrikesSpanPendingResets, [Next]_vars
             PROVE  StrikesSpanPendingResets'
  OBVIOUS
<1> DEFINE Pending == At({"reset"})
<1>1. StrikesSpanPendingResets <=> between <= Cardinality(Pending)
  BY DEF StrikesSpanPendingResets, At
<1>2. StrikesSpanPendingResets' <=> between' <= Cardinality(Pending')
  BY DEF StrikesSpanPendingResets, At
<1>3. between \in Nat /\ Cardinality(Pending) \in Nat /\ Cardinality(Pending') \in Nat
  <2>1. Pending \in SUBSET Workers /\ Pending' \in SUBSET Workers
    BY DEF At
  <2>2. QED
    BY <2>1, BoundsAssumption, FS_Subset, FS_CardinalityType DEF TypeInv, CountsOK
<1>4. ASSUME NEW w \in Workers, Worker(w)
      PROVE  between' <= Cardinality(Pending')
  <2>1. /\ worker[w].pc = "reset" /\ worker'[w].pc # "reset"
             => Cardinality(Pending') = Cardinality(Pending) - 1
        /\ worker[w].pc # "reset" /\ worker'[w].pc = "reset"
             => Cardinality(Pending') = Cardinality(Pending) + 1
        /\ (worker[w].pc = "reset" <=> worker'[w].pc = "reset") => Pending' = Pending
    <3>1. \A v \in Workers \ {w} : worker'[v] = worker[v]
      BY <1>4, WorkerSteps
    <3>2. /\ worker[w].pc \in {"reset"} /\ worker'[w].pc \notin {"reset"}
               => Cardinality(At({"reset"})') = Cardinality(At({"reset"})) - 1
          /\ worker[w].pc \notin {"reset"} /\ worker'[w].pc \in {"reset"}
               => Cardinality(At({"reset"})') = Cardinality(At({"reset"})) + 1
          /\ (worker[w].pc \in {"reset"} <=> worker'[w].pc \in {"reset"})
               => At({"reset"})' = At({"reset"})
      BY <3>1, AtMoves
    <3>3. QED
      BY <3>2
  <2> HIDE DEF Pending
  <2>2. CASE SendQueued(w)
    <3>1. worker[w].pc = "send" /\ worker'[w].pc = "reset"
      BY <1>4, <2>2, WorkerSteps DEF SendQueued, WorkerGoto
    <3>2. between' = 0 \/ between' = between + 1
      BY <2>2 DEF SendQueued
    <3>3. QED
      BY <1>1, <1>3, <2>1, <3>1, <3>2
  <2>3. CASE ResetStrikes(w)
    BY <1>3, <2>3 DEF ResetStrikes
  <2>4. CASE ~SendQueued(w) /\ ~ResetStrikes(w)
    <3>1. worker[w].pc # "reset" /\ worker'[w].pc # "reset"
      BY <1>4, <2>4, WorkerSteps
    <3>2. between' = between
      BY <1>4, <2>4 DEF Worker, Lookup, Wrap, WrapMalformed, Buffer, SendRefused, Disconnect
    <3>3. QED
      BY <1>1, <2>1, <3>1, <3>2
  <2>5. QED
    BY <2>2, <2>3, <2>4
<1>5. CASE Connect /\ UNCHANGED <<worker, published>>
  <2>1. between' = 0
    BY <1>5 DEF Connect
  <2> HIDE DEF Pending
  <2>2. QED
    BY <1>2, <1>3, <2>1
<1>6. CASE UNCHANGED <<worker, published, counter, strikes, between>>
  <2>1. Pending' = Pending /\ between' = between
    BY <1>6 DEF At
  <2> HIDE DEF Pending
  <2>2. QED
    BY <1>1, <1>2, <2>1
<1>7. QED
  BY <1>2, <1>4, <1>5, <1>6, OthersLeaveWorkers

\* However many workers send to the client at once, over however many
\* connections of the object: the sends that succeed between the strikes that
\* are counted together are no more than the workers that have yet to clear
\* them (broadcast sends in one step and clears sendAttempts in another).
THEOREM StrikesSpanPending == Spec => []StrikesSpanPendingResets
  BY StrikesInit, StrikesKept, TypesHold, PTL DEF Spec

-----------------------------------------------------------------------------
(***************************************************************************)
(* Ranges miss few entries.  What is proved of the order in the channel    *)
(* holds of the order in the replay buffer too: the entries of this life   *)
(* that come after another one and have a lower number are fewer than the  *)
(* workers.                                                                *)
(***************************************************************************)
Entries == {i \in DOMAIN replay : replay[i].life = life}

\* Workers that have numbered an envelope of this life and not yet buffered it.
Buffering == {w \in Numbering : worker[w].pc = "buffer"}

\* The numbers of this life that come after place i of the buffer.
After(i) == {replay[j].seq : j \in {k \in Entries : i < k}}
              \cup {worker[w].env.seq : w \in Buffering}

\* Those of them that n has overtaken.
Outrun(n, i) == {m \in After(i) : m < n}

EntriesInv ==
    /\ \A i \in Entries : replay[i].seq <= counter
    /\ \A i, j \in Entries : replay[i].seq = replay[j].seq => i = j
    /\ \A i \in Entries, w \in Buffering : replay[i].seq # worker[w].env.seq
    /\ \A i \in Entries : Few(Outrun(replay[i].seq, i))

LEMMA EntriesTyped ==
    ASSUME TypeInv
    PROVE  /\ Len(replay) \in Nat /\ DOMAIN replay = 1..Len(replay)
           /\ \A i \in DOMAIN replay : replay[i].seq \in Nat
           /\ Numbers \subseteq Nat
<1>1. replay \in Seq(Envelopes)
  BY DEF TypeInv, QueuesOK
<1>2. \A m \in Envelopes : m.seq \in Nat
  BY BoundsAssumption DEF Envelopes, Numbers
<1>3. Numbers \subseteq Nat
  BY BoundsAssumption DEF Numbers
<1>4. QED
  BY <1>1, <1>2, <1>3, LenProperties

\* Add puts the new entry at the end; those before it stay or move up by one.
LEMMA ReplayAddShifts ==
    ASSUME NEW q \in Seq(Envelopes), Len(q) <= ReplaySize, NEW e \in Envelopes
    PROVE  \E end \in Nat \ {0}, by \in {0, 1} :
             /\ DOMAIN ReplayAdd(q, e) = 1..end
             /\ ReplayAdd(q, e)[end] = e
             /\ \A i \in 1..(end - 1) : /\ i + by \in DOMAIN q
                                        /\ ReplayAdd(q, e)[i] = q[i + by]
<1>1. CASE ReplayAdd(q, e) = Append(q, e)
  <2>1. /\ Len(q) \in Nat /\ DOMAIN q = 1..Len(q)
        /\ DOMAIN ReplayAdd(q, e) = 1..(Len(q) + 1)
        /\ \A i \in 1..Len(q) : ReplayAdd(q, e)[i] = q[i]
        /\ ReplayAdd(q, e)[Len(q) + 1] = e
    BY <1>1, AppendPlaces
  <2>2. PICK end : end = Len(q) + 1
    OBVIOUS
  <2>3. end \in Nat \ {0} /\ end - 1 = Len(q)
    BY <2>1, <2>2
  <2>4. \A i \in 1..(end - 1) : i + 0 \in DOMAIN q /\ ReplayAdd(q, e)[i] = q[i + 0]
    BY <2>1, <2>3
  <2>5. DOMAIN ReplayAdd(q, e) = 1..end /\ ReplayAdd(q, e)[end] = e
    BY <2>1, <2>2
  <2>6. QED
    BY <2>3, <2>4, <2>5
<1>2. CASE ReplayAdd(q, e) = Append(Tail(q), e) /\ q # <<>>
  <2>1. /\ Tail(q) \in Seq(Envelopes) /\ Len(q) \in Nat \ {0} /\ DOMAIN q = 1..Len(q)
        /\ Len(Tail(q)) = Len(q) - 1
        /\ \A i \in 1..(Len(q) - 1) : Tail(q)[i] = q[i + 1] /\ i + 1 \in 1..Len(q)
    BY <1>2, TailPlaces
  <2>2. /\ DOMAIN ReplayAdd(q, e) = 1..(Len(Tail(q)) + 1)
        /\ \A i \in 1..Len(Tail(q)) : ReplayAdd(q, e)[i] = Tail(q)[i]
        /\ ReplayAdd(q, e)[Len(Tail(q)) + 1] = e
    BY <1>2, <2>1, AppendPlaces
  <2>3. PICK end : end = Len(q)
    OBVIOUS
  <2>4. end \in Nat \ {0} /\ Len(Tail(q)) = end - 1 /\ Len(Tail(q)) + 1 = end
    BY <2>1, <2>3
  <2>5. \A i \in 1..(end - 1) : i + 1 \in DOMAIN q /\ ReplayAdd(q, e)[i] = q[i + 1]
    BY <2>1, <2>2, <2>3, <2>4
  <2>6. DOMAIN ReplayAdd(q, e) = 1..end /\ ReplayAdd(q, e)[end] = e
    BY <2>2, <2>4
  <2>7. QED
    BY <2>4, <2>5, <2>6
<1>3. QED
  BY <1>1, <1>2, ReplayAddPlaces

LEMMA EntriesInit == Init => EntriesInv
<1>1. ASSUME Init PROVE EntriesInv
  <2>1. Entries = {}
    BY <1>1, EmptySeq DEF Init, Entries
  <2>2. QED
    BY <2>1 DEF EntriesInv
<1>2. QED
  BY <1>1

\* A step that buffers nothing and draws no number for this life.
LEMMA EntriesUndisturbed ==
    ASSUME TypeInv, EntriesInv, UNCHANGED <<life, replay>>,
           counter' = counter \/ counter' = counter + 1,
           \A w \in Buffering' : w \in Buffering /\ worker'[w].env = worker[w].env
    PROVE  EntriesInv'
<1>1. Entries' = Entries /\ \A i \in Entries : replay[i].seq \in Nat
  BY EntriesTyped DEF Entries
<1>2. counter \in Nat
  BY DEF TypeInv, CountsOK
<1>3. \A i, n : Outrun(n, i)' \subseteq Outrun(n, i)
  BY <1>1 DEF Outrun, After
<1>4. \A i \in Entries' : Few(Outrun(replay[i].seq, i)')
  BY <1>1, <1>3, FewerStayFew DEF EntriesInv
<1>5. QED
  BY <1>1, <1>2, <1>4 DEF EntriesInv

\* seqGen.Next(): the new number is greater than those of all entries.
LEMMA EntriesWrapped ==
    ASSUME TypeInv, EntriesInv, NEW w \in Workers, Wrap(w)
    PROVE  EntriesInv'
<1>1. life' = life /\ counter' = counter + 1 /\ UNCHANGED replay
  BY DEF Wrap
<1>2. /\ worker'[w].env = [worker[w].env EXCEPT !.seq = counter + 1]
      /\ worker[w].env \in Envelopes
      /\ \A v \in Workers \ {w} : worker'[v] = worker[v]
  BY WorkerSteps DEF Wrap, WorkerGoto, Worker, TypeInv, WorkersOK, Unsent, At
<1>3. worker'[w].env.seq = counter + 1
  BY <1>2 DEF Envelopes
<1>4. Entries' = Entries /\ (\A i \in Entries : replay[i].seq \in Nat) /\ counter \in Nat
  BY <1>1, EntriesTyped DEF Entries, TypeInv, CountsOK
<1>5. \A v \in Buffering' \ {w} : v \in Buffering /\ worker'[v] = worker[v]
  BY <1>1, <1>2 DEF Buffering, Numbering
<1>6. ASSUME NEW n \in Nat, n <= counter, NEW i
      PROVE  Outrun(n, i)' \subseteq Outrun(n, i)
  <2>1. ~(counter + 1 < n)
    BY <1>4, <1>6
  <2>2. After(i)' \subseteq After(i) \cup {counter + 1}
    BY <1>1, <1>3, <1>4, <1>5 DEF After
  <2>3. QED
    BY <2>1, <2>2 DEF Outrun
<1>7. \A i \in Entries' : Few(Outrun(replay[i].seq, i)')
  BY <1>1, <1>4, <1>6, FewerStayFew DEF EntriesInv
<1>8. \A i \in Entries : replay[i].seq <= counter + 1 /\ replay[i].seq # counter + 1
  BY <1>4 DEF EntriesInv
<1>9. \A i \in Entries', v \in Buffering' : replay'[i].seq # worker'[v].env.seq
  BY <1>1, <1>3, <1>4, <1>5, <1>8 DEF EntriesInv
<1>10. QED
  BY <1>1, <1>4, <1>7, <1>8, <1>9 DEF EntriesInv

\* ReplayBuffer.Add: only what other workers hold can come after the new entry;
\* after the entries before it the number has been all along.
LEMMA EntriesAdded ==
    ASSUME TypeInv, NumbersInv, EntriesInv, NEW w \in Workers, Buffer(w)
    PROVE  EntriesInv'
<1>1. /\ UNCHANGED <<life, counter>> /\ replay' = ReplayAdd(replay, worker[w].env)
      /\ worker[w].pc = "buffer" /\ worker'[w].pc = "send" /\ worker[w].env \in Envelopes
      /\ \A v \in Workers \ {w} : worker'[v] = worker[v]
  BY WorkerSteps DEF Buffer, WorkerGoto, Worker, TypeInv, WorkersOK, Unsent, At
<1>2. PICK e : e = worker[w].env
  OBVIOUS
<1>3. PICK end \in Nat \ {0}, by \in {0, 1} :
        /\ DOMAIN replay' = 1..end /\ replay'[end] = e
        /\ \A i \in 1..(end - 1) : i + by \in DOMAIN replay /\ replay'[i] = replay[i + by]
  <2>1. replay \in Seq(Envelopes) /\ Len(replay) <= ReplaySize /\ e \in Envelopes
        /\ replay' = ReplayAdd(replay, e)
    BY <1>1, <1>2 DEF TypeInv, QueuesOK
  <2>2. \E n \in Nat \ {0}, d \in {0, 1} :
          /\ DOMAIN ReplayAdd(replay, e) = 1..n
          /\ ReplayAdd(replay, e)[n] = e
          /\ \A i \in 1..(n - 1) : /\ i + d \in DOMAIN replay
                                   /\ ReplayAdd(replay, e)[i] = replay[i + d]
    BY <2>1, ReplayAddShifts
  <2>3. QED
    BY <2>1, <2>2
<1>4. e.life = life => w \in Buffering /\ worker[w].env.seq = e.seq
  BY <1>1, <1>2 DEF Buffering, Numbering
<1>5. \A i \in Entries' : \/ i = end /\ e.life = life
                          \/ /\ i \in Nat /\ i < end /\ i + by \in Entries
                             /\ replay'[i] = replay[i + by]
  <2>1. \A i \in 1..end : i = end \/ (i \in 1..(end - 1) /\ i \in Nat /\ i < end)
    OBVIOUS
  <2>2. QED
    BY <1>1, <1>3, <2>1 DEF Entries
<1>6. \A v \in Buffering' : v # w /\ v \in Buffering /\ worker'[v] = worker[v]
  BY <1>1 DEF Buffering, Numbering
<1>7. \A i \in Entries' : replay'[i].seq <= counter'
  <2>1. e.life = life => e.seq <= counter
    BY <1>4 DEF Buffering, NumbersInv, NumbersDrawn
  <2>2. QED
    BY <1>1, <1>3, <1>5, <2>1 DEF EntriesInv
<1>8. e.life = life => \A i \in Entries : replay[i].seq # e.seq
  BY <1>4 DEF EntriesInv
<1>9. \A i, j \in Entries' : replay'[i].seq = replay'[j].seq => i = j
  <2>1. \A i, j \in Nat : i + by = j + by => i = j
    OBVIOUS
  <2>2. ASSUME NEW i \in Entries', NEW j \in Entries', replay'[i].seq = replay'[j].seq
        PROVE  i = j
    <3>1. CASE i = end \/ j = end
      BY <1>3, <1>5, <1>8, <2>2, <3>1
    <3>2. CASE i # end /\ j # end
      BY <1>5, <2>1, <2>2, <3>2 DEF EntriesInv
    <3>3. QED
      BY <3>1, <3>2
  <2>3. QED
    BY <2>2
<1>10. \A i \in Entries', v \in Buffering' : replay'[i].seq # worker'[v].env.seq
  <2>1. e.life = life => \A v \in Buffering' : worker[v].env.seq # e.seq
    <3>1. ASSUME e.life = life, NEW v \in Buffering' PROVE worker[v].env.seq # e.seq
      <4>1. w \in Numbering /\ v \in Numbering \ {w} /\ worker[w].env.seq = e.seq
        BY <1>4, <1>6, <3>1 DEF Buffering
      <4>2. QED
        BY <4>1 DEF NumbersInv, NumbersUnique
    <3>2. QED
      BY <3>1
  <2>2. ASSUME NEW i \in Entries', NEW v \in Buffering'
        PROVE  replay'[i].seq # worker'[v].env.seq
    <3>1. v \in Buffering /\ worker'[v].env.seq = worker[v].env.seq
      BY <1>6
    <3>2. CASE i = end /\ e.life = life
      BY <1>3, <2>1, <3>1, <3>2
    <3>3. CASE i + by \in Entries /\ replay'[i] = replay[i + by]
      BY <3>1, <3>3 DEF EntriesInv
    <3>4. QED
      BY <1>5, <3>2, <3>3
  <2>3. QED
    BY <2>2
<1>11. ASSUME NEW i \in Nat, NEW n PROVE Outrun(n, i)' \subseteq Outrun(n, i + by)
  <2>1. \A j \in Nat : i < j => i + by < j + by
    OBVIOUS
  <2>2. \A j \in Entries' : i < j => replay'[j].seq \in After(i + by)
    BY <1>3, <1>4, <1>5, <2>1 DEF After
  <2>3. \A v \in Buffering' : worker'[v].env.seq \in After(i + by)
    BY <1>6 DEF After
  <2>4. QED
    BY <2>2, <2>3 DEF Outrun, After
<1>12. \A n : Few(Outrun(n, end)')
  <2>1. \A j \in Entries' : ~(end < j)
    BY <1>3, <1>5
  <2>2. \A v \in Buffering' : v \in Workers \ {w} /\ worker'[v].env = worker[v].env
    BY <1>6 DEF Buffering, Numbering
  <2>3. After(end)' \subseteq {worker[v].env.seq : v \in Workers \ {w}}
    BY <2>1, <2>2 DEF After
  <2>4. ASSUME NEW n PROVE Few(Outrun(n, end)')
    <3>1. Outrun(n, end)' \subseteq {worker[v].env.seq : v \in Workers \ {w}}
      BY <2>3 DEF Outrun
    <3>2. QED
      BY <3>1, FewInOtherHands
  <2>5. QED
    BY <2>4
<1>13. \A i \in Entries' : Few(Outrun(replay[i].seq, i)')
  <2>1. ASSUME NEW i \in Entries', NEW n, n = replay'[i].seq PROVE Few(Outrun(n, i)')
    <3>1. CASE i = end
      BY <1>12, <3>1
    <3>2. CASE i # end
      <4>1. i \in Nat /\ i + by \in Entries /\ n = replay[i + by].seq
        BY <1>5, <2>1, <3>2
      <4>2. Few(Outrun(n, i + by))
        BY <4>1 DEF EntriesInv
      <4>3. QED
        BY <1>11, <4>1, <4>2, FewerStayFew
    <3>3. QED
      BY <3>1, <3>2
  <2>2. QED
    BY <2>1
<1>14. QED
  BY <1>7, <1>9, <1>10, <1>13 DEF EntriesInv

LEMMA EntriesKept ==
    TypeInv /\ NumbersInv /\ EntriesInv /\ [Next]_vars => EntriesInv'
<1> SUFFICES ASSUME TypeInv, NumbersInv, EntriesInv, [Next]_vars PROVE EntriesInv'
  OBVIOUS
<1>1. CASE Connect \/ ReaderPuts
  <2>1. replay' = <<>>
    BY <1>1 DEF Connect, ReaderPuts
  <2>2. Entries' = {}
    BY <2>1, EmptySeq DEF Entries
  <2>3. QED
    BY <2>2 DEF EntriesInv
<1>2. ASSUME UNCHANGED <<life, counter, worker, replay>> PROVE EntriesInv'
  BY <1>2, EntriesUndisturbed DEF Buffering, Numbering
<1>3. CASE \/ Subscribe \/ SockDrops \/ ReaderUnindexes \/ ReadReplay \/ ReplaySend
           \/ ReplayTimesOut \/ ReadControl \/ Terminated \/ UNCHANGED vars
  BY <1>2, <1>3 DEF Subscribe, SockDrops, ReaderUnindexes, ReadReplay, ReplaySend,
     ReplayTimesOut, ReadControl, Terminated, vars
<1>4. CASE \E l \in Lives : Writer(l)
  BY <1>2, <1>4 DEF Writer, WriterTakes, WriterWrites, WriterFails, WriterExits
<1>5. ASSUME NEW w \in Workers, Worker(w), ~Wrap(w), ~Buffer(w) PROVE EntriesInv'
  <2>1. UNCHANGED <<life, replay>> /\ (counter' = counter \/ counter' = counter + 1)
    BY <1>5 DEF Worker, Lookup, WrapMalformed, SendQueued, ResetStrikes, SendRefused,
       Disconnect
  <2>2. /\ \A v \in Workers \ {w} : worker'[v] = worker[v]
        /\ worker'[w].pc # "buffer"
    BY <1>5, WorkerSteps
  <2>3. \A v \in Buffering' : v \in Buffering /\ worker'[v].env = worker[v].env
    BY <2>1, <2>2 DEF Buffering, Numbering
  <2>4. QED
    BY <2>1, <2>3, EntriesUndisturbed
<1>6. CASE \E w \in Workers : Wrap(w) \/ Buffer(w)
  BY <1>6, EntriesWrapped, EntriesAdded
<1>7. QED
  BY <1>1, <1>3, <1>4, <1>5, <1>6 DEF Next, Reader

\* The first entry beyond the range has outrun all that the request misses.
LEMMA MissedAreCounted == TypeInv /\ EntriesInv => RangeMissesFew
<1> SUFFICES ASSUME TypeInv, EntriesInv, \A i \in DOMAIN replay : replay[i].life = life,
                    NEW from \in Numbers, NEW to \in Numbers, Missed(from, to) # {}
             PROVE  Cardinality(Missed(from, to)) < Cardinality(Workers)
  BY DEF RangeMissesFew
<1> DEFINE M == Missed(from, to)
           beyond == {j \in DOMAIN replay : replay[j].seq > to}
           number == [i \in M |-> replay[i].seq]
           N == {number[i] : i \in M}
<1>1. /\ DOMAIN replay \subseteq Nat /\ IsFiniteSet(DOMAIN replay) /\ Entries = DOMAIN replay
      /\ \A i \in DOMAIN replay : replay[i].seq \in Nat
      /\ from \in Nat /\ to \in Nat
  <2>1. Len(replay) \in Nat /\ DOMAIN replay = 1..Len(replay)
    BY EntriesTyped
  <2>2. IsFiniteSet(1..Len(replay))
    BY <2>1, FS_Interval
  <2>3. QED
    BY <2>1, <2>2, EntriesTyped DEF Entries
<1>2. \A i \in M : /\ i \in DOMAIN replay /\ replay[i].seq <= to
                   /\ \E j \in 1..i : j \in DOMAIN replay /\ replay[j].seq > to
  <2>1. ASSUME NEW i \in M PROVE /\ i \in DOMAIN replay /\ replay[i].seq \in from..to
                                 /\ i \notin UpTo(replay, to)
    <3>1. i \in DOMAIN replay /\ replay[i].seq \in from..to /\ i \notin DOMAIN GetRange(replay, from, to)
      BY DEF Missed
    <3>2. DOMAIN GetRange(replay, from, to) = {k \in UpTo(replay, to) : replay[k].seq >= from}
      BY DEF GetRange, Restrict
    <3>3. replay[i].seq >= from
      BY <1>1, <3>1
    <3>4. QED
      BY <3>1, <3>2, <3>3
  <2>2. ASSUME NEW i \in DOMAIN replay, NEW j \in 1..i PROVE j \in DOMAIN replay
    BY EntriesTyped
  <2>3. QED
    BY <1>1, <2>1, <2>2 DEF UpTo
<1>3. PICK first \in beyond : \A j \in beyond : ~(j < first)
  <2>1. beyond # {} /\ beyond \subseteq Nat
    BY <1>1, <1>2
  <2> HIDE DEF beyond
  <2>2. PICK j \in beyond : \A k \in beyond : <<k, j>> \notin OpToRel(<, Nat)
    BY <2>1, NatLessThanWellFounded, WFMin
  <2>3. QED
    BY <2>1, <2>2 DEF OpToRel
<1>4. \A i \in M : first < i /\ replay[i].seq < replay[first].seq /\ i \in Entries
  <2>1. ASSUME NEW i \in M PROVE first < i /\ replay[i].seq < replay[first].seq
    <3>1. PICK j \in 1..i : j \in DOMAIN replay /\ replay[j].seq > to
      BY <1>2
    <3>2. first \in Nat /\ i \in Nat /\ j \in Nat /\ j <= i /\ ~(j < first)
      BY <1>1, <1>2, <1>3, <3>1
    <3>3. replay[i].seq < replay[first].seq
      BY <1>1, <1>2, <1>3
    <3>4. i # first
      BY <1>1, <3>3
    <3>5. QED
      BY <3>2, <3>3, <3>4
  <2>2. QED
    BY <1>1, <1>2, <2>1
<1>5. IsFiniteSet(M)
  BY <1>1, <1>2, FS_Subset
<1>6. IsFiniteSet(N) /\ Cardinality(N) = Cardinality(M)
  <2>1. \A i, j \in M : number[i] = number[j] => i = j
    BY <1>4 DEF EntriesInv
  <2>2. number = [i \in M |-> number[i]]
    OBVIOUS
  <2> HIDE DEF M, number
  <2>3. QED
    BY <1>5, <2>1, <2>2, NumbersCountOwners
<1>7. Few(N)
  <2>1. \A i \in M : number[i] = replay[i].seq
    OBVIOUS
  <2> HIDE DEF M, number
  <2>2. N \subseteq Outrun(replay[first].seq, first)
    BY <1>4, <2>1 DEF Outrun, After
  <2>3. first \in Entries
    BY <1>1, <1>3
  <2> HIDE DEF N
  <2>4. QED
    BY <2>2, <2>3, FewerStayFew DEF EntriesInv
<1>8. QED
  BY <1>6, <1>7 DEF Few

\* However many workers buffer at once, over however many connections of the
\* object: while the buffer holds entries of the present connection only, a range
\* request misses fewer of them than there are workers, and none where one
\* worker runs (GetRange stops at the first entry beyond the range).
THEOREM RangesMissFew == Spec => []RangeMissesFew
<1>1. Spec => []NumbersInv
  BY NumbersInit, NumbersKept, LivesHold, TypesHold, PTL DEF Spec
<1>2. Spec => []EntriesInv
  BY <1>1, EntriesInit, EntriesKept, TypesHold, PTL DEF Spec
<1>3. QED
  BY <1>2, MissedAreCounted, TypesHold, PTL
=============================================================================
