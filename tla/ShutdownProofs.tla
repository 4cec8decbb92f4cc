--------------------------- MODULE ShutdownProofs ---------------------------
(***************************************************************************)
(* Proofs about Shutdown, for any number of requests, workers and          *)
(* monitors, any size of the queue and any number of messages.             *)
(***************************************************************************)
EXTENDS Shutdown, FiniteSetTheorems, TLAPS

USE DEF flagVars, pastVars, mainVars, connVars, ingestVars, workVars, Others

\* The steps of the three parts, as Next has them.
Intake == CallbackStarts \/ CallbackReturns
PoolStep(w) == Work(w) \/ WorkerExits(w)

-----------------------------------------------------------------------------
(***************************************************************************)
(* The messages received cover those acknowledged, queued and being        *)
(* broadcast.  That is inductive with the one the callback holds; and it   *)
(* is what bounds acked, so that the types are proved together with it.    *)
(***************************************************************************)
Broadcasting == {w \in Workers : worker[w].pc = "broadcast"}
Held == IF callback THEN 1 ELSE 0

Covered == acked + queue + Cardinality(Broadcasting) + Held <= received

\* The workers are finitely many, and so are those that broadcast.
LEMMA BroadcastingFinite ==
    IsFiniteSet(Broadcasting) /\ Cardinality(Broadcasting) \in Nat
  BY ShutdownAssumption, FS_Subset, FS_CardinalityType DEF Broadcasting

\* Only the worker that takes a step changes how many broadcast.
OnlyMoves(w) == \A v \in Workers \ {w} : worker'[v] = worker[v]

\* A broadcast begins.
LEMMA OneMoreBroadcast ==
    ASSUME NEW w \in Workers, OnlyMoves(w),
           worker[w].pc # "broadcast", worker'[w].pc = "broadcast"
    PROVE  Cardinality(Broadcasting)' = Cardinality(Broadcasting) + 1
<1>1. Broadcasting' = Broadcasting \cup {w} /\ w \notin Broadcasting
  BY DEF Broadcasting, OnlyMoves
<1>2. Cardinality(Broadcasting \cup {w}) = Cardinality(Broadcasting) + 1
  BY <1>1, BroadcastingFinite, FS_AddElement
<1>3. QED
  BY <1>1, <1>2

\* A broadcast is over.
LEMMA OneBroadcastLess ==
    ASSUME NEW w \in Workers, OnlyMoves(w),
           worker[w].pc = "broadcast", worker'[w].pc # "broadcast"
    PROVE  /\ Cardinality(Broadcasting) >= 1
           /\ Cardinality(Broadcasting)' = Cardinality(Broadcasting) - 1
<1>1. Broadcasting' = Broadcasting \ {w} /\ w \in Broadcasting
  BY DEF Broadcasting, OnlyMoves
<1>2. Cardinality(Broadcasting) # 0
  BY <1>1, BroadcastingFinite, FS_EmptySet
<1>3. Cardinality(Broadcasting \ {w}) = Cardinality(Broadcasting) - 1
  BY <1>1, BroadcastingFinite, FS_RemoveElement
<1>4. QED
  BY <1>1, <1>2, <1>3, BroadcastingFinite

\* Any other step leaves them.
LEMMA SameBroadcasts ==
    ASSUME NEW w \in Workers, OnlyMoves(w),
           worker[w].pc = "broadcast" <=> worker'[w].pc = "broadcast"
    PROVE  Broadcasting' = Broadcasting
  BY DEF Broadcasting, OnlyMoves

\* The initial state is well typed, and nothing has been received.
LEMMA TypeInit == Init => TypeOK /\ Covered
<1> SUFFICES ASSUME Init PROVE TypeOK /\ Covered
  OBVIOUS
<1>1. TypeOK
  <2>1. {shuttingDown, natsOpen, ctxDone, queueClosed, callback, panicked}
          \subseteq BOOLEAN
    BY DEF Init
  <2>2. worker \in [Workers -> [pc : {"idle", "broadcast", "nil", "exited"},
                                todo : SUBSET Conns]]
    BY DEF Init, Idle
  <2>3. received \in 0..MaxTasks /\ queue \in 0..QueueSize /\ acked \in 0..MaxTasks
    BY ShutdownAssumption DEF Init
  <2>4. /\ conn \in [Conns -> {"none", "refused", "accepted", "stored", "open",
                              "unlisted", "gone"}]
        /\ sock \in [Conns -> BOOLEAN] /\ closed \in [Conns -> BOOLEAN]
    BY DEF Init
  <2>5. QED
    BY <2>1, <2>2, <2>3, <2>4 DEF Init, TypeOK
<1>2. Broadcasting = {}
  BY DEF Init, Broadcasting, Idle
<1>3. Cardinality(Broadcasting) = 0
  BY <1>2, FS_EmptySet
<1>4. QED
  BY <1>1, <1>3 DEF Init, Covered, Held

\* A step that leaves the callback and the pool alone, up to who is served,
\* leaves the count.
LEMMA CoveredQuiet ==
    ASSUME Covered, UNCHANGED <<callback, received, acked, queue, Broadcasting>>
    PROVE  Covered'
  BY DEF Covered, Held

\* The main goroutine keeps the types, and touches nothing that is counted.
LEMMA TypeMain == TypeOK /\ Covered /\ (Signal \/ Main) => TypeOK' /\ Covered'
<1> SUFFICES ASSUME TypeOK, Covered, Signal \/ Main PROVE TypeOK' /\ Covered'
  OBVIOUS
<1> USE DEF Goto
<1>1. UNCHANGED <<ingestVars, workVars, conn, sock, background, panicked>>
  BY DEF Signal, Main, CloseListener, CloseNATS, Drained, GraceExpires, ForceClose,
         ForceEnds, Cancel, CloseQueue, PoolStopped, Finish
<1>2. Covered'
  BY <1>1, CoveredQuiet DEF Broadcasting
<1>3. closed' \in [Conns -> BOOLEAN]
  BY DEF TypeOK, Signal, Main, CloseListener, CloseNATS, Drained, GraceExpires,
         ForceClose, ForceEnds, Cancel, CloseQueue, PoolStopped, Finish
<1>4. forced' \subseteq Conns /\ late' \subseteq Conns
  BY DEF TypeOK, Signal, Main, CloseListener, CloseNATS, Drained, GraceExpires,
         ForceClose, ForceEnds, Cancel, CloseQueue, PoolStopped, Finish
<1>5. {shuttingDown', natsOpen', ctxDone', queueClosed', graceOver'} \subseteq BOOLEAN
  BY DEF TypeOK, Signal, Main, CloseListener, CloseNATS, Drained, GraceExpires,
         ForceClose, ForceEnds, Cancel, CloseQueue, PoolStopped, Finish
<1>6. pc' \in {"serving", "listener", "nats", "drain", "force", "cancel", "stop",
               "waitPool", "waitAll", "done", "crashed"}
  BY DEF TypeOK, Signal, Main, CloseListener, CloseNATS, Drained, GraceExpires,
         ForceClose, ForceEnds, Cancel, CloseQueue, PoolStopped, Finish
<1>7. QED
  BY <1>1, <1>2, <1>3, <1>4, <1>5, <1>6 DEF TypeOK

\* So do the connections.
LEMMA TypeConnection ==
    ASSUME TypeOK, Covered, NEW c \in Conns, Connection(c)
    PROVE  TypeOK' /\ Covered'
<1> USE DEF ConnGoto
<1>1. UNCHANGED <<ingestVars, workVars, flagVars, forced, pastVars, background, closed>>
  BY DEF Connection, Refuse, Accept, Store, StartPumps, SocketEnds, WriterSeesClosed,
         ReaderSendsOnClosed, Unregister, Uncount
<1>2. Covered'
  BY <1>1, CoveredQuiet DEF Broadcasting
<1>3. conn' \in [Conns -> {"none", "refused", "accepted", "stored", "open",
                           "unlisted", "gone"}]
  BY DEF TypeOK, Connection, Refuse, Accept, Store, StartPumps, SocketEnds,
         WriterSeesClosed, ReaderSendsOnClosed, Unregister, Uncount
<1>4. sock' \in [Conns -> BOOLEAN]
  BY DEF TypeOK, Connection, Refuse, Accept, Store, StartPumps, SocketEnds,
         WriterSeesClosed, ReaderSendsOnClosed, Unregister, Uncount
<1>5. pc' \in {pc, "crashed"} /\ panicked' \in BOOLEAN
  BY DEF TypeOK, Connection, Refuse, Accept, Store, StartPumps, SocketEnds,
         WriterSeesClosed, ReaderSendsOnClosed, Unregister, Uncount
<1>6. QED
  BY <1>1, <1>2, <1>3, <1>4, <1>5 DEF TypeOK

\* A message the callback receives is held until it is queued or given up.
LEMMA TypeIntake == TypeOK /\ Covered /\ Intake => TypeOK' /\ Covered'
<1> SUFFICES ASSUME TypeOK, Covered, Intake PROVE TypeOK' /\ Covered'
  OBVIOUS
<1>1. Broadcasting' = Broadcasting /\ UNCHANGED <<worker, acked, mainVars, connVars,
                                                  background, panicked>>
  BY DEF Intake, CallbackStarts, CallbackReturns, Broadcasting
<1>2. CASE CallbackStarts
  <2>1. received' \in 0..MaxTasks
    BY <1>2, ShutdownAssumption DEF TypeOK, CallbackStarts
  <2>2. Covered'
    BY <1>1, <1>2, BroadcastingFinite, ShutdownAssumption
       DEF TypeOK, CallbackStarts, Covered, Held
  <2>3. QED
    BY <1>1, <1>2, <2>1, <2>2 DEF TypeOK, CallbackStarts
<1>3. CASE CallbackReturns
  <2>1. queue' \in 0..QueueSize /\ queue' <= queue + 1
    BY <1>3, ShutdownAssumption DEF TypeOK, CallbackReturns
  <2>2. Covered'
    BY <1>1, <1>3, <2>1, BroadcastingFinite, ShutdownAssumption
       DEF TypeOK, CallbackReturns, Covered, Held
  <2>3. QED
    BY <1>1, <1>3, <2>1, <2>2 DEF TypeOK, CallbackReturns
<1>4. QED
  BY <1>2, <1>3 DEF Intake

\* A worker moves a message from the queue to its broadcast, and from there to
\* the acknowledged ones or nowhere.
LEMMA TypePool ==
    ASSUME TypeOK, Covered, NEW w \in Workers, PoolStep(w)
    PROVE  TypeOK' /\ Covered'
<1> DEFINE States == [pc : {"idle", "broadcast", "nil", "exited"}, todo : SUBSET Conns]
<1> USE DEF WorkerGoto, Idle
<1>0. /\ UNCHANGED <<mainVars, connVars, ingestVars, background>>
      /\ panicked' \in BOOLEAN
  BY DEF TypeOK, PoolStep, Work, TakeTask, TaskEnds, TakeNil, SkipNil, ServeClient,
         BroadcastPanics, WorkerExits
<1>1. OnlyMoves(w) /\ worker' \in [Workers -> States]
  BY DEF OnlyMoves, TypeOK, PoolStep, Work, TakeTask, TaskEnds, TakeNil, SkipNil,
         ServeClient, BroadcastPanics, WorkerExits
<1> SUFFICES queue' \in 0..QueueSize /\ acked' \in 0..MaxTasks /\ Covered'
  BY <1>0, <1>1 DEF TypeOK
<1>2. CASE TakeTask(w)
  <2>1. /\ worker[w].pc = "idle" /\ worker'[w].pc = "broadcast"
        /\ queue > 0 /\ queue' = queue - 1 /\ UNCHANGED acked
    BY <1>2 DEF TypeOK, TakeTask
  <2>2. Cardinality(Broadcasting)' = Cardinality(Broadcasting) + 1
    BY <1>1, <2>1, OneMoreBroadcast
  <2>3. Covered'
    BY <1>0, <2>1, <2>2, BroadcastingFinite DEF TypeOK, Covered, Held
  <2>4. QED
    BY <2>1, <2>3, ShutdownAssumption DEF TypeOK
<1>3. CASE TaskEnds(w)
  <2>1. /\ worker[w].pc = "broadcast" /\ worker'[w].pc = "idle"
        /\ acked' \in {acked, acked + 1} /\ UNCHANGED queue
    BY <1>3 DEF TypeOK, TaskEnds
  <2>2. /\ Cardinality(Broadcasting) >= 1
        /\ Cardinality(Broadcasting)' = Cardinality(Broadcasting) - 1
    BY <1>1, <2>1, OneBroadcastLess
  <2>3. Covered'
    BY <1>0, <2>1, <2>2, BroadcastingFinite DEF TypeOK, Covered, Held
  <2>4. acked' \in 0..MaxTasks
    BY <2>1, <2>2, BroadcastingFinite, ShutdownAssumption DEF TypeOK, Covered, Held
  <2>5. QED
    BY <2>1, <2>3, <2>4 DEF TypeOK
<1>4. CASE \E c \in Conns : BroadcastPanics(w, c)
  <2>1. /\ worker[w].pc = "broadcast" /\ worker'[w].pc = "idle"
        /\ UNCHANGED <<acked, queue>>
    BY <1>4 DEF TypeOK, BroadcastPanics
  <2>2. Cardinality(Broadcasting)' = Cardinality(Broadcasting) - 1
    BY <1>1, <2>1, OneBroadcastLess
  <2>3. Covered'
    BY <1>0, <2>1, <2>2, BroadcastingFinite DEF TypeOK, Covered, Held
  <2>4. QED
    BY <2>1, <2>3 DEF TypeOK
<1>5. CASE (\E c \in Conns : ServeClient(w, c)) \/ TakeNil(w) \/ SkipNil(w)
           \/ WorkerExits(w)
  <2>1. worker[w].pc = "broadcast" <=> worker'[w].pc = "broadcast"
    BY <1>5 DEF TypeOK, ServeClient, TakeNil, SkipNil, WorkerExits
  <2>2. UNCHANGED <<acked, queue>>
    BY <1>5 DEF ServeClient, TakeNil, SkipNil, WorkerExits
  <2>3. Covered'
    BY <1>0, <1>1, <2>1, <2>2, SameBroadcasts, CoveredQuiet
  <2>4. QED
    BY <2>2, <2>3 DEF TypeOK
<1>6. QED
  BY <1>2, <1>3, <1>4, <1>5 DEF PoolStep, Work

\* Every step keeps the types and the count.
LEMMA TypeStep == TypeOK /\ Covered /\ [Next]_vars => TypeOK' /\ Covered'
<1> SUFFICES ASSUME TypeOK, Covered, [Next]_vars PROVE TypeOK' /\ Covered'
  OBVIOUS
<1>1. CASE Signal \/ Main
  BY <1>1, TypeMain
<1>2. CASE \E c \in Conns : Connection(c)
  BY <1>2, TypeConnection
<1>3. CASE Intake
  BY <1>3, TypeIntake
<1>4. CASE \E w \in Workers : PoolStep(w)
  BY <1>4, TypePool
<1>5. CASE \E g \in Goroutines : BackgroundEnds(g)
  <2>1. TypeOK'
    BY <1>5 DEF TypeOK, BackgroundEnds
  <2>2. QED
    BY <1>5, <2>1, CoveredQuiet DEF BackgroundEnds, Broadcasting
<1>6. CASE UNCHANGED vars
  <2>1. TypeOK'
    BY <1>6 DEF TypeOK, vars
  <2>2. QED
    BY <1>6, <2>1, CoveredQuiet DEF vars, Broadcasting
<1>7. QED
  BY <1>1, <1>2, <1>3, <1>4, <1>5, <1>6 DEF Next, Intake, PoolStep, Terminated

\* Every variable of the shutdown keeps its type, the queue its capacity.
THEOREM ShutdownTypes == Spec => []TypeOK
  BY TypeInit, TypeStep, PTL DEF Spec

\* However the end of the pool falls between a receipt, a broadcast, its panic
\* and the Ack, what it leaves undone was never acknowledged.
THEOREM LeftoversStayUnacked == Spec => []LeftoversUnacked
<1>1. TypeOK /\ Covered => LeftoversUnacked
  BY BroadcastingFinite DEF TypeOK, Covered, Held, LeftoversUnacked, Broadcasting
<1>2. QED
  BY <1>1, TypeInit, TypeStep, PTL DEF Spec

-----------------------------------------------------------------------------
(***************************************************************************)
(* Nobody closes a send channel but the force close, which comes after the *)
(* grace period only.                                                      *)
(***************************************************************************)
ClosedByForce == \A c \in Conns : closed[c] => graceOver
ForceAfterGrace == pc = "force" => graceOver

CloseInv == ClosedByForce /\ ForceAfterGrace /\ NoPanicUnlessForced

\* Every step keeps who may have closed a channel, and why.
LEMMA CloseStep == TypeOK /\ CloseInv /\ [Next]_vars => CloseInv'
<1> SUFFICES ASSUME TypeOK, CloseInv, [Next]_vars PROVE CloseInv'
  OBVIOUS
<1> USE DEF CloseInv, ClosedByForce, ForceAfterGrace, NoPanicUnlessForced
<1>1. CASE Signal \/ Main
  <2>1. CASE \E c \in Conns : ForceClose(c)
    <3>1. graceOver
      BY <2>1 DEF ForceClose
    <3>2. QED
      BY <2>1, <3>1 DEF ForceClose, TypeOK
  <2>2. CASE GraceExpires
    BY <2>2 DEF GraceExpires, Goto, TypeOK
  <2>3. CASE \/ Signal \/ CloseListener \/ CloseNATS \/ Drained \/ ForceEnds
             \/ Cancel \/ CloseQueue \/ PoolStopped \/ Finish
    BY <2>3 DEF Signal, CloseListener, CloseNATS, Drained, ForceEnds, Cancel,
                CloseQueue, PoolStopped, Finish, Goto
  <2>4. QED
    BY <1>1, <2>1, <2>2, <2>3 DEF Main
<1>2. ASSUME NEW c \in Conns, Connection(c) PROVE CloseInv'
  <2>1. UNCHANGED <<closed, graceOver>> /\ pc' \in {pc, "crashed"}
    BY <1>2 DEF Connection, Refuse, Accept, Store, StartPumps, SocketEnds,
                WriterSeesClosed, ReaderSendsOnClosed, Unregister, Uncount, ConnGoto
  <2>2. panicked' => graceOver
    BY <1>2 DEF Connection, Refuse, Accept, Store, StartPumps, SocketEnds,
                WriterSeesClosed, ReaderSendsOnClosed, Unregister, Uncount, ConnGoto
  <2>3. QED
    BY <2>1, <2>2
<1>3. CASE Intake
  BY <1>3 DEF Intake, CallbackStarts, CallbackReturns
<1>4. ASSUME NEW w \in Workers, PoolStep(w) PROVE CloseInv'
  <2>1. UNCHANGED <<closed, graceOver, pc>>
    BY <1>4 DEF PoolStep, Work, TakeTask, TaskEnds, TakeNil, SkipNil, ServeClient,
                BroadcastPanics, WorkerExits
  <2>2. panicked' => graceOver
    BY <1>4 DEF PoolStep, Work, TakeTask, TaskEnds, TakeNil, SkipNil, ServeClient,
                BroadcastPanics, WorkerExits
  <2>3. QED
    BY <2>1, <2>2
<1>5. CASE \E g \in Goroutines : BackgroundEnds(g)
  BY <1>5 DEF BackgroundEnds
<1>6. CASE UNCHANGED vars
  BY <1>6 DEF vars
<1>7. QED
  BY <1>1, <1>2, <1>3, <1>4, <1>5, <1>6 DEF Next, Intake, PoolStep, Terminated

\* As long as the grace period lasts no broadcast is cut short by a closed
\* channel, and no pump takes the process down.
THEOREM PanicsOnlyAfterGrace == Spec => []NoPanicUnlessForced
<1>1. Init => CloseInv
  BY DEF Init, CloseInv, ClosedByForce, ForceAfterGrace, NoPanicUnlessForced
<1>2. CloseInv => NoPanicUnlessForced
  BY DEF CloseInv
<1>3. QED
  BY <1>1, <1>2, CloseStep, ShutdownTypes, PTL DEF Spec

-----------------------------------------------------------------------------
(***************************************************************************)
(* Whom a drain that ended by itself leaves behind.  The flag is set from  *)
(* the signal on, so that from the tick that read zero on the connections  *)
(* can only get fewer.                                                     *)
(***************************************************************************)
FlagStands == pc \notin {"serving", "crashed"} => shuttingDown
AfterDrain == {"cancel", "stop", "waitPool", "waitAll", "done"}
Remaining == {c \in Conns : conn[c] \in {"accepted", "stored", "open", "unlisted"}}
RemainingLate == pc \in AfterDrain /\ ~graceOver => Remaining \subseteq late

DrainInv == FlagStands /\ ForceAfterGrace /\ RemainingLate

\* The tick that reads zero leaves only handshakes.
LEMMA DrainedLeavesHandshakes == TypeOK /\ Drained => Remaining' \subseteq late'
<1> SUFFICES ASSUME TypeOK, Drained PROVE Remaining' \subseteq late'
  OBVIOUS
<1> DEFINE Counted == {c \in Conns : conn[c] \in {"open", "unlisted"}}
<1>1. Counted = {}
  <2>1. IsFiniteSet(Counted) /\ Cardinality(Counted) = 0
    BY ShutdownAssumption, FS_Subset DEF Drained, CurrentConnections
  <2>2. QED
    BY <2>1, FS_EmptySet
<1>2. conn' = conn /\ late' = {c \in Conns : conn[c] \in {"accepted", "stored"}}
  BY DEF Drained
<1>3. QED
  BY <1>1, <1>2 DEF Remaining

\* Every step keeps what remains after the drain.
LEMMA DrainStep == TypeOK /\ DrainInv /\ [Next]_vars => DrainInv'
<1> SUFFICES ASSUME TypeOK, DrainInv, [Next]_vars PROVE DrainInv'
  OBVIOUS
<1> USE DEF DrainInv, FlagStands, ForceAfterGrace, RemainingLate, AfterDrain
<1>1. CASE Signal \/ Main
  <2>1. CASE Drained
    BY <2>1, DrainedLeavesHandshakes DEF Drained, Goto
  <2>2. CASE GraceExpires
    BY <2>2 DEF GraceExpires, Goto
  <2>3. CASE \E c \in Conns : ForceClose(c)
    BY <2>3 DEF ForceClose
  <2>4. CASE \/ Signal \/ CloseListener \/ CloseNATS \/ ForceEnds
             \/ Cancel \/ CloseQueue \/ PoolStopped \/ Finish
    BY <2>4 DEF Signal, CloseListener, CloseNATS, ForceEnds, Cancel,
                CloseQueue, PoolStopped, Finish, Goto, Remaining
  <2>5. QED
    BY <1>1, <2>1, <2>2, <2>3, <2>4 DEF Main
<1>2. ASSUME NEW c \in Conns, Connection(c) PROVE DrainInv'
  <2>1. UNCHANGED <<shuttingDown, graceOver, late>> /\ pc' \in {pc, "crashed"}
    BY <1>2 DEF Connection, Refuse, Accept, Store, StartPumps, SocketEnds,
                WriterSeesClosed, ReaderSendsOnClosed, Unregister, Uncount, ConnGoto
  <2>2. shuttingDown => Remaining' \subseteq Remaining
    BY <1>2 DEF TypeOK, Remaining, Connection, Refuse, Accept, Store, StartPumps,
                SocketEnds, WriterSeesClosed, ReaderSendsOnClosed, Unregister,
                Uncount, ConnGoto
  <2>3. QED
    BY <2>1, <2>2
<1>3. CASE Intake
  BY <1>3 DEF Intake, CallbackStarts, CallbackReturns, Remaining
<1>4. ASSUME NEW w \in Workers, PoolStep(w) PROVE DrainInv'
  <2>1. UNCHANGED <<mainVars, conn>>
    BY <1>4 DEF PoolStep, Work, TakeTask, TaskEnds, TakeNil, SkipNil, ServeClient,
                BroadcastPanics, WorkerExits
  <2>2. QED
    BY <2>1 DEF Remaining
<1>5. CASE \E g \in Goroutines : BackgroundEnds(g)
  BY <1>5 DEF BackgroundEnds, Remaining
<1>6. CASE UNCHANGED vars
  BY <1>6 DEF vars, Remaining
<1>7. QED
  BY <1>1, <1>2, <1>3, <1>4, <1>5, <1>6 DEF Next, Intake, PoolStep, Terminated

\* A shutdown whose drain loop read zero leaves no connection behind but the
\* handshakes that were under way at that moment.
THEOREM DrainLeavesLateHandshakes == Spec => []OnlyLateHandshakesRemain
<1>1. Init => DrainInv
  BY DEF Init, DrainInv, FlagStands, ForceAfterGrace, RemainingLate, AfterDrain
<1>2. DrainInv => OnlyLateHandshakesRemain
  BY DEF DrainInv, RemainingLate, AfterDrain, Remaining, OnlyLateHandshakesRemain
<1>3. QED
  BY <1>1, <1>2, DrainStep, ShutdownTypes, PTL DEF Spec
=============================================================================
