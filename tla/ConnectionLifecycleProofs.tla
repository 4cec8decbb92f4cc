---------------------- MODULE ConnectionLifecycleProofs ----------------------
(***************************************************************************)
(* Proofs about ConnectionLifecycle, for any set of attempts, any set of   *)
(* Client objects and any MaxConnections.                                  *)
(*                                                                         *)
(* The argument: sem and current count the attempts in two ranges of       *)
(* phases (Accounting); an object is in the hands of one attempt from Get  *)
(* to Put and is cleaned on the way back (Ownership).  Neither is          *)
(* inductive without the other and without the types; IInv joins them.     *)
(***************************************************************************)
EXTENDS ConnectionLifecycle, FiniteSetTheorems, TLAPS

\* Frame conditions name groups of variables: every proof looks into them.
USE DEF countVars, serverVars, poolVars, clientVars, subVars, objectVars,
        envVars, vars

Accounting ==
    /\ IsFiniteSet(Holders) /\ sem = Cardinality(Holders)
    /\ sem <= MaxConnections
    /\ current = Cardinality(Counted)

\* The object of an attempt is set from GetClient on, and of a write pump.
ObjectSet ==
    \A r \in Conns :
        /\ phase[r] \in OwnerPhases \cup {"release", "unlimit", "done"}
               => obj[r] \in Clients
        /\ writer[r] # "none" => obj[r] \in Clients

\* Put has reset the object before it puts it back.
ResetBeforePool ==
    \A r \in Conns :
        phase[r] = "pool" =>
            conn[obj[r]] = NoConn /\ id[obj[r]] = 0 /\ subs[obj[r]] = {}

\* The registry and the index do not name an object before its connection
\* enters them nor after it left them.
RegistryFollows ==
    \A r \in Conns :
        phase[r] \in {"register", "uncount", "unindex", "reset", "pool"}
            => obj[r] \notin registry

IndexFollows ==
    \A r \in Conns :
        phase[r] \in {"register", "start", "reset", "pool"}
            => \A ch \in Channels : obj[r] \notin index[ch]

\* A write pump is started together with the read pump.
HandlerPhases ==
    {"idle", "acquire", "upgrade", "get", "register", "start", "rejected"}

WriterFollows ==
    \A r \in Conns : phase[r] \in HandlerPhases => writer[r] = "none"

\* A write pump runs beside its own read loop or on an object whose closeOnce
\* is spent.
OnceSpent ==
    \A r \in Conns :
        writer[r] # "none" => once[obj[r]] \/ phase[r] \in ReadPhases \cup {"close"}

Ownership ==
    /\ ObjectSet /\ ExclusiveOwnership /\ OwnConnection
    /\ ResetBeforePool /\ RegistryFollows /\ IndexFollows
    /\ PooledObjectsAreClean /\ WriterFollows /\ OnceSpent

IInv == TypeOK /\ Accounting /\ Ownership

\* The steps of the goroutines and of the network that belong to attempt r.
StepOf(r) == Handler(r) \/ Reader(r) \/ Cleanup(r) \/ Writer(r) \/ ConnDrops(r)

-----------------------------------------------------------------------------
(***************************************************************************)
(* Counting.                                                               *)
(***************************************************************************)

\* The counted connections hold slots, so their set is finite and no larger;
\* a counter that counts somebody is positive (the receive from the semaphore
\* and the decrement of the gauge never go below zero).
LEMMA CountersPositive ==
    ASSUME Accounting
    PROVE  /\ IsFiniteSet(Counted)
           /\ current <= sem
           /\ \A r \in Conns : phase[r] \in HoldingPhases => sem > 0
           /\ \A r \in Conns : phase[r] \in CountedPhases => current > 0
<1>1. Counted \in SUBSET Holders
  BY DEF Counted, Holders, CountedPhases, HoldingPhases, OwnerPhases, BoundPhases,
         RegisteredPhases, ReadPhases
<1>2. IsFiniteSet(Counted) /\ Cardinality(Counted) <= Cardinality(Holders)
  BY <1>1, FS_Subset DEF Accounting
<1>3. Cardinality(Holders) \in Nat /\ Cardinality(Counted) \in Nat
  BY <1>2, FS_CardinalityType DEF Accounting
<1>4. ASSUME NEW r \in Conns, phase[r] \in HoldingPhases PROVE sem > 0
  <2>1. Holders # {}
    BY <1>4 DEF Holders
  <2>2. Cardinality(Holders) # 0
    BY <2>1, FS_EmptySet DEF Accounting
  <2> QED BY <2>2, <1>3 DEF Accounting
<1>5. ASSUME NEW r \in Conns, phase[r] \in CountedPhases PROVE current > 0
  <2>1. Counted # {}
    BY <1>5 DEF Counted
  <2>2. Cardinality(Counted) # 0
    BY <2>1, <1>2, FS_EmptySet
  <2> QED BY <2>2, <1>3 DEF Accounting
<1> QED BY <1>2, <1>4, <1>5 DEF Accounting

\* A step that leaves both ranges of phases and both counters alone keeps the
\* accounting.
LEMMA SameCounts ==
    ASSUME Accounting, Holders' = Holders, Counted' = Counted,
           sem' = sem, current' = current
    PROVE  Accounting'
BY DEF Accounting

\* The accounting is kept by every step of an attempt.
LEMMA StepKeepsAccounting ==
    ASSUME TypeOK, Accounting, NEW r \in Conns, StepOf(r)
    PROVE  Accounting'
<1> USE MaxConnectionsAssumption
    DEF TypeOK, Holders, Counted, Phases, HoldingPhases, OwnerPhases, BoundPhases, RegisteredPhases,
             ReadPhases, CountedPhases
<1>0. IsFiniteSet(Counted)
  BY CountersPositive
<1>1. CASE RejectedByGuard(r)
  <2>1. Holders' = Holders /\ Counted' = Counted /\ sem' = sem /\ current' = current
    BY <1>1 DEF RejectedByGuard, Goto
  <2> QED BY <2>1, SameCounts
<1>2. CASE AcceptedByGuard(r)
  <2>1. Holders' = Holders /\ Counted' = Counted /\ sem' = sem /\ current' = current
    BY <1>2 DEF AcceptedByGuard, Goto
  <2> QED BY <2>1, SameCounts
<1>3. CASE AcquireSlot(r)
  <2>1. Holders' = Holders \cup {r} /\ r \notin Holders
    BY <1>3 DEF AcquireSlot, Goto
  <2>2. Counted' = Counted
    BY <1>3 DEF AcquireSlot, Goto
  <2>3. /\ sem' = sem + 1 /\ sem < MaxConnections
        /\ current' = current /\ sem = Cardinality(Holders)
        /\ current = Cardinality(Counted) /\ IsFiniteSet(Holders)
    BY <1>3 DEF AcquireSlot, Accounting
  <2> HIDE DEF Holders, Counted
  <2>4. IsFiniteSet(Holders') /\ Cardinality(Holders') = Cardinality(Holders) + 1
    BY <2>1, <2>3, FS_AddElement
  <2> QED BY <2>1, <2>2, <2>3, <2>4 DEF Accounting
<1>4. CASE AcquireTimesOut(r)
  <2>1. Holders' = Holders /\ Counted' = Counted /\ sem' = sem /\ current' = current
    BY <1>4 DEF AcquireTimesOut, Goto
  <2> QED BY <2>1, SameCounts
<1>5. CASE UpgradeFails(r)
  <2>1. Holders' = Holders \ {r} /\ r \in Holders
    BY <1>5 DEF UpgradeFails, Goto
  <2>2. Counted' = Counted
    BY <1>5 DEF UpgradeFails, Goto
  <2>3. /\ sem' = sem - 1 /\ sem <= MaxConnections
        /\ current' = current /\ sem = Cardinality(Holders)
        /\ current = Cardinality(Counted) /\ IsFiniteSet(Holders)
    BY <1>5 DEF UpgradeFails, Accounting
  <2> HIDE DEF Holders, Counted
  <2>4. IsFiniteSet(Holders') /\ Cardinality(Holders') = Cardinality(Holders) - 1
    BY <2>1, <2>3, FS_RemoveElement
  <2> QED BY <2>1, <2>2, <2>3, <2>4 DEF Accounting
<1>6. CASE UpgradeSucceeds(r)
  <2>1. Holders' = Holders /\ Counted' = Counted /\ sem' = sem /\ current' = current
    BY <1>6 DEF UpgradeSucceeds, Goto
  <2> QED BY <2>1, SameCounts
<1>7. CASE GetClient(r)
  <2>1. Holders' = Holders /\ Counted' = Counted /\ sem' = sem /\ current' = current
    BY <1>7 DEF GetClient, Goto
  <2> QED BY <2>1, SameCounts
<1>8. CASE Register(r)
  <2>1. Holders' = Holders /\ Counted' = Counted /\ sem' = sem /\ current' = current
    BY <1>8 DEF Register, Goto
  <2> QED BY <2>1, SameCounts
<1>9. CASE StartPumps(r)
  <2>1. Counted' = Counted \cup {r} /\ r \notin Counted /\ Holders' = Holders
    BY <1>9 DEF StartPumps, Goto
  <2>2. Cardinality(Counted') = Cardinality(Counted) + 1
    BY <2>1, <1>0, FS_AddElement
  <2>3. current' = current + 1 /\ sem' = sem
    BY <1>9 DEF StartPumps
  <2> HIDE DEF Holders, Counted
  <2> QED BY <2>1, <2>2, <2>3 DEF Accounting
<1>10. CASE ReadOther(r)
  <2>1. Holders' = Holders /\ Counted' = Counted /\ sem' = sem /\ current' = current
    BY <1>10 DEF ReadOther
  <2> QED BY <2>1, SameCounts
<1>11. CASE SubscribeSet(r)
  <2>1. Holders' = Holders /\ Counted' = Counted /\ sem' = sem /\ current' = current
    BY <1>11 DEF SubscribeSet, Goto
  <2> QED BY <2>1, SameCounts
<1>12. CASE SubscribeIndex(r)
  <2>1. Holders' = Holders /\ Counted' = Counted /\ sem' = sem /\ current' = current
    BY <1>12 DEF SubscribeIndex, Goto
  <2> QED BY <2>1, SameCounts
<1>13. CASE UnsubscribeSet(r)
  <2>1. Holders' = Holders /\ Counted' = Counted /\ sem' = sem /\ current' = current
    BY <1>13 DEF UnsubscribeSet, Goto
  <2> QED BY <2>1, SameCounts
<1>14. CASE UnsubscribeIndex(r)
  <2>1. Holders' = Holders /\ Counted' = Counted /\ sem' = sem /\ current' = current
    BY <1>14 DEF UnsubscribeIndex, Goto
  <2> QED BY <2>1, SameCounts
<1>15. CASE ReadFails(r)
  <2>1. Holders' = Holders /\ Counted' = Counted /\ sem' = sem /\ current' = current
    BY <1>15 DEF ReadFails, Goto
  <2> QED BY <2>1, SameCounts
<1>16. CASE CleanupClose(r)
  <2>1. Holders' = Holders /\ Counted' = Counted /\ sem' = sem /\ current' = current
    BY <1>16 DEF CleanupClose, Goto
  <2> QED BY <2>1, SameCounts
<1>17. CASE CleanupUnregister(r)
  <2>1. Holders' = Holders /\ Counted' = Counted /\ sem' = sem /\ current' = current
    BY <1>17 DEF CleanupUnregister, Goto
  <2> QED BY <2>1, SameCounts
<1>18. CASE CleanupUncount(r)
  <2>1. Counted' = Counted \ {r} /\ r \in Counted
    BY <1>18 DEF CleanupUncount, Goto
  <2>2. Holders' = Holders
    BY <1>18 DEF CleanupUncount, Goto
  <2>3. current' = current - 1 /\ sem' = sem
    BY <1>18 DEF CleanupUncount
  <2> HIDE DEF Holders, Counted
  <2>4. Cardinality(Counted') = Cardinality(Counted) - 1
    BY <2>1, <1>0, FS_RemoveElement
  <2> QED BY <2>1, <2>2, <2>3, <2>4 DEF Accounting
<1>19. CASE CleanupUnindex(r)
  <2>1. Holders' = Holders /\ Counted' = Counted /\ sem' = sem /\ current' = current
    BY <1>19 DEF CleanupUnindex, Goto
  <2> QED BY <2>1, SameCounts
<1>20. CASE CleanupReset(r)
  <2>1. Holders' = Holders /\ Counted' = Counted /\ sem' = sem /\ current' = current
    BY <1>20 DEF CleanupReset, Goto
  <2> QED BY <2>1, SameCounts
<1>21. CASE CleanupPool(r)
  <2>1. Holders' = Holders /\ Counted' = Counted /\ sem' = sem /\ current' = current
    BY <1>21 DEF CleanupPool, Goto
  <2> QED BY <2>1, SameCounts
<1>22. CASE CleanupRelease(r)
  <2>1. Holders' = Holders \ {r} /\ r \in Holders
    BY <1>22 DEF CleanupRelease, Goto
  <2>2. Counted' = Counted
    BY <1>22 DEF CleanupRelease, Goto
  <2>3. /\ sem' = sem - 1 /\ sem <= MaxConnections
        /\ current' = current /\ sem = Cardinality(Holders)
        /\ current = Cardinality(Counted) /\ IsFiniteSet(Holders)
    BY <1>22 DEF CleanupRelease, Accounting
  <2> HIDE DEF Holders, Counted
  <2>4. IsFiniteSet(Holders') /\ Cardinality(Holders') = Cardinality(Holders) - 1
    BY <2>1, <2>3, FS_RemoveElement
  <2> QED BY <2>1, <2>2, <2>3, <2>4 DEF Accounting
<1>23. CASE CleanupRateLimiter(r)
  <2>1. Holders' = Holders /\ Counted' = Counted /\ sem' = sem /\ current' = current
    BY <1>23 DEF CleanupRateLimiter, Goto
  <2> QED BY <2>1, SameCounts
<1>24. CASE WriterWakes(r)
  <2>1. Holders' = Holders /\ Counted' = Counted /\ sem' = sem /\ current' = current
    BY <1>24 DEF WriterWakes
  <2> QED BY <2>1, SameCounts
<1>25. CASE WriterWrites(r)
  <2>1. Holders' = Holders /\ Counted' = Counted /\ sem' = sem /\ current' = current
    BY <1>25 DEF WriterWrites
  <2> QED BY <2>1, SameCounts
<1>26. CASE WriterFails(r)
  <2>1. Holders' = Holders /\ Counted' = Counted /\ sem' = sem /\ current' = current
    BY <1>26 DEF WriterFails
  <2> QED BY <2>1, SameCounts
<1>27. CASE WriterPanics(r)
  <2>1. Holders' = Holders /\ Counted' = Counted /\ sem' = sem /\ current' = current
    BY <1>27 DEF WriterPanics
  <2> QED BY <2>1, SameCounts
<1>28. CASE WriterExits(r)
  <2>1. Holders' = Holders /\ Counted' = Counted /\ sem' = sem /\ current' = current
    BY <1>28 DEF WriterExits
  <2> QED BY <2>1, SameCounts
<1>29. CASE ConnDrops(r)
  <2>1. Holders' = Holders /\ Counted' = Counted /\ sem' = sem /\ current' = current
    BY <1>29 DEF ConnDrops
  <2> QED BY <2>1, SameCounts
<1> QED BY <1>1, <1>2, <1>3, <1>4, <1>5, <1>6, <1>7, <1>8, <1>9, <1>10,
       <1>11, <1>12, <1>13, <1>14, <1>15, <1>16, <1>17, <1>18, <1>19,
       <1>20, <1>21, <1>22, <1>23, <1>24, <1>25, <1>26, <1>27, <1>28,
       <1>29 DEF StepOf, Handler, Reader, Cleanup, Writer

-----------------------------------------------------------------------------
(***************************************************************************)
(* Types and ownership.                                                    *)
(***************************************************************************)

\* Every step of an attempt keeps the types, given the two counts.
LEMMA StepKeepsTypes ==
    ASSUME TypeOK, Accounting, ObjectSet, NEW r \in Conns, StepOf(r)
    PROVE  TypeOK'
<1> USE NoConnAssumption, NoClientAssumption
    DEF TypeOK, WriterPhases, Phases, HoldingPhases, OwnerPhases, BoundPhases, RegisteredPhases,
             ReadPhases, CountedPhases
<1>0. /\ phase[r] \in HoldingPhases => sem > 0
      /\ phase[r] \in CountedPhases => current > 0
  BY CountersPositive
<1>1. CASE RejectedByGuard(r)
  BY <1>1 DEF RejectedByGuard, Goto, ObjectSet
<1>2. CASE AcceptedByGuard(r)
  BY <1>2 DEF AcceptedByGuard, Goto, ObjectSet
<1>3. CASE AcquireSlot(r)
  BY <1>3 DEF AcquireSlot, Goto, ObjectSet
<1>4. CASE AcquireTimesOut(r)
  BY <1>4 DEF AcquireTimesOut, Goto, ObjectSet
<1>5. CASE UpgradeFails(r)
  BY <1>0, <1>5 DEF UpgradeFails, Goto, ObjectSet
<1>6. CASE UpgradeSucceeds(r)
  BY <1>6 DEF UpgradeSucceeds, Goto, ObjectSet
<1>7. CASE GetClient(r)
  BY <1>7 DEF GetClient, Goto, ObjectSet
<1>8. CASE Register(r)
  BY <1>8 DEF Register, Goto, ObjectSet
<1>9. CASE StartPumps(r)
  BY <1>9 DEF StartPumps, Goto, ObjectSet
<1>10. CASE ReadOther(r)
  <2>1. obj[r] \in Clients
    BY <1>10 DEF ReadOther, ObjectSet
  <2>2. id[obj[r]] \in Nat
    BY <2>1
  <2>3. buckets' \subseteq Nat
    BY <1>10, <2>2 DEF ReadOther, CheckLimit
  <2> QED BY <1>10, <2>1, <2>3 DEF ReadOther
<1>11. CASE SubscribeSet(r)
  <2>1. obj[r] \in Clients
    BY <1>11 DEF SubscribeSet, Goto, ObjectSet
  <2>2. id[obj[r]] \in Nat
    BY <2>1
  <2>3. buckets' \subseteq Nat
    BY <1>11, <2>2 DEF SubscribeSet, CheckLimit
  <2> QED BY <1>11, <2>1, <2>3 DEF SubscribeSet, Goto
<1>12. CASE SubscribeIndex(r)
  BY <1>12 DEF SubscribeIndex, Goto, ObjectSet
<1>13. CASE UnsubscribeSet(r)
  <2>1. obj[r] \in Clients
    BY <1>13 DEF UnsubscribeSet, Goto, ObjectSet
  <2>2. id[obj[r]] \in Nat
    BY <2>1
  <2>3. buckets' \subseteq Nat
    BY <1>13, <2>2 DEF UnsubscribeSet, CheckLimit
  <2> QED BY <1>13, <2>1, <2>3 DEF UnsubscribeSet, Goto
<1>14. CASE UnsubscribeIndex(r)
  BY <1>14 DEF UnsubscribeIndex, Goto, ObjectSet
<1>15. CASE ReadFails(r)
  BY <1>15 DEF ReadFails, Goto, ObjectSet
<1>16. CASE CleanupClose(r)
  BY <1>16 DEF CleanupClose, Goto, CloseOnce, ObjectSet
<1>17. CASE CleanupUnregister(r)
  BY <1>17 DEF CleanupUnregister, Goto, ObjectSet
<1>18. CASE CleanupUncount(r)
  BY <1>0, <1>18 DEF CleanupUncount, Goto, ObjectSet
<1>19. CASE CleanupUnindex(r)
  BY <1>19 DEF CleanupUnindex, Goto, ObjectSet
<1>20. CASE CleanupReset(r)
  BY <1>20 DEF CleanupReset, Goto, ObjectSet
<1>21. CASE CleanupPool(r)
  BY <1>21 DEF CleanupPool, Goto, ObjectSet
<1>22. CASE CleanupRelease(r)
  BY <1>0, <1>22 DEF CleanupRelease, Goto, ObjectSet
<1>23. CASE CleanupRateLimiter(r)
  BY <1>23 DEF CleanupRateLimiter, Goto, ObjectSet
<1>24. CASE WriterWakes(r)
  BY <1>24 DEF WriterWakes, WriterGoto, ObjectSet
<1>25. CASE WriterWrites(r)
  BY <1>25 DEF WriterWrites, WriterGoto, ObjectSet
<1>26. CASE WriterFails(r)
  BY <1>26 DEF WriterFails, WriterGoto, ObjectSet
<1>27. CASE WriterPanics(r)
  BY <1>27 DEF WriterPanics, ObjectSet
<1>28. CASE WriterExits(r)
  BY <1>28 DEF WriterExits, WriterGoto, CloseOnce, ObjectSet
<1>29. CASE ConnDrops(r)
  BY <1>29 DEF ConnDrops, ObjectSet
<1> QED BY <1>1, <1>2, <1>3, <1>4, <1>5, <1>6, <1>7, <1>8, <1>9, <1>10,
       <1>11, <1>12, <1>13, <1>14, <1>15, <1>16, <1>17, <1>18, <1>19,
       <1>20, <1>21, <1>22, <1>23, <1>24, <1>25, <1>26, <1>27, <1>28,
       <1>29 DEF StepOf, Handler, Reader, Cleanup, Writer

\* An object is exclusively its connection's from Get to Put, whichever
\* goroutine moves.
LEMMA StepKeepsOwnership ==
    ASSUME TypeOK, TypeOK', Ownership, NEW r \in Conns, StepOf(r)
    PROVE  Ownership'
<1> USE NoConnAssumption, NoClientAssumption
    DEF TypeOK, WriterPhases, Phases, HoldingPhases, OwnerPhases, BoundPhases, RegisteredPhases,
             ReadPhases, CountedPhases
<1> USE DEF Ownership, ObjectSet, ExclusiveOwnership, OwnConnection, ResetBeforePool,
            RegistryFollows, IndexFollows, PooledObjectsAreClean, OnceSpent,
            WriterFollows, HandlerPhases
<1>1. CASE RejectedByGuard(r)
  BY <1>1 DEF RejectedByGuard, Goto
<1>2. CASE AcceptedByGuard(r)
  BY <1>2 DEF AcceptedByGuard, Goto
<1>3. CASE AcquireSlot(r)
  BY <1>3 DEF AcquireSlot, Goto
<1>4. CASE AcquireTimesOut(r)
  BY <1>4 DEF AcquireTimesOut, Goto
<1>5. CASE UpgradeFails(r)
  BY <1>5 DEF UpgradeFails, Goto
<1>6. CASE UpgradeSucceeds(r)
  BY <1>6 DEF UpgradeSucceeds, Goto
<1>7. CASE GetClient(r)
  <2>1. PICK o \in pool \cup fresh :
           /\ pool' = pool \ {o} /\ fresh' = fresh \ {o}
           /\ obj' = [obj EXCEPT ![r] = o]
           /\ conn' = [conn EXCEPT ![o] = r]
           /\ subs' = [subs EXCEPT ![o] = {}]
    BY <1>7 DEF GetClient
  <2>2. /\ phase[r] = "get" /\ phase' = [phase EXCEPT ![r] = "register"]
        /\ UNCHANGED <<writer, registry, connId, id, once, index>>
    BY <1>7 DEF GetClient, Goto
  <2>3. o \in Clients /\ \A q \in Conns : phase[q] \in OwnerPhases => obj[q] # o
    BY <2>1
  <2>4. writer[r] = "none"
    BY <2>2
  <2>5. ObjectSet' /\ ExclusiveOwnership'
    BY <2>1, <2>2, <2>3
  <2>6. OwnConnection' /\ ResetBeforePool'
    BY <2>1, <2>2, <2>3
  <2>7. RegistryFollows' /\ IndexFollows'
    BY <2>1, <2>2, <2>3
  <2>8. PooledObjectsAreClean'
    BY <2>1, <2>2, <2>3
  <2>9. OnceSpent'
    BY <2>1, <2>2, <2>3, <2>4
  <2>10. WriterFollows'
    BY <2>2, <2>4
  <2> QED BY <2>5, <2>6, <2>7, <2>8, <2>9, <2>10
<1>8. CASE Register(r)
  BY <1>8 DEF Register, Goto
<1>9. CASE StartPumps(r)
  BY <1>9 DEF StartPumps, Goto
<1>10. CASE ReadOther(r)
  BY <1>10 DEF ReadOther, CheckLimit
<1>11. CASE SubscribeSet(r)
  BY <1>11 DEF SubscribeSet, Goto, CheckLimit
<1>12. CASE SubscribeIndex(r)
  BY <1>12 DEF SubscribeIndex, Goto
<1>13. CASE UnsubscribeSet(r)
  BY <1>13 DEF UnsubscribeSet, Goto, CheckLimit
<1>14. CASE UnsubscribeIndex(r)
  BY <1>14 DEF UnsubscribeIndex, Goto
<1>15. CASE ReadFails(r)
  BY <1>15 DEF ReadFails, Goto
<1>16. CASE CleanupClose(r)
  BY <1>16 DEF CleanupClose, Goto, CloseOnce
<1>17. CASE CleanupUnregister(r)
  BY <1>17 DEF CleanupUnregister, Goto
<1>18. CASE CleanupUncount(r)
  BY <1>18 DEF CleanupUncount, Goto
<1>19. CASE CleanupUnindex(r)
  BY <1>19 DEF CleanupUnindex, Goto
<1>20. CASE CleanupReset(r)
  BY <1>20 DEF CleanupReset, Goto
<1>21. CASE CleanupPool(r)
  BY <1>21 DEF CleanupPool, Goto
<1>22. CASE CleanupRelease(r)
  BY <1>22 DEF CleanupRelease, Goto
<1>23. CASE CleanupRateLimiter(r)
  BY <1>23 DEF CleanupRateLimiter, Goto
<1>24. CASE WriterWakes(r)
  BY <1>24 DEF WriterWakes, WriterGoto
<1>25. CASE WriterWrites(r)
  BY <1>25 DEF WriterWrites, WriterGoto
<1>26. CASE WriterFails(r)
  BY <1>26 DEF WriterFails, WriterGoto
<1>27. CASE WriterPanics(r)
  BY <1>27 DEF WriterPanics
<1>28. CASE WriterExits(r)
  BY <1>28 DEF WriterExits, WriterGoto, CloseOnce
<1>29. CASE ConnDrops(r)
  BY <1>29 DEF ConnDrops
<1> QED BY <1>1, <1>2, <1>3, <1>4, <1>5, <1>6, <1>7, <1>8, <1>9, <1>10,
       <1>11, <1>12, <1>13, <1>14, <1>15, <1>16, <1>17, <1>18, <1>19,
       <1>20, <1>21, <1>22, <1>23, <1>24, <1>25, <1>26, <1>27, <1>28,
       <1>29 DEF StepOf, Handler, Reader, Cleanup, Writer

-----------------------------------------------------------------------------
(***************************************************************************)
(* The inductive invariant and what follows from it.                       *)
(***************************************************************************)
LEMMA InitInv == Init => IInv
<1> SUFFICES ASSUME Init PROVE IInv
  OBVIOUS
<1>1. Holders = {} /\ Counted = {}
  BY DEF Init, Holders, Counted, HoldingPhases, OwnerPhases, BoundPhases,
         RegisteredPhases, ReadPhases, CountedPhases
<1>2. Accounting
  BY <1>1, FS_EmptySet, MaxConnectionsAssumption DEF Init, Accounting
<1>3. TypeOK
  BY DEF Init, TypeOK, Phases, WriterPhases
<1>4. Ownership
  BY DEF Init, Ownership, ObjectSet, ExclusiveOwnership, OwnConnection,
         ResetBeforePool, RegistryFollows, IndexFollows, PooledObjectsAreClean,
         WriterFollows, HandlerPhases, OnceSpent, OwnerPhases, BoundPhases,
         RegisteredPhases, ReadPhases
<1> QED BY <1>2, <1>3, <1>4 DEF IInv

\* The inductive invariant survives every step and every stutter.
LEMMA NextInv == IInv /\ [Next]_vars => IInv'
<1> SUFFICES ASSUME IInv, [Next]_vars PROVE IInv'
  OBVIOUS
<1>1. ASSUME NEW r \in Conns, StepOf(r) PROVE IInv'
  <2>1. TypeOK'
    BY <1>1, StepKeepsTypes DEF IInv, Ownership
  <2>2. Accounting'
    BY <1>1, StepKeepsAccounting DEF IInv
  <2>3. Ownership'
    BY <1>1, <2>1, StepKeepsOwnership DEF IInv
  <2> QED BY <2>1, <2>2, <2>3 DEF IInv
<1>2. ASSUME NEW o \in Clients, SlowClientClosed(o) PROVE IInv'
  BY <1>2 DEF SlowClientClosed, IInv, TypeOK, Accounting, Holders, Counted,
     Ownership, ObjectSet, ExclusiveOwnership, OwnConnection, ResetBeforePool,
     RegistryFollows, IndexFollows, PooledObjectsAreClean, OnceSpent,
     WriterFollows
<1>3. CASE UNCHANGED vars
  BY <1>3 DEF IInv, TypeOK, Accounting, Holders, Counted,
     Ownership, ObjectSet, ExclusiveOwnership, OwnConnection, ResetBeforePool,
     RegistryFollows, IndexFollows, PooledObjectsAreClean, OnceSpent,
     WriterFollows
<1> QED BY <1>1, <1>2, <1>3 DEF Next, StepOf, Terminated

\* The inductive invariant, from which the theorems on the counters, the
\* pooled objects and the two indexes follow.
THEOREM Invariance == Spec => []IInv
BY InitInv, NextInv, PTL DEF Spec

\* Every state of every behavior has the types the model gives its variables.
THEOREM TypesAreRight == Spec => []TypeOK
<1>1. IInv => TypeOK
  BY DEF IInv
<1> QED BY <1>1, Invariance, PTL

\* However many connections come and go, connectionsSem counts exactly the
\* attempts that hold a slot and never more than MaxConnections of them.
THEOREM SlotsAreAccounted == Spec => []SlotAccounting
<1>1. IInv => SlotAccounting
  BY DEF IInv, Accounting, SlotAccounting
<1> QED BY <1>1, Invariance, PTL

\* CurrentConnections counts exactly the connections with running pumps, and
\* never more than the slots in use.
THEOREM GaugeIsAccounted == Spec => []GaugeAccounting
<1>1. IInv => GaugeAccounting
  BY CountersPositive DEF IInv, Accounting, GaugeAccounting
<1> QED BY <1>1, Invariance, PTL

\* Two read pumps never share a Client object, and none uses a pooled one.
THEOREM ObjectsAreExclusive == Spec => []ExclusiveOwnership
<1>1. IInv => ExclusiveOwnership
  BY DEF IInv, Ownership
<1> QED BY <1>1, Invariance, PTL

\* A read pump always finds its own socket and its own id in its object.
THEOREM ConnectionsAreOwn == Spec => []OwnConnection
<1>1. IInv => OwnConnection
  BY DEF IInv, Ownership
<1> QED BY <1>1, Invariance, PTL

\* What Get hands out carries nothing of an earlier connection's identity.
THEOREM PoolIsClean == Spec => []PooledObjectsAreClean
<1>1. IInv => PooledObjectsAreClean
  BY DEF IInv, Ownership
<1> QED BY <1>1, Invariance, PTL

\* Only the deferred exit of its own goroutine ends a write pump.
LEMMA WriterEndsByExit ==
    ASSUME TypeOK, NEW r \in Conns, NEW q \in Conns, StepOf(q),
           writer[r] = "exit", writer'[r] = "done"
    PROVE  WriterExits(r)
<1>1. ASSUME Handler(q) PROVE FALSE
  BY <1>1 DEF Handler, RejectedByGuard, AcceptedByGuard, AcquireSlot,
     AcquireTimesOut, UpgradeFails, UpgradeSucceeds, GetClient, Register,
     StartPumps, TypeOK
<1>2. ASSUME Reader(q) PROVE FALSE
  BY <1>2 DEF Reader, ReadOther, SubscribeSet, SubscribeIndex,
     UnsubscribeSet, UnsubscribeIndex, ReadFails
<1>3. ASSUME Cleanup(q) PROVE FALSE
  BY <1>3 DEF Cleanup, CleanupClose, CleanupUnregister, CleanupUncount,
     CleanupUnindex, CleanupReset, CleanupPool, CleanupRelease,
     CleanupRateLimiter
<1>4. ASSUME ConnDrops(q) PROVE FALSE
  BY <1>4 DEF ConnDrops
<1>5. CASE Writer(q)
  <2>1. ASSUME WriterWakes(q) \/ WriterWrites(q) \/ WriterFails(q) PROVE FALSE
    BY <2>1 DEF WriterWakes, WriterWrites, WriterFails, WriterGoto, TypeOK
  <2>2. ASSUME WriterPanics(q) PROVE FALSE
    BY <2>2 DEF WriterPanics
  <2>3. WriterExits(q)
    BY <1>5, <2>1, <2>2 DEF Writer
  <2>4. q = r
    BY <2>3 DEF WriterExits, WriterGoto, TypeOK
  <2> QED BY <2>3, <2>4
<1> QED BY <1>1, <1>2, <1>3, <1>4, <1>5 DEF StepOf

\* The write pump of a finished connection never closes a later owner's
\* socket.
THEOREM ExitIsHarmless == Spec => ExitClosesOwnSocketOnly
<1>1. ASSUME IInv, [Next]_vars, NEW r \in Conns,
             writer[r] = "exit", writer'[r] = "done"
      PROVE  open \ open' \subseteq {r}
  <2>1. \E q \in Conns : StepOf(q)
    BY <1>1 DEF Next, StepOf, Terminated, SlowClientClosed
  <2>2. WriterExits(r)
    BY <1>1, <2>1, WriterEndsByExit DEF IInv
  <2>3. open' = IF once[obj[r]] THEN open ELSE open \ {conn[obj[r]]}
    BY <2>2 DEF WriterExits, CloseOnce
  <2>4. CASE once[obj[r]]
    BY <2>3, <2>4
  <2>5. CASE ~once[obj[r]]
    <3>1. phase[r] \in ReadPhases \cup {"close"}
      BY <1>1, <2>5 DEF IInv, Ownership, OnceSpent
    <3>2. conn[obj[r]] = r
      BY <1>1, <3>1 DEF IInv, Ownership, OwnConnection, BoundPhases, RegisteredPhases
    <3>3. open' = open \ {r}
      BY <2>3, <2>5, <3>2, Zenon
    <3> QED BY <3>3
  <2> QED BY <2>4, <2>5
<1>2. IInv /\ [Next]_vars =>
        [\A r \in Conns : writer[r] = "exit" /\ writer'[r] = "done"
                            => open \ open' \subseteq {r}]_vars
  BY <1>1
<1> QED BY <1>2, Invariance, PTL DEF Spec, ExitClosesOwnSocketOnly

-----------------------------------------------------------------------------
(***************************************************************************)
(* Refinement.                                                             *)
(***************************************************************************)
gateBar == [r \in Conns |-> GateOf(r)]

\* How a step of attempt r moves through the phases, as the gate sees it: it
\* stays where it is, is refused, opens below the capacity, or ends.
Stays(r) ==
    /\ phase[r] \in HoldingPhases <=> phase'[r] \in HoldingPhases
    /\ phase[r] \in {"idle", "acquire"} <=> phase'[r] \in {"idle", "acquire"}
Refused(r) == phase[r] \in {"idle", "acquire"} /\ phase'[r] = "rejected"
Opens(r) == phase[r] = "acquire" /\ phase'[r] = "upgrade" /\ sem < MaxConnections
Ends(r) == phase[r] \in HoldingPhases /\ phase'[r] \in {"rejected", "unlimit"}

\* One attempt moves at a time, and in one of the four ways.
LEMMA PhaseMoves ==
    ASSUME TypeOK, NEW r \in Conns, StepOf(r)
    PROVE  /\ \A q \in Conns \ {r} : phase'[q] = phase[q]
           /\ Stays(r) \/ Refused(r) \/ Opens(r) \/ Ends(r)
<1> USE DEF TypeOK, Goto, Stays, Refused, Opens, Ends, HoldingPhases,
            OwnerPhases, BoundPhases, RegisteredPhases, ReadPhases
<1>1. CASE Handler(r)
  BY <1>1 DEF Handler, RejectedByGuard, AcceptedByGuard, AcquireSlot,
     AcquireTimesOut, UpgradeFails, UpgradeSucceeds, GetClient, Register,
     StartPumps
<1>2. CASE Reader(r)
  BY <1>2 DEF Reader, ReadOther, SubscribeSet, SubscribeIndex,
     UnsubscribeSet, UnsubscribeIndex, ReadFails
<1>3. CASE Cleanup(r)
  BY <1>3 DEF Cleanup, CleanupClose, CleanupUnregister, CleanupUncount,
     CleanupUnindex, CleanupReset, CleanupPool, CleanupRelease,
     CleanupRateLimiter
<1>4. CASE Writer(r) \/ ConnDrops(r)
  BY <1>4 DEF Writer, WriterWakes, WriterWrites, WriterFails, WriterPanics,
     WriterExits, ConnDrops
<1> QED BY <1>1, <1>2, <1>3, <1>4 DEF StepOf

\* A move of one attempt is a step of the gate, or none.
LEMMA MoveRefines ==
    ASSUME Accounting, NEW r \in Conns,
           \A q \in Conns \ {r} : phase'[q] = phase[q],
           Stays(r) \/ Refused(r) \/ Opens(r) \/ Ends(r)
    PROVE  Gate!GateNext \/ gateBar' = gateBar
<1>1. \A q \in Conns \ {r} : GateOf(q)' = GateOf(q)
  BY DEF GateOf, Holders
<1>2. gateBar' = [gateBar EXCEPT ![r] = GateOf(r)']
  BY <1>1 DEF gateBar
<1>3. GateOf(r) = IF phase[r] \in HoldingPhases THEN "open"
                  ELSE IF phase[r] \in {"idle", "acquire"} THEN "waiting" ELSE "ended"
  BY DEF GateOf, Holders
<1>4. GateOf(r)' = IF phase'[r] \in HoldingPhases THEN "open"
                   ELSE IF phase'[r] \in {"idle", "acquire"} THEN "waiting" ELSE "ended"
  BY DEF GateOf, Holders
<1>5. gateBar[r] = GateOf(r)
  BY DEF gateBar
<1> USE DEF HoldingPhases, OwnerPhases, BoundPhases, RegisteredPhases, ReadPhases
<1>6. CASE Stays(r)
  <2>1. GateOf(r)' = GateOf(r)
    BY <1>3, <1>4, <1>6 DEF Stays
  <2> QED BY <1>2, <1>5, <2>1 DEF gateBar
<1>7. CASE Refused(r)
  <2>1. GateOf(r) = "waiting" /\ GateOf(r)' = "ended"
    BY <1>3, <1>4, <1>7 DEF Refused
  <2>2. Gate!Refuse(r)
    BY <1>2, <1>5, <2>1 DEF Gate!Refuse, gateBar
  <2> QED BY <2>2 DEF Gate!GateNext
<1>8. CASE Opens(r)
  <2>1. GateOf(r) = "waiting" /\ GateOf(r)' = "open"
    BY <1>3, <1>4, <1>8 DEF Opens
  <2>2. Gate!OpenAttempts = Holders
    BY DEF Gate!OpenAttempts, GateOf, Holders
  <2>3. Gate!Cardinality(Gate!OpenAttempts) < MaxConnections
    <3>1. Gate!Cardinality(Holders) = Cardinality(Holders)
      BY DEF Gate!Cardinality, Cardinality
    <3> QED BY <3>1, <2>2, <1>8 DEF Opens, Accounting
  <2>4. Gate!Open(r)
    BY <1>2, <1>5, <2>1, <2>3 DEF Gate!Open, gateBar
  <2> QED BY <2>4 DEF Gate!GateNext
<1>9. CASE Ends(r)
  <2>1. GateOf(r) = "open" /\ GateOf(r)' = "ended"
    BY <1>3, <1>4, <1>9 DEF Ends
  <2>2. Gate!Close(r)
    BY <1>2, <1>5, <2>1 DEF Gate!Close, gateBar
  <2> QED BY <2>2 DEF Gate!GateNext
<1> QED BY <1>6, <1>7, <1>8, <1>9

\* The handlers, the pumps, the semaphore and the cleanup implement the gate
\* of MaxConnections places: no attempt is ever let in above the capacity, let
\* in twice, or back after it ended.
THEOREM LifecycleImplementsGate == Spec => ImplementsGate
<1>1. Init => Gate!GateInit
  BY DEF Init, Gate!GateInit, GateOf, Holders, HoldingPhases, OwnerPhases,
         BoundPhases, RegisteredPhases, ReadPhases
<1>2. IInv /\ [Next]_vars => Gate!GateNext \/ gateBar' = gateBar
  <2> SUFFICES ASSUME IInv, [Next]_vars
               PROVE  Gate!GateNext \/ gateBar' = gateBar
    OBVIOUS
  <2>1. ASSUME NEW r \in Conns, StepOf(r)
        PROVE  Gate!GateNext \/ gateBar' = gateBar
    BY <2>1, PhaseMoves, MoveRefines DEF IInv
  <2>2. ASSUME phase' = phase PROVE gateBar' = gateBar
    BY <2>2 DEF gateBar, GateOf, Holders
  <2> QED BY <2>1, <2>2 DEF Next, StepOf, Terminated, SlowClientClosed
<1>3. IInv /\ [Next]_vars => [Gate!GateNext]_gateBar
  BY <1>2
<1> QED BY <1>1, <1>3, Invariance, PTL
        DEF Spec, ImplementsGate, Gate!GateSpec, gateBar

-----------------------------------------------------------------------------
(***************************************************************************)
(* The two subscription structures.                                        *)
(***************************************************************************)

\* What the set and the index of r's object have in common in each phase:
\* both empty before the read loop, equal between messages, and apart by the
\* channels of the message in its two halves.
InStep(r) ==
    /\ phase[r] \in {"register", "start"} => subs[obj[r]] = {}
    /\ \A ch \in Channels :
        /\ phase[r] = "read" =>
             (ch \in subs[obj[r]] <=> obj[r] \in index[ch])
        /\ phase[r] = "subscribe" =>
             (ch \in subs[obj[r]] <=> obj[r] \in index[ch] \/ ch \in request[r])
        /\ phase[r] = "unsubscribe" =>
             (ch \in subs[obj[r]] <=> obj[r] \in index[ch] /\ ch \notin request[r])

IndexedPhases == ReadPhases \cup {"close", "unregister", "uncount", "unindex"}

IndexOwned ==
    \A ch \in Channels : \A o \in index[ch] :
        \E r \in Conns : obj[r] = o /\ phase[r] \in IndexedPhases

Agreement == (\A r \in Conns : InStep(r)) /\ IndexOwned

\* At the start no connection, object or index holds a subscription.
LEMMA AgreementInit == Init => Agreement
  BY DEF Init, Agreement, InStep, IndexOwned

\* A step that leaves the objects' set and index alone and takes r neither
\* into the handled phases nor out of the indexed ones keeps the agreement.
LEMMA AgreementQuiet ==
    ASSUME Agreement, UNCHANGED <<obj, subs, index, request>>,
           \A r \in Conns :
              /\ phase'[r] = phase[r] \/ phase'[r] \notin
                     {"register", "start", "read", "subscribe", "unsubscribe"}
              /\ phase[r] \in IndexedPhases => phase'[r] \in IndexedPhases
    PROVE  Agreement'
  BY DEF Agreement, InStep, IndexOwned

\* One connection's message or cleanup leaves the object of another alone.
LEMMA OthersInStep ==
    ASSUME IInv, Agreement, NEW r \in Conns, phase[r] \in OwnerPhases,
           UNCHANGED obj,
           \A q \in Conns \ {r} :
              phase'[q] = phase[q] /\ request'[q] = request[q],
           \A o \in Clients \ {obj[r]} :
              /\ subs'[o] = subs[o]
              /\ \A ch \in Channels : o \in index'[ch] <=> o \in index[ch]
    PROVE  \A q \in Conns \ {r} : InStep(q)'
  BY DEF IInv, Ownership, ObjectSet, ExclusiveOwnership, Agreement, InStep,
         OwnerPhases, BoundPhases, RegisteredPhases, ReadPhases

\* The index gains and loses only the object of the connection that moves,
\* and that connection owns what stays in it.
LEMMA StillOwned ==
    ASSUME IInv, Agreement, NEW r \in Conns, phase[r] \in IndexedPhases,
           UNCHANGED obj,
           \A q \in Conns \ {r} : phase'[q] = phase[q],
           \A ch \in Channels : index'[ch] \subseteq index[ch] \cup {obj[r]},
           \/ phase'[r] \in IndexedPhases
           \/ \A ch \in Channels : obj[r] \notin index'[ch]
    PROVE  IndexOwned'
  BY DEF Agreement, IndexOwned

\* Every step of the lifecycle keeps the object's set and the server's index
\* apart by no more than the request being handled.
LEMMA StepKeepsAgreement ==
    ASSUME IInv, Agreement, NEW r \in Conns, StepOf(r)
    PROVE  Agreement'
<1> USE DEF IndexedPhases, ReadPhases, OwnerPhases, BoundPhases, RegisteredPhases
<1>1. CASE \/ RejectedByGuard(r) \/ AcceptedByGuard(r) \/ AcquireSlot(r)
           \/ AcquireTimesOut(r) \/ UpgradeFails(r) \/ UpgradeSucceeds(r)
           \/ ReadOther(r) \/ ReadFails(r)
  <2>1. /\ UNCHANGED <<obj, subs, index, request>>
        /\ \A q \in Conns :
              /\ phase'[q] = phase[q] \/ phase'[q] \notin
                     {"register", "start", "read", "subscribe", "unsubscribe"}
              /\ phase[q] \in IndexedPhases => phase'[q] \in IndexedPhases
    BY <1>1 DEF IInv, TypeOK, RejectedByGuard, AcceptedByGuard, AcquireSlot,
       AcquireTimesOut, UpgradeFails, UpgradeSucceeds, ReadOther, ReadFails, Goto
  <2> QED BY <2>1, AgreementQuiet
<1>2. CASE \/ CleanupClose(r) \/ CleanupUnregister(r) \/ CleanupUncount(r)
           \/ CleanupPool(r) \/ CleanupRelease(r) \/ CleanupRateLimiter(r)
  <2>1. /\ UNCHANGED <<obj, subs, index, request>>
        /\ \A q \in Conns :
              /\ phase'[q] = phase[q] \/ phase'[q] \notin
                     {"register", "start", "read", "subscribe", "unsubscribe"}
              /\ phase[q] \in IndexedPhases => phase'[q] \in IndexedPhases
    BY <1>2 DEF IInv, TypeOK, CleanupClose, CleanupUnregister, CleanupUncount,
       CleanupPool, CleanupRelease, CleanupRateLimiter, Goto
  <2> QED BY <2>1, AgreementQuiet
<1>3. CASE Writer(r) \/ ConnDrops(r)
  <2>1. UNCHANGED <<phase, obj, subs, index, request>>
    BY <1>3 DEF Writer, WriterWakes, WriterWrites, WriterFails, WriterPanics,
       WriterExits, ConnDrops
  <2> QED BY <2>1, AgreementQuiet
<1>4. CASE GetClient(r)
  <2>1. PICK o \in pool \cup fresh : /\ obj' = [obj EXCEPT ![r] = o]
                                     /\ subs' = [subs EXCEPT ![o] = {}]
    BY <1>4 DEF GetClient
  <2>2. /\ phase[r] = "get" /\ phase' = [phase EXCEPT ![r] = "register"]
        /\ UNCHANGED <<index, request>>
    BY <1>4 DEF GetClient, Goto
  <2>3. o \in Clients /\ \A q \in Conns : phase[q] \in OwnerPhases => obj[q] # o
    BY <2>1 DEF IInv, TypeOK, Ownership, ExclusiveOwnership
  <2>4. \A q \in Conns : InStep(q)'
    BY <2>1, <2>2, <2>3 DEF IInv, TypeOK, Ownership, ObjectSet, Agreement, InStep
  <2>5. IndexOwned'
    BY <2>1, <2>2 DEF IInv, TypeOK, Agreement, IndexOwned
  <2> QED BY <2>4, <2>5 DEF Agreement
<1>5. CASE Register(r)
  <2>1. /\ phase[r] = "register" /\ phase' = [phase EXCEPT ![r] = "start"]
        /\ UNCHANGED <<obj, subs, index, request>>
    BY <1>5 DEF Register, Goto
  <2> QED BY <2>1 DEF IInv, TypeOK, Agreement, InStep, IndexOwned
<1>6. CASE StartPumps(r)
  <2>1. /\ phase[r] = "start" /\ phase' = [phase EXCEPT ![r] = "read"]
        /\ UNCHANGED <<obj, subs, index, request>>
    BY <1>6 DEF StartPumps, Goto
  <2>2. \A ch \in Channels : obj[r] \notin index[ch]
    BY <2>1 DEF IInv, Ownership, IndexFollows
  <2> QED BY <2>1, <2>2 DEF IInv, TypeOK, Agreement, InStep, IndexOwned
<1>7. CASE SubscribeSet(r) \/ UnsubscribeSet(r)
  <2>1. /\ phase[r] = "read" /\ UNCHANGED <<obj, index>>
        /\ \A q \in Conns \ {r} : phase'[q] = phase[q] /\ request'[q] = request[q]
        /\ \A o \in Clients \ {obj[r]} : subs'[o] = subs[o]
        /\ phase'[r] \in {"subscribe", "unsubscribe"}
    BY <1>7 DEF IInv, TypeOK, SubscribeSet, UnsubscribeSet, Goto
  <2>2. \A q \in Conns \ {r} : InStep(q)'
    BY <2>1, OthersInStep
  <2>3. obj[r] \in Clients
    BY <2>1 DEF IInv, Ownership, ObjectSet
  <2>4. InStep(r)'
    BY <1>7, <2>1, <2>3 DEF IInv, TypeOK, Agreement, InStep,
       SubscribeSet, UnsubscribeSet, Goto
  <2>5. IndexOwned'
    BY <2>1, StillOwned
  <2> QED BY <2>2, <2>4, <2>5 DEF Agreement
<1>8. CASE SubscribeIndex(r) \/ UnsubscribeIndex(r)
  <2>1. /\ phase[r] \in {"subscribe", "unsubscribe"} /\ UNCHANGED <<obj, subs>>
        /\ \A q \in Conns \ {r} : phase'[q] = phase[q] /\ request'[q] = request[q]
        /\ \A ch \in Channels : index'[ch] \subseteq index[ch] \cup {obj[r]}
        /\ \A ch \in Channels : \A o \in Clients \ {obj[r]} :
              o \in index'[ch] <=> o \in index[ch]
        /\ phase'[r] = "read"
    BY <1>8 DEF IInv, TypeOK, SubscribeIndex, UnsubscribeIndex, Goto
  <2>2. \A q \in Conns \ {r} : InStep(q)'
    BY <2>1, OthersInStep
  <2>3. InStep(r)'
    BY <1>8, <2>1 DEF IInv, TypeOK, Agreement, InStep,
       SubscribeIndex, UnsubscribeIndex, Goto
  <2>4. IndexOwned'
    BY <2>1, StillOwned
  <2> QED BY <2>2, <2>3, <2>4 DEF Agreement
<1>9. CASE CleanupUnindex(r)
  <2>1. /\ phase[r] = "unindex" /\ phase' = [phase EXCEPT ![r] = "reset"]
        /\ index' = [ch \in Channels |-> index[ch] \ {obj[r]}]
        /\ UNCHANGED <<obj, subs, request>>
    BY <1>9 DEF CleanupUnindex, Goto
  <2>2. \A q \in Conns \ {r} : InStep(q)'
    BY <2>1, OthersInStep DEF IInv, TypeOK
  <2>3. InStep(r)'
    BY <2>1 DEF IInv, TypeOK, InStep
  <2>4. IndexOwned'
    BY <2>1, StillOwned DEF IInv, TypeOK
  <2> QED BY <2>2, <2>3, <2>4 DEF Agreement
<1>10. CASE CleanupReset(r)
  <2>1. /\ phase[r] = "reset" /\ phase' = [phase EXCEPT ![r] = "pool"]
        /\ subs' = [subs EXCEPT ![obj[r]] = {}]
        /\ UNCHANGED <<obj, index, request>>
    BY <1>10 DEF CleanupReset, Goto
  <2>2. \A q \in Conns \ {r} : InStep(q)'
    BY <2>1, OthersInStep DEF IInv, TypeOK
  <2>3. InStep(r)'
    BY <2>1 DEF IInv, TypeOK, InStep
  <2>4. IndexOwned'
    BY <2>1 DEF IInv, TypeOK, Agreement, IndexOwned
  <2> QED BY <2>2, <2>3, <2>4 DEF Agreement
<1> QED BY <1>1, <1>2, <1>3, <1>4, <1>5, <1>6, <1>7, <1>8, <1>9, <1>10
        DEF StepOf, Handler, Reader, Cleanup

\* The client's own set and the global index agree between messages, for any
\* number of connections, objects and channels, and the index names no object
\* that is not in use.
THEOREM SubscriptionsStayInStep == Spec => []SubscriptionsAgree
<1>1. IInv /\ Agreement /\ [Next]_vars => Agreement'
  <2> SUFFICES ASSUME IInv, Agreement, [Next]_vars PROVE Agreement'
    OBVIOUS
  <2>1. ASSUME NEW r \in Conns, StepOf(r) PROVE Agreement'
    BY <2>1, StepKeepsAgreement
  <2>2. ASSUME NEW o \in Clients, SlowClientClosed(o) PROVE Agreement'
    BY <2>2, AgreementQuiet DEF SlowClientClosed
  <2>3. CASE UNCHANGED vars
    BY <2>3, AgreementQuiet
  <2> QED BY <2>1, <2>2, <2>3 DEF Next, StepOf, Terminated
<1>2. Agreement => SubscriptionsAgree
  BY DEF Agreement, InStep, IndexOwned, IndexedPhases, SubscriptionsAgree
<1> QED BY <1>1, <1>2, AgreementInit, Invariance, PTL DEF Spec
=============================================================================
