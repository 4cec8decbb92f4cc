-------------------------- MODULE MonitoringProofs --------------------------
(***************************************************************************)
(* Proofs about Monitoring, for any number of reconnection attempts and    *)
(* any distance between two checks of the subscription.                    *)
(***************************************************************************)
EXTENDS Monitoring, TLAPS

USE DEF loadVars, natsVars

-----------------------------------------------------------------------------
(***************************************************************************)
(* Types.  The counter of ticks stays in its bounds because a check that   *)
(* is overdue is made and resets it: between two rounds it is CheckEvery   *)
(* at most.                                                                *)
(***************************************************************************)
TicksBounded == monitor.pc = "wait" => monitor.ticks <= CheckEvery

TypeInv == TypeOK /\ TicksBounded

\* What the samplers read is in the range of the gauges.
LEMMA Readings ==
    \A l \in Loads : CPU(l) \in 0..2 /\ RSS(l) \in 0..2 /\ HeapOver(l) \in BOOLEAN
  BY DEF Loads, CPU, RSS, HeapOver

\* The monitors start with what they find.
LEMMA TypeInit == Init => TypeInv
<1> SUFFICES ASSUME Init PROVE TypeInv
  OBVIOUS
<1>1. nats \in [status : {"connected", "reconnecting", "closed"},
                attempts : 0..MaxReconnects]
  BY MonitoringAssumption DEF Init
<1>2. /\ monitor \in [pc : {"wait", "check"}, was : BOOLEAN, is : BOOLEAN,
                      ticks : 0..(CheckEvery + 1)]
      /\ TicksBounded
  BY MonitoringAssumption DEF Init, IsConnected, TicksBounded
<1>3. /\ load \in Loads /\ memoryAlarm \in BOOLEAN
      /\ stats \in [cpu : 0..2, memory : 0..2]
      /\ guard \in [cpu : 0..2, memory : BOOLEAN]
      /\ natsGauge \in BOOLEAN /\ subReported \in BOOLEAN
  <2>1. load \in Loads /\ memoryAlarm = FALSE /\ natsGauge = FALSE /\ subReported = FALSE
    BY DEF Init
  <2>2. stats \in [cpu : 0..2, memory : 0..2]
    BY DEF Init
  <2>3. guard \in [cpu : 0..2, memory : BOOLEAN]
    BY DEF Init
  <2>4. QED
    BY <2>1, <2>2, <2>3
<1>4. losses \in Int
  BY DEF Init
<1>5. QED
  BY <1>1, <1>2, <1>3, <1>4 DEF TypeInv, TypeOK

\* Every step keeps the types.
LEMMA TypeStep == TypeInv /\ [Next]_vars => TypeInv'
<1> SUFFICES ASSUME TypeInv, [Next]_vars PROVE TypeInv'
  OBVIOUS
<1> USE DEF TypeInv
<1>1. CASE LoadChanges \/ CollectMetrics \/ UpdateResources \/ MonitorMemory
  <2>1. /\ load' \in Loads
        /\ stats' \in [cpu : 0..2, memory : 0..2]
        /\ guard' \in [cpu : 0..2, memory : BOOLEAN]
        /\ memoryAlarm' \in BOOLEAN
        /\ UNCHANGED natsVars
    <3>1. load \in Loads
      BY DEF TypeOK
    <3>2. CASE LoadChanges
      BY <3>2 DEF TypeOK, LoadChanges
    <3>3. CASE CollectMetrics
      BY <3>1, <3>3, Readings DEF TypeOK, CollectMetrics
    <3>4. CASE UpdateResources
      BY <3>1, <3>4, Readings DEF TypeOK, UpdateResources
    <3>5. CASE MonitorMemory
      BY <3>5 DEF TypeOK, MonitorMemory
    <3>6. QED
      BY <1>1, <3>2, <3>3, <3>4, <3>5
  <2>2. QED
    BY <2>1 DEF TypeOK, TicksBounded
<1>2. CASE LoseNATS \/ Reconnect \/ ReconnectFails
  <2>1. nats' \in [status : {"connected", "reconnecting", "closed"},
                   attempts : 0..MaxReconnects]
    BY <1>2, MonitoringAssumption DEF TypeOK, LoseNATS, Reconnect, ReconnectFails
  <2>2. UNCHANGED <<loadVars, natsGauge, monitor, losses, subReported>>
    BY <1>2 DEF LoseNATS, Reconnect, ReconnectFails
  <2>3. QED
    BY <2>1, <2>2 DEF TypeOK, TicksBounded
<1>3. CASE Collect
  BY <1>3 DEF TypeOK, TicksBounded, Collect, IsConnected
<1>4. CASE TickNATS
  <2>1. monitor.ticks + 1 \in 0..(CheckEvery + 1)
    BY <1>4, MonitoringAssumption DEF TypeOK, TicksBounded, TickNATS
  <2>2. /\ monitor' \in [pc : {"wait", "check"}, was : BOOLEAN, is : BOOLEAN,
                         ticks : 0..(CheckEvery + 1)]
        /\ TicksBounded'
    BY <1>4, <2>1 DEF TypeOK, TicksBounded, TickNATS, IsConnected
  <2>3. losses' \in Int
    BY <1>4 DEF TypeOK, TickNATS
  <2>4. QED
    BY <1>4, <2>2, <2>3 DEF TypeOK, TickNATS
<1>5. CASE CheckNATS
  <2>1. PICK due \in BOOLEAN :
          /\ SubCheckDue(due)
          /\ subReported' = (subReported \/ (due /\ ~IsValid))
          /\ monitor' = [monitor EXCEPT !.pc = "wait", !.was = monitor.is,
                                        !.ticks = IF due THEN 0 ELSE @]
    BY <1>5 DEF CheckNATS
  <2>2. (IF due THEN 0 ELSE monitor.ticks) \in 0..CheckEvery
    BY <2>1, MonitoringAssumption DEF SubCheckDue, TypeOK
  <2>3. /\ monitor' \in [pc : {"wait", "check"}, was : BOOLEAN, is : BOOLEAN,
                         ticks : 0..(CheckEvery + 1)]
        /\ TicksBounded'
    <3> DEFINE ticks == IF due THEN 0 ELSE monitor.ticks
    <3> HIDE DEF ticks
    <3>1. ticks \in 0..(CheckEvery + 1) /\ ticks <= CheckEvery
      BY <2>2, MonitoringAssumption DEF ticks
    <3>2. monitor' = [monitor EXCEPT !.pc = "wait", !.was = monitor.is, !.ticks = ticks]
      BY <2>1 DEF ticks
    <3>3. QED
      BY <3>1, <3>2 DEF TypeOK, TicksBounded
  <2>4. subReported' \in BOOLEAN
    <3>1. ASSUME NEW a \in BOOLEAN, NEW b \in BOOLEAN PROVE (a \/ (b /\ ~IsValid)) \in BOOLEAN
      BY DEF IsValid
    <3>2. subReported \in BOOLEAN
      BY DEF TypeOK
    <3>3. QED
      BY <2>1, <3>1, <3>2
  <2>5. QED
    BY <1>5, <2>3, <2>4 DEF TypeOK, CheckNATS
<1>6. CASE UNCHANGED vars
  BY <1>6 DEF TypeOK, TicksBounded, vars
<1>7. QED
  BY <1>1, <1>2, <1>3, <1>4, <1>5, <1>6 DEF Next

\* Every reading is in its range, and the clock of the subscription check is
\* never more than one round late.
THEOREM MonitoringTypes == Spec => []TypeOK
  BY TypeInit, TypeStep, PTL DEF Spec, TypeInv

-----------------------------------------------------------------------------
(***************************************************************************)
(* The reports of losses.  What was reported last is what the monitor saw  *)
(* in its latest round, not what the connection is now: within a round     *)
(* that is isConnected, between two rounds wasConnected.                   *)
(***************************************************************************)
Seen == IF monitor.pc = "wait" THEN monitor.was ELSE monitor.is

ReportedAsSeen == losses = IF Seen THEN 0 ELSE 1

\* Every step keeps the account: a report is made exactly when what is seen
\* changes.
LEMMA ReportsStep == TypeOK /\ ReportedAsSeen /\ [Next]_vars => ReportedAsSeen'
<1> SUFFICES ASSUME TypeOK, ReportedAsSeen, [Next]_vars PROVE ReportedAsSeen'
  OBVIOUS
<1>1. CASE TickNATS
  <2>1. Seen = monitor.was /\ Seen' = IsConnected
    BY <1>1 DEF TypeOK, TickNATS, Seen
  <2>2. monitor.was \in BOOLEAN /\ IsConnected \in BOOLEAN
    BY DEF TypeOK, IsConnected
  <2>3. QED
    BY <1>1, <2>1, <2>2 DEF TypeOK, TickNATS, ReportedAsSeen
<1>2. CASE CheckNATS
  <2>1. Seen' = Seen /\ losses' = losses
    BY <1>2 DEF TypeOK, CheckNATS, Seen
  <2>2. QED
    BY <2>1 DEF ReportedAsSeen
<1>3. CASE UNCHANGED <<monitor, losses>>
  BY <1>3 DEF ReportedAsSeen, Seen
<1>4. QED
  BY <1>1, <1>2, <1>3
     DEF Next, LoadChanges, LoseNATS, Reconnect, ReconnectFails, CollectMetrics,
         UpdateResources, MonitorMemory, Collect, vars

\* Reports of a loss and of a return alternate, however the connection flaps
\* between two rounds or within one.
THEOREM ReportsAlternate == Spec => []LossesAlternate
<1>1. Init => ReportedAsSeen
  BY DEF Init, ReportedAsSeen, Seen
<1>2. ReportedAsSeen => LossesAlternate
  BY DEF ReportedAsSeen, LossesAlternate
<1>3. QED
  BY <1>1, <1>2, ReportsStep, MonitoringTypes, PTL DEF Spec
=============================================================================
