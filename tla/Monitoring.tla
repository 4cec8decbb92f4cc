----------------------------- MODULE Monitoring -----------------------------
(***************************************************************************)
(* What the server knows of its surroundings.  Periodic samplers copy the  *)
(* load of the machine, the admission guard from one of them and /health   *)
(* from another; monitorNATS and the metrics collector look at the NATS    *)
(* connection, which gives up after MaxReconnects failed attempts and is   *)
(* then closed for good while the server goes on.                          *)
(***************************************************************************)
EXTENDS Integers

CONSTANTS
    MaxReconnects,  \* nats.MaxReconnects(5)
    CheckEvery      \* ticks of 5 s between two checks of the subscription (6)

ASSUME MonitoringAssumption == MaxReconnects \in Nat /\ CheckEvery \in Nat \ {0}

VARIABLES
    load,         \* the machine
    stats,        \* Stats: sampled by collectMetrics, read by handleHealth
    guard,        \* ResourceGuard: sampled by UpdateResources
    memoryAlarm,  \* HighMemoryUsage (above 90%) in the latest round of monitorMemory
    nats,         \* the connection: status and failed attempts
    natsGauge,    \* the Prometheus gauge
    monitor,      \* monitorNATS: pc, wasConnected, isConnected, ticks
    losses,       \* history: NATSDisconnected reports minus NATSReconnected
    subReported   \* history: NATSSubscriptionInvalid was reported

loadVars == <<load, stats, guard, memoryAlarm>>
natsVars == <<nats, natsGauge, monitor, losses, subReported>>
vars == <<loadVars, natsVars>>

\* Loads the thresholds tell apart.  Validate makes the pause threshold at
\* least the reject threshold, so "critical" exceeds both and "busy" one.
\* The heap (mem.Alloc) is part of the resident set (RSS): when the heap is
\* over the limit so is the resident set, but not the other way round; "near"
\* is a resident set beyond 90% of the limit, and "resident" beyond all of it.
Loads == {"calm", "busy", "critical", "near", "resident", "heap"}

CPU(l) == CASE l = "busy" -> 1 [] l = "critical" -> 2 [] OTHER -> 0
RSS(l) == CASE l = "near" -> 1 [] l \in {"resident", "heap"} -> 2 [] OTHER -> 0
HeapOver(l) == l = "heap"

IsConnected == nats.status = "connected"
IsValid == nats.status # "closed"

Init ==
    /\ load \in Loads
    /\ stats = [cpu |-> 0, memory |-> 0]
    /\ guard = [cpu |-> 0, memory |-> FALSE]
    /\ memoryAlarm = FALSE
    /\ nats \in [status : {"connected", "reconnecting"}, attempts : {0}]
    /\ natsGauge = FALSE
    /\ monitor = [pc |-> "wait", was |-> IsConnected, is |-> IsConnected, ticks |-> 0]
    /\ losses = IF IsConnected THEN 0 ELSE 1  \* as if reported before
    /\ subReported = FALSE

-----------------------------------------------------------------------------
(***************************************************************************)
(* The surroundings: load, and the NATS client library.                    *)
(***************************************************************************)
LoadChanges ==
    /\ load' \in Loads
    /\ UNCHANGED <<stats, guard, memoryAlarm, natsVars>>

LoseNATS ==
    /\ IsConnected
    /\ nats' = [status |-> "reconnecting", attempts |-> 0]
    /\ UNCHANGED <<loadVars, natsGauge, monitor, losses, subReported>>

Reconnect ==
    /\ nats.status = "reconnecting"
    /\ nats' = [status |-> "connected", attempts |-> 0]
    /\ UNCHANGED <<loadVars, natsGauge, monitor, losses, subReported>>

\* The last failed attempt closes the connection and its subscription.
ReconnectFails ==
    /\ nats.status = "reconnecting"
    /\ nats' = IF nats.attempts < MaxReconnects
               THEN [nats EXCEPT !.attempts = @ + 1]
               ELSE [status |-> "closed", attempts |-> 0]
    /\ UNCHANGED <<loadVars, natsGauge, monitor, losses, subReported>>

-----------------------------------------------------------------------------
(***************************************************************************)
(* The samplers.  A reading that fails leaves the old value, like a round  *)
(* that does not happen.                                                   *)
(***************************************************************************)

\* collectMetrics, every 2 s: CPU, and the resident set of the process.
CollectMetrics ==
    /\ stats' = [cpu |-> CPU(load), memory |-> RSS(load)]
    /\ UNCHANGED <<load, guard, memoryAlarm, natsVars>>

\* Mutant: the memory reading is taken and not stored.
UpdateResourcesOnlyCPU ==
    /\ guard' = [guard EXCEPT !.cpu = CPU(load)]
    /\ UNCHANGED <<load, stats, memoryAlarm, natsVars>>

\* UpdateResources, every MetricsInterval: CPU, and the heap.
UpdateResources ==
    /\ guard' = [cpu |-> CPU(load), memory |-> HeapOver(load)]
    /\ UNCHANGED <<load, stats, memoryAlarm, natsVars>>

\* monitorMemory, every 30 s, from what collectMetrics has stored.
MonitorMemory ==
    /\ memoryAlarm' = (stats.memory >= 1)
    /\ UNCHANGED <<load, stats, guard, natsVars>>

\* MetricsCollector.collect, every MetricsInterval.
Collect ==
    /\ natsGauge' = IsConnected
    /\ UNCHANGED <<loadVars, nats, monitor, losses, subReported>>

-----------------------------------------------------------------------------
(***************************************************************************)
(* monitorNATS: every 5 s the connection, every 30 s the subscription too. *)
(***************************************************************************)
TickNATS ==
    /\ monitor.pc = "wait"
    /\ monitor' = [monitor EXCEPT !.pc = "check", !.is = IsConnected, !.ticks = @ + 1]
    /\ losses' = IF monitor.was /\ ~IsConnected THEN losses + 1
                 ELSE IF ~monitor.was /\ IsConnected THEN losses - 1
                 ELSE losses
    /\ UNCHANGED <<loadVars, nats, natsGauge, subReported>>

\* Have 30 s passed since lastSubCheck, which was read a little after its tick?
\* At the sixth tick perhaps, at the seventh certainly.
SubCheckDue(due) ==
    /\ monitor.ticks < CheckEvery => ~due
    /\ monitor.ticks > CheckEvery => due

\* Mutant: wasConnected keeps its first value.
CheckNATSKeepsWas ==
    /\ monitor.pc = "check"
    /\ \E due \in BOOLEAN :
         /\ SubCheckDue(due)
         /\ subReported' = (subReported \/ (due /\ ~IsValid))
         /\ monitor' = [monitor EXCEPT !.pc = "wait", !.ticks = IF due THEN 0 ELSE @]
    /\ UNCHANGED <<loadVars, nats, natsGauge, losses>>

\* Mutant: lastSubCheck is renewed in every round.
CheckNATSRestartsClock ==
    /\ monitor.pc = "check"
    /\ \E due \in BOOLEAN :
         /\ SubCheckDue(due)
         /\ subReported' = (subReported \/ (due /\ ~IsValid))
         /\ monitor' = [monitor EXCEPT !.pc = "wait", !.was = monitor.is, !.ticks = 0]
    /\ UNCHANGED <<loadVars, nats, natsGauge, losses>>

\* Mutant: lastSubCheck is never renewed.
CheckNATSKeepsClock ==
    /\ monitor.pc = "check"
    /\ \E due \in BOOLEAN :
         /\ SubCheckDue(due)
         /\ subReported' = (subReported \/ (due /\ ~IsValid))
         /\ monitor' = [monitor EXCEPT !.pc = "wait", !.was = monitor.is]
    /\ UNCHANGED <<loadVars, nats, natsGauge, losses>>

\* The rest of the round; the connection may have changed since its start.
CheckNATS ==
    /\ monitor.pc = "check"
    /\ \E due \in BOOLEAN :
         /\ SubCheckDue(due)
         /\ subReported' = (subReported \/ (due /\ ~IsValid))
         /\ monitor' = [monitor EXCEPT !.pc = "wait", !.was = monitor.is,
                                       !.ticks = IF due THEN 0 ELSE @]
    /\ UNCHANGED <<loadVars, nats, natsGauge, losses>>

-----------------------------------------------------------------------------
Next == \/ LoadChanges \/ LoseNATS \/ Reconnect \/ ReconnectFails
        \/ CollectMetrics \/ UpdateResources \/ MonitorMemory \/ Collect
        \/ TickNATS \/ CheckNATS

Spec == Init /\ [][Next]_vars

\* The tickers fire and a reading succeeds now and then; nothing is assumed of
\* the load or of NATS.
FairSpec ==
    /\ Spec
    /\ WF_vars(CollectMetrics) /\ WF_vars(UpdateResources)
    /\ WF_vars(MonitorMemory) /\ WF_vars(Collect)
    /\ WF_vars(TickNATS) /\ WF_vars(CheckNATS)

-----------------------------------------------------------------------------
(***************************************************************************)
(* What the rest of the server makes of it.                                *)
(***************************************************************************)

\* ShouldAcceptConnection, but for the numbers of connections and goroutines.
RefusesConnections == guard.cpu >= 1 \/ guard.memory

\* ShouldPauseNATS.
PausesNATS == guard.cpu = 2

\* handleHealth answers 503, goroutines aside; a full server is not unhealthy.
Unhealthy == ~IsConnected \/ stats.cpu >= 1 \/ stats.memory = 2

-----------------------------------------------------------------------------
(***************************************************************************)
(* What the code promises.                                                 *)
(***************************************************************************)

TypeOK ==
    /\ load \in Loads
    /\ stats \in [cpu : 0..2, memory : 0..2]
    /\ guard \in [cpu : 0..2, memory : BOOLEAN]
    /\ memoryAlarm \in BOOLEAN
    /\ nats \in [status : {"connected", "reconnecting", "closed"},
                 attempts : 0..MaxReconnects]
    /\ natsGauge \in BOOLEAN /\ subReported \in BOOLEAN
    /\ monitor \in [pc : {"wait", "check"}, was : BOOLEAN, is : BOOLEAN,
                    ticks : 0..(CheckEvery + 1)]
    /\ losses \in Int

\* A loss is reported once, and before another one its return is: an operator
\* never reads two NATSDisconnected in a row, however the connection flaps
\* between and within two rounds.
LossesAlternate == losses \in 0..1

\* When the load stays what it is, admission, the CPU brake, the memory alarm
\* and /health come to agree with it, from whatever old readings.
ReadingsCatchUp ==
    \A l \in Loads :
        <>[](load = l) =>
            <>[](/\ RefusesConnections = (l \in {"busy", "critical", "heap"})
                 /\ PausesNATS = (l = "critical")
                 /\ memoryAlarm = (l \in {"near", "resident", "heap"})
                 /\ Unhealthy = (~IsConnected \/ l \notin {"calm", "near"}))

\* A connection that is closed for good does not go unnoticed: its loss, its
\* invalid subscription and the gauge are reported and /health stays red,
\* which is all that tells anybody that no message will come again.
ClosedForGoodIsReported ==
    nats.status = "closed" ~>
        [](losses = 1 /\ subReported /\ ~natsGauge /\ Unhealthy)
=============================================================================
