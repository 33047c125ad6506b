------------------------- MODULE MemoryMonitorProofs -------------------------
(***************************************************************************)
(* The memory monitor implements Alarm and never loses a stamp, for all    *)
(* levels, thresholds, paths and bounds, as long as the clock advances.    *)
(***************************************************************************)
EXTENDS MemoryMonitor, CriticalStateProofs

\* One step of the monitor preserves the invariant and is a step of Alarm, or
\* one Alarm does not see.
LEMMA MemoryStep ==
    ASSUME AlarmInv, ClockAdvances, [Next]_monitorVars
    PROVE  AlarmInv' /\ AlarmStep
  <1>1. CASE MemoryInit
    <2>1. Restart("poll", FALSE)
      BY <1>1 DEF MemoryInit, Starts
    <2> QED BY <2>1, RestartAlarm
  <1>2. CASE MemoryReload
    <2>1. Restart("poll", FALSE)
      BY <1>2 DEF MemoryReload, Reloads
    <2> QED BY <2>1, RestartAlarm
  <1>3. CASE TimerFires
    BY <1>3, TimerAlarm
  <1>4. CASE RunMemoryMonitor
    <2>1. PICK u \in CalculateMemoryUtilization :
             NoRise(u) \/ \E now \in Readings : Rise(u, now)
      BY <1>4 DEF RunMemoryMonitor
    <2> QED BY <2>1, PollAlarm
  <1>5. CASE AfterPoll
    BY <1>5, AfterPollAlarm
  <1>6. CASE Controller
    BY <1>6, ControllerAlarm
  <1>7. CASE Environment
    BY <1>7, EnvironmentAlarm
  <1>8. CASE UNCHANGED monitorVars
    BY <1>8, StutterAlarm
  <1> QED BY <1>1, <1>2, <1>3, <1>4, <1>5, <1>6, <1>7, <1>8 DEF Next, Daemon

\* The invariant behind the two theorems.
LEMMA MemoryInv ==
    ASSUME ClockAdvances
    PROVE  Spec => []AlarmInv
  <1>1. MonitorInit => AlarmInv
    BY InitAlarm
  <1>2. AlarmInv /\ [Next]_monitorVars => AlarmInv'
    BY MemoryStep
  <1> QED BY <1>1, <1>2, PTL DEF Spec

(***************************************************************************)
(* run_memory_monitor and sysmngr_memory_init: the stamps in memory are    *)
(* the ones committed, at every point between two commits and after every  *)
(* restart and reload.                                                     *)
(***************************************************************************)
THEOREM MemoryStampsPersisted ==
    ASSUME ClockAdvances
    PROVE  Spec => []StampsPersisted
  <1>1. AlarmInv => StampsPersisted
    BY DEF AlarmInv
  <1> QED BY <1>1, MemoryInv, PTL

(***************************************************************************)
(* The monitor implements Alarm: an event is sent only in a recorded       *)
(* critical state, once, and not again before the end was recorded,        *)
(* whatever deaths of the daemon, reloads and changes of the thresholds    *)
(* come in between.                                                        *)
(***************************************************************************)
THEOREM MemoryAnnounced ==
    ASSUME ClockAdvances
    PROVE  Spec => Announced
  <1>1. MonitorInit => AlarmSpec!Init
    BY InitAlarm
  <1>2. AlarmInv /\ [Next]_monitorVars
            => [AlarmSpec!Next]_<<Critical, told>>
    <2> SUFFICES ASSUME AlarmInv, [Next]_monitorVars
                 PROVE  [AlarmSpec!Next]_<<Critical, told>>
      OBVIOUS
    <2>1. AlarmStep
      BY MemoryStep
    <2> QED BY <2>1 DEF AlarmStep
  <1> QED BY <1>1, <1>2, MemoryInv, PTL DEF Spec, Announced, AlarmSpec!Spec

-----------------------------------------------------------------------------
LEMMA MemoryWorks ==
    ASSUME ConfTyped, Works(TRUE), [Next]_monitorVars
    PROVE  ConfTyped' /\ Works(TRUE)'
  <1>1. CASE MemoryInit \/ MemoryReload
    <2>1. Restart("poll", FALSE)
      BY <1>1 DEF MemoryInit, MemoryReload, Starts, Reloads
    <2> QED BY <2>1, RestartWorks
  <1>2. CASE TimerFires
    BY <1>2, TimerWorks
  <1>3. CASE RunMemoryMonitor
    <2>1. PICK u \in CalculateMemoryUtilization :
             NoRise(u) \/ \E now \in Readings : Rise(u, now)
      BY <1>3 DEF RunMemoryMonitor
    <2> QED BY <2>1, PollWorks
  <1>4. CASE AfterPoll
    BY <1>4, AfterPollWorks
  <1>5. CASE Controller
    <2>1. ConfTyped' /\ reload' = TRUE
      BY <1>5, ControllerWorks
    <2> QED BY <2>1 DEF Works
  <1>6. CASE Environment
    BY <1>6, EnvironmentWorks
  <1>7. CASE UNCHANGED monitorVars
    BY <1>7, StutterWorks
  <1> QED BY <1>1, <1>2, <1>3, <1>4, <1>5, <1>6, <1>7 DEF Next, Daemon

(***************************************************************************)
(* sysmngr_memory_clean and sysmngr_memory_init upon sysmngr.reload: with  *)
(* no reload to come the monitor works with the configuration in UCI and   *)
(* polls exactly when it is enabled, however setters, reloads and polls    *)
(* follow each other; the clock does not matter.                           *)
(***************************************************************************)
THEOREM MemoryConfigApplied == Spec => []ConfigApplied
  <1>1. MonitorInit => ConfTyped /\ Works(TRUE)
    BY InitTyped DEF MonitorInit, Works
  <1>2. ConfTyped /\ Works(TRUE) /\ [Next]_monitorVars
            => ConfTyped' /\ Works(TRUE)'
    BY MemoryWorks
  <1>3. Works(TRUE) => ConfigApplied
    BY DEF Works, ConfigApplied, AppliedIf
  <1> QED BY <1>1, <1>2, <1>3, PTL DEF Spec

(***************************************************************************)
(* run_memory_monitor: the end of an announced critical state is recorded  *)
(* by the first poll that finds the utilisation below the threshold.       *)
(***************************************************************************)
THEOREM MemoryEndNoticed ==
    ASSUME ClockAdvances
    PROVE  Spec => EndNoticed
  <1> DEFINE Noticed ==
          pc = "fall_check" /\ pc' \notin {"fall_check", "down"} /\ told > 0
             /\ seen < ctx.fall => told' = 0
  <1>1. AlarmInv /\ [Next]_monitorVars => [Noticed]_monitorVars
    <2> SUFFICES ASSUME AlarmInv, Next, pc = "fall_check",
                        pc' \notin {"fall_check", "down"}, told > 0,
                        seen < ctx.fall
                 PROVE  told' = 0
      OBVIOUS
    <2>1. NoFall \/ \E now \in Readings \cup {clock} : Fall(now)
      BY DEF Next, Daemon, MemoryInit, MemoryReload, Starts, Reloads,
             TimerFires, RunMemoryMonitor, NoRise, Rise, AfterPoll, LogRise,
             SendEvent, LogFall, Arm, Controller, SetEnable,
             SetEnableCriticalLog, SetCriticalRiseThreshold,
             SetCriticalFallThreshold, SetFilePath, Write, Environment,
             SetLoad, Crash
    <2>2. riseSaved > fallSaved
      BY DEF AlarmInv, ToldOfCritical
    <2>3. Falls(seen)
      BY <2>2 DEF Falls, AlarmInv, StampsPersisted
    <2> QED BY <2>1, <2>3 DEF NoFall, Fall
  <1> QED BY <1>1, MemoryInv, PTL DEF Spec, EndNoticed

-----------------------------------------------------------------------------
\* The invariant behind the types.
MemoryTyped == ConfTyped /\ Works(TRUE) /\ DataTyped

LEMMA MemoryTypedStep ==
    ASSUME MemoryTyped, [Next]_monitorVars
    PROVE  MemoryTyped'
  <1>0. ConfTyped /\ Works(TRUE) /\ DataTyped
    BY DEF MemoryTyped
  <1>1. ConfTyped' /\ Works(TRUE)'
    BY <1>0, MemoryWorks
  <1>2. CASE MemoryInit \/ MemoryReload
    <2>1. Restart("poll", FALSE)
      BY <1>2 DEF MemoryInit, MemoryReload, Starts, Reloads
    <2> QED BY <1>0, <1>1, <2>1, RestartData DEF MemoryTyped
  <1>3. CASE TimerFires \/ UNCHANGED monitorVars
    BY <1>0, <1>1, <1>3 DEF TimerFires, monitorVars, disk, memory, outside,
       ghosts, DataTyped, MemoryTyped
  <1>4. CASE RunMemoryMonitor
    <2>1. PICK u \in CalculateMemoryUtilization :
             NoRise(u) \/ \E now \in Readings : Rise(u, now)
      BY <1>4 DEF RunMemoryMonitor
    <2>2. u \in Nat
      BY <1>0, CriticalStateAssumption
         DEF CalculateMemoryUtilization, DataTyped
    <2> QED BY <1>0, <1>1, <2>1, <2>2, PollData DEF MemoryTyped
  <1>5. CASE AfterPoll
    BY <1>0, <1>1, <1>5, AfterPollData DEF MemoryTyped
  <1>6. CASE Controller
    BY <1>0, <1>1, <1>6, ControllerData DEF MemoryTyped
  <1>7. CASE Environment
    BY <1>0, <1>1, <1>7, EnvironmentData DEF MemoryTyped
  <1> QED BY <1>2, <1>3, <1>4, <1>5, <1>6, <1>7 DEF Next, Daemon

(***************************************************************************)
(* The options, the stamps, the log and the place in the poll of the       *)
(* memory monitor (g_memory_ctx, memory.c) are what their types say,       *)
(* whatever the clock does.                                                *)
(***************************************************************************)
THEOREM MemoryTypes == Spec => []TypeOK
  <1>1. MonitorInit => MemoryTyped
    BY InitTyped, InitData DEF MonitorInit, Works, MemoryTyped
  <1>2. MemoryTyped /\ [Next]_monitorVars => MemoryTyped'
    BY MemoryTypedStep
  <1>3. MemoryTyped => TypeOK
    BY DEF MemoryTyped, ConfTyped, DataTyped, TypeOK, MonitorTypeOK, Inside
  <1> QED BY <1>1, <1>2, <1>3, PTL DEF Spec

=============================================================================
