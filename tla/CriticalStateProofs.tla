------------------------- MODULE CriticalStateProofs -------------------------
(***************************************************************************)
(* What the machinery of CriticalState preserves, whatever monitor drives  *)
(* it: the lemmas from which MemoryMonitorProofs and CpuMonitorProofs show *)
(* that each monitor implements Alarm.  They hold while time(NULL) is      *)
(* neither set back nor read twice in a second by a rise.                  *)
(***************************************************************************)
EXTENDS CriticalState, TLAPS

ClockAdvances == Disturbances \cap {"clock_back", "same_second"} = {}

Inside == {"idle", "poll", "rise_log", "rise_event", "fall_check",
           "fall_log", "arm"}

(***************************************************************************)
(* The inductive invariant.  Announced alone is not inductive: that a rise *)
(* is new follows from the stamps in memory being those in UCI, and that   *)
(* it makes the state critical from no stamp being ahead of the clock.     *)
(***************************************************************************)
StampsPast ==
    /\ clock \in Nat /\ riseSaved \in Nat /\ fallSaved \in Nat
    /\ riseSaved <= clock /\ fallSaved <= clock

AnnouncementDue ==
    pc \in {"rise_log", "rise_event"} => riseSaved > fallSaved /\ told = 0

ToldOfCritical == told = 0 \/ (told = 1 /\ riseSaved > fallSaved)

AlarmInv ==
    /\ pc \in Inside \cup {"down"}
    /\ StampsPast
    /\ StampsPersisted
    /\ AnnouncementDue
    /\ ToldOfCritical

\* A step of Alarm, or one it does not see.
AlarmStep == AlarmSpec!Next \/ UNCHANGED <<Critical, told>>

\* A step that touches neither the stamps nor what was announced, nor enters
\* the announcement.
Quiet ==
    /\ UNCHANGED <<riseSaved, fallSaved, rise_time, fall_time, clock, told>>
    /\ pc' \in {"idle", "poll", "fall_check", "fall_log", "arm", pc}
    /\ pc = "down" => pc' = "down"

-----------------------------------------------------------------------------
\* Without a disturbance the next reading is later than any stamp.
LEMMA ReadingLater ==
    ASSUME ClockAdvances, NEW now \in Readings, clock \in Nat
    PROVE  now = clock + 1
  BY DEF ClockAdvances, Readings

\* The start of a monitor establishes the invariant and the initial state of
\* Alarm.
LEMMA InitAlarm == MonitorInit => AlarmInv /\ AlarmSpec!Init
  <1> SUFFICES ASSUME MonitorInit PROVE AlarmInv /\ AlarmSpec!Init
    OBVIOUS
  <1>1. AlarmInv
    BY DEF MonitorInit, AlarmInv, StampsPast, StampsPersisted,
           AnnouncementDue, ToldOfCritical, Inside
  <1>2. AlarmSpec!Init
    BY DEF MonitorInit, AlarmSpec!Init, Critical
  <1> QED BY <1>1, <1>2

\* A quiet step preserves the invariant and is not seen by Alarm.
LEMMA QuietAlarm == AlarmInv /\ Quiet => AlarmInv' /\ AlarmStep
  <1> SUFFICES ASSUME AlarmInv, Quiet PROVE AlarmInv' /\ AlarmStep
    OBVIOUS
  <1>1. AlarmInv'
    BY DEF AlarmInv, Quiet, StampsPast, StampsPersisted, AnnouncementDue,
           ToldOfCritical, Inside
  <1>2. AlarmStep
    BY DEF Quiet, AlarmStep, Critical
  <1> QED BY <1>1, <1>2

\* A start or a reload reads the stamps back.
LEMMA RestartAlarm ==
    ASSUME AlarmInv, NEW first \in {"idle", "poll"}, NEW armed \in BOOLEAN,
           Restart(first, armed)
    PROVE  AlarmInv' /\ AlarmStep
  <1>1. /\ rise_time' = riseSaved /\ fall_time' = fallSaved
        /\ pc' \in {"idle", "poll"}
        /\ UNCHANGED <<riseSaved, fallSaved, clock, told>>
    BY DEF Restart, FillGlobalCtx, outside
  <1>2. AlarmInv'
    BY <1>1 DEF AlarmInv, StampsPast, StampsPersisted, AnnouncementDue,
                ToldOfCritical, Inside
  <1>3. AlarmStep
    BY <1>1 DEF AlarmStep, Critical
  <1> QED BY <1>2, <1>3

\* A rise is recorded only in a state that is not critical, and makes it so.
LEMMA RiseAlarm ==
    ASSUME AlarmInv, ClockAdvances, NEW u, NEW now \in Readings, Rise(u, now)
    PROVE  AlarmInv' /\ AlarmStep
  <1>1. now = clock + 1
    BY ReadingLater DEF AlarmInv, StampsPast
  <1>2. /\ pc = "poll" /\ fall_time >= rise_time
        /\ clock' = now /\ rise_time' = now /\ riseSaved' = now
        /\ pc' \in {"rise_log", "rise_event"}
        /\ UNCHANGED <<fallSaved, fall_time, told>>
    BY DEF Rise, Rises, outside
  <1>3. rise_time = riseSaved /\ fall_time = fallSaved
    BY <1>2 DEF AlarmInv, StampsPersisted
  <1>4. ~(riseSaved > fallSaved) /\ riseSaved' > fallSaved' /\ told = 0
    BY <1>1, <1>2, <1>3 DEF AlarmInv, StampsPast, ToldOfCritical
  <1>5. AlarmInv'
    BY <1>1, <1>2, <1>3, <1>4 DEF AlarmInv, StampsPast, StampsPersisted,
       AnnouncementDue, ToldOfCritical, Inside
  <1>6. AlarmSpec!Reach
    BY <1>2, <1>4 DEF AlarmSpec!Reach, Critical
  <1> QED BY <1>5, <1>6 DEF AlarmStep, AlarmSpec!Next

\* The event is sent in a critical state that was not announced.
LEMMA SendEventAlarm ==
    ASSUME AlarmInv, SendEvent
    PROVE  AlarmInv' /\ AlarmStep
  <1>1. /\ pc = "rise_event" /\ pc' = "fall_check"
        /\ told' = IF told = 2 THEN 2 ELSE told + 1
        /\ UNCHANGED <<riseSaved, fallSaved, rise_time, fall_time, clock>>
    BY DEF SendEvent, disk, memory
  <1>2. riseSaved > fallSaved /\ told = 0
    BY <1>1 DEF AlarmInv, AnnouncementDue
  <1>3. told' = 1
    BY <1>1, <1>2
  <1>4. AlarmInv'
    BY <1>1, <1>2, <1>3 DEF AlarmInv, StampsPast, StampsPersisted,
       AnnouncementDue, ToldOfCritical, Inside
  <1>5. AlarmSpec!Announce
    BY <1>1, <1>2, <1>3 DEF AlarmSpec!Announce, Critical
  <1> QED BY <1>4, <1>5 DEF AlarmStep, AlarmSpec!Next

\* A fall is recorded in a critical state, and ends it.
LEMMA FallAlarm ==
    ASSUME AlarmInv, ClockAdvances, NEW now \in Readings \cup {clock},
           Fall(now)
    PROVE  AlarmInv' /\ AlarmStep
  <1>1. now \in Nat /\ now >= clock
    <2>1. CASE now = clock
      BY <2>1 DEF AlarmInv, StampsPast
    <2>2. CASE now \in Readings
      BY <2>2, ReadingLater DEF AlarmInv, StampsPast
    <2> QED BY <2>1, <2>2
  <1>2. /\ pc = "fall_check" /\ rise_time > fall_time
        /\ clock' = now /\ fall_time' = now /\ fallSaved' = now
        /\ told' = 0
        /\ pc' \in {"fall_log", "arm"}
        /\ UNCHANGED <<riseSaved, rise_time>>
    BY DEF Fall, Falls
  <1>3. rise_time = riseSaved /\ fall_time = fallSaved
    BY <1>2 DEF AlarmInv, StampsPersisted
  <1>4. riseSaved > fallSaved /\ ~(riseSaved' > fallSaved')
    BY <1>1, <1>2, <1>3 DEF AlarmInv, StampsPast
  <1>5. AlarmInv'
    BY <1>1, <1>2, <1>3 DEF AlarmInv, StampsPast, StampsPersisted,
       AnnouncementDue, ToldOfCritical, Inside
  <1>6. AlarmSpec!Ended
    BY <1>2, <1>4 DEF AlarmSpec!Ended, Critical
  <1> QED BY <1>5, <1>6 DEF AlarmStep, AlarmSpec!Next

\* The log of a rise comes between its record and its event.
LEMMA LogRiseAlarm ==
    ASSUME AlarmInv, LogRise
    PROVE  AlarmInv' /\ AlarmStep
  <1>1. /\ pc = "rise_log" /\ pc' = "rise_event"
        /\ UNCHANGED <<riseSaved, fallSaved, rise_time, fall_time, clock, told>>
    BY DEF LogRise, memory
  <1>2. AlarmInv'
    BY <1>1 DEF AlarmInv, StampsPast, StampsPersisted, AnnouncementDue,
                ToldOfCritical, Inside
  <1> QED BY <1>1, <1>2 DEF AlarmStep, Critical

\* The death of the daemon loses an announcement that was due, no stamp.
LEMMA CrashAlarm ==
    ASSUME AlarmInv, Crash
    PROVE  AlarmInv' /\ AlarmStep
  <1>1. pc' = "down" /\ UNCHANGED <<riseSaved, fallSaved, clock, told>>
    BY DEF Crash, disk, outside
  <1>2. AlarmInv'
    BY <1>1 DEF AlarmInv, StampsPast, StampsPersisted, AnnouncementDue,
                ToldOfCritical, Inside
  <1> QED BY <1>1, <1>2 DEF AlarmStep, Critical

-----------------------------------------------------------------------------
\* The rest of a poll, after the rise was decided.
LEMMA AfterPollAlarm ==
    ASSUME AlarmInv, ClockAdvances, AfterPoll
    PROVE  AlarmInv' /\ AlarmStep
  <1>1. CASE LogRise
    BY <1>1, LogRiseAlarm
  <1>2. CASE SendEvent
    BY <1>2, SendEventAlarm
  <1>3. CASE \E now \in Readings \cup {clock} : Fall(now)
    BY <1>3, FallAlarm
  <1>4. CASE NoFall
    <2>1. Quiet
      BY <1>4 DEF NoFall, Quiet, disk, memory, outside
    <2> QED BY <2>1, QuietAlarm
  <1>5. CASE LogFall
    <2>1. Quiet
      BY <1>5 DEF LogFall, Quiet, memory
    <2> QED BY <2>1, QuietAlarm
  <1>6. CASE Arm
    <2>1. Quiet
      BY <1>6 DEF Arm, Quiet, disk, memory, outside
    <2> QED BY <2>1, QuietAlarm
  <1> QED BY <1>1, <1>2, <1>3, <1>4, <1>5, <1>6 DEF AfterPoll

\* The poll itself, with any utilisation.
LEMMA PollAlarm ==
    ASSUME AlarmInv, ClockAdvances, NEW u,
           NoRise(u) \/ \E now \in Readings : Rise(u, now)
    PROVE  AlarmInv' /\ AlarmStep
  <1>1. CASE NoRise(u)
    <2>1. Quiet
      BY <1>1 DEF NoRise, Quiet, disk, outside
    <2> QED BY <2>1, QuietAlarm
  <1>2. CASE \E now \in Readings : Rise(u, now)
    BY <1>2, RiseAlarm
  <1> QED BY <1>1, <1>2

\* The timer.
LEMMA TimerAlarm ==
    ASSUME AlarmInv, TimerFires
    PROVE  AlarmInv' /\ AlarmStep
  <1>1. Quiet
    BY DEF TimerFires, Quiet, disk, memory, outside
  <1> QED BY <1>1, QuietAlarm

\* A setter changes the configuration only.
LEMMA WriteAlarm ==
    ASSUME AlarmInv, NEW c, Write(c)
    PROVE  AlarmInv' /\ AlarmStep
  <1>1. Quiet
    BY DEF Write, Quiet, memory, outside
  <1> QED BY <1>1, QuietAlarm

LEMMA ControllerAlarm ==
    ASSUME AlarmInv, Controller
    PROVE  AlarmInv' /\ AlarmStep
  <1>1. \E c : Write(c)
    BY DEF Controller, SetEnable, SetEnableCriticalLog,
       SetCriticalRiseThreshold, SetCriticalFallThreshold, SetFilePath
  <1> QED BY <1>1, WriteAlarm

\* The load changes, or the daemon dies.
LEMMA EnvironmentAlarm ==
    ASSUME AlarmInv, Environment
    PROVE  AlarmInv' /\ AlarmStep
  <1>1. CASE Crash
    BY <1>1, CrashAlarm
  <1>2. CASE \E l \in Levels : SetLoad(l)
    <2>1. Quiet
      BY <1>2 DEF SetLoad, Quiet, disk, memory, outside
    <2> QED BY <2>1, QuietAlarm
  <1> QED BY <1>1, <1>2 DEF Environment

\* A step that changes nothing.
LEMMA StutterAlarm ==
    ASSUME AlarmInv, UNCHANGED monitorVars
    PROVE  AlarmInv' /\ AlarmStep
  <1>1. Quiet
    BY DEF monitorVars, Quiet, disk, memory, outside
  <1> QED BY <1>1, QuietAlarm

-----------------------------------------------------------------------------
(***************************************************************************)
(* The inductive invariant of the configuration, for both monitors: `can`  *)
(* is whether an enabled one can run.  AppliedIf speaks of the monitor     *)
(* between two callbacks; inside a poll, which takes the timer and sets it *)
(* again at its end, what counts is that the monitor is enabled.           *)
(***************************************************************************)
ConfTyped ==
    /\ conf \in Conf
    /\ timer \in BOOLEAN /\ reload \in BOOLEAN
    /\ pc \in Inside \cup {"down"}

Works(can) ==
    pc # "down" /\ ~reload =>
        /\ ctx = conf
        /\ conf.path \in files
        /\ pc = "idle" => (timer <=> conf.enable /\ can)
        /\ pc # "idle" => conf.enable /\ can

\* A step of a poll, from one place to another.
Advances ==
    /\ pc \in Inside \ {"idle"} /\ pc' \in Inside \ {"idle"}
    /\ UNCHANGED <<conf, ctx, reload, timer>>
    /\ files \subseteq files'

LEMMA InitTyped == MonitorInit => ConfTyped
  <1> SUFFICES ASSUME MonitorInit PROVE ConfTyped
    OBVIOUS
  <1>1. conf \in Conf
    BY CriticalStateAssumption DEF MonitorInit, DefaultConf, Conf
  <1> QED BY <1>1 DEF MonitorInit, ConfTyped, Inside

LEMMA AdvancesWorks ==
    ASSUME ConfTyped, NEW can \in BOOLEAN, Works(can), Advances
    PROVE  ConfTyped' /\ Works(can)'
  <1>1. ConfTyped'
    BY DEF ConfTyped, Advances, Inside
  <1>2. Works(can)'
    BY DEF Works, Advances, Inside
  <1> QED BY <1>1, <1>2

\* A start or a reload applies the configuration of this moment.
LEMMA RestartWorks ==
    ASSUME ConfTyped, NEW first \in {"idle", "poll"}, NEW armed \in BOOLEAN,
           Restart(first, armed)
    PROVE  /\ ConfTyped'
           /\ first = "idle" => Works(armed)'
           /\ first = "poll" /\ ~armed => Works(TRUE)'
  <1>1. /\ conf' = conf /\ ctx' = conf /\ conf.path \in files'
        /\ timer' = (conf.enable /\ armed)
        /\ pc' = IF conf.enable THEN first ELSE "idle"
        /\ reload' = FALSE
    BY DEF Restart, FillGlobalCtx
  <1>2. conf.enable \in BOOLEAN
    BY DEF ConfTyped, Conf
  <1>3. timer' \in BOOLEAN /\ (timer' <=> conf.enable /\ armed)
    BY <1>1, <1>2
  <1>4. ConfTyped'
    BY <1>1, <1>3 DEF ConfTyped, Inside
  <1>5. first = "idle" => Works(armed)'
    BY <1>1, <1>3 DEF Works
  <1>6. first = "poll" /\ ~armed => Works(TRUE)'
    BY <1>1, <1>3 DEF Works
  <1> QED BY <1>4, <1>5, <1>6

\* A setter asks for a reload.
LEMMA ControllerWorks ==
    ASSUME ConfTyped, Controller
    PROVE  /\ ConfTyped' /\ reload' = TRUE
  <1>1. \E c \in Conf : Write(c)
    <2>1. /\ \A b \in BOOLEAN : [conf EXCEPT !.enable = b] \in Conf
          /\ \A b \in BOOLEAN : [conf EXCEPT !.log = b] \in Conf
          /\ \A t \in Thresholds : [conf EXCEPT !.rise = t] \in Conf
          /\ \A t \in Thresholds : [conf EXCEPT !.fall = t] \in Conf
          /\ \A p \in Paths : [conf EXCEPT !.path = p] \in Conf
      BY DEF ConfTyped, Conf
    <2> QED BY <2>1 DEF Controller, SetEnable, SetEnableCriticalLog,
            SetCriticalRiseThreshold, SetCriticalFallThreshold, SetFilePath
  <1> QED BY <1>1 DEF Write, ConfTyped

LEMMA TimerWorks ==
    ASSUME ConfTyped, NEW can \in BOOLEAN, Works(can), TimerFires
    PROVE  ConfTyped' /\ Works(can)'
  <1>1. /\ pc = "idle" /\ timer /\ timer' = FALSE /\ pc' = "poll"
        /\ UNCHANGED <<conf, ctx, files, reload>>
    BY DEF TimerFires, disk, memory, ghosts
  <1>2. ConfTyped'
    BY <1>1 DEF ConfTyped, Inside
  <1>3. Works(can)'
    BY <1>1 DEF Works
  <1> QED BY <1>2, <1>3

LEMMA PollWorks ==
    ASSUME ConfTyped, NEW can \in BOOLEAN, Works(can), NEW u,
           NoRise(u) \/ \E now \in Readings : Rise(u, now)
    PROVE  ConfTyped' /\ Works(can)'
  <1>1. Advances
    BY DEF NoRise, Rise, disk, ghosts, Advances, Inside
  <1> QED BY <1>1, AdvancesWorks

LEMMA AfterPollWorks ==
    ASSUME ConfTyped, NEW can \in BOOLEAN, Works(can), AfterPoll
    PROVE  ConfTyped' /\ Works(can)'
  <1>1. CASE LogRise \/ LogFall
    <2>1. Advances
      BY <1>1 DEF LogRise, LogFall, GenerateCriticalLogFile, memory, ghosts,
                  Advances, Inside
    <2> QED BY <2>1, AdvancesWorks
  <1>2. CASE SendEvent \/ NoFall
    <2>1. Advances
      BY <1>2 DEF SendEvent, NoFall, disk, memory, ghosts, Advances, Inside
    <2> QED BY <2>1, AdvancesWorks
  <1>3. CASE \E now \in Readings \cup {clock} : Fall(now)
    <2>1. Advances
      BY <1>3 DEF Fall, ghosts, Advances, Inside
    <2> QED BY <2>1, AdvancesWorks
  <1>4. CASE Arm
    <2>1. /\ pc = "arm" /\ timer' = TRUE /\ pc' = "idle"
          /\ UNCHANGED <<conf, ctx, files, reload>>
      BY <1>4 DEF Arm, disk, memory, ghosts
    <2>2. ConfTyped'
      BY <2>1 DEF ConfTyped, Inside
    <2>3. Works(can)'
      BY <2>1 DEF Works
    <2> QED BY <2>2, <2>3
  <1> QED BY <1>1, <1>2, <1>3, <1>4 DEF AfterPoll

LEMMA EnvironmentWorks ==
    ASSUME ConfTyped, NEW can \in BOOLEAN, Works(can), Environment
    PROVE  ConfTyped' /\ Works(can)'
  <1>1. CASE Crash
    BY <1>1 DEF Crash, disk, ConfTyped, Works, Inside
  <1>2. CASE \E l \in Levels : SetLoad(l)
    <2>1. UNCHANGED <<conf, ctx, files, reload, timer, pc>>
      BY <1>2 DEF SetLoad, disk, memory
    <2> QED BY <2>1 DEF ConfTyped, Works
  <1> QED BY <1>1, <1>2 DEF Environment

LEMMA StutterWorks ==
    ASSUME ConfTyped, NEW can \in BOOLEAN, Works(can), UNCHANGED monitorVars
    PROVE  ConfTyped' /\ Works(can)'
  BY DEF monitorVars, disk, memory, ghosts, ConfTyped, Works

-----------------------------------------------------------------------------
(***************************************************************************)
(* Type correctness, of what ConfTyped leaves out.                         *)
(***************************************************************************)
DataTyped ==
    /\ ctx \in Conf
    /\ riseSaved \in Nat /\ fallSaved \in Nat
    /\ rise_time \in Nat /\ fall_time \in Nat
    /\ seen \in Nat
    /\ files \subseteq Paths
    /\ log \in {"none", "true", "null"}
    /\ clock \in Nat
    /\ load \in Levels
    /\ told \in 0..2
    /\ crashes \in 0..MaxCrashes

LEMMA InitData == MonitorInit => DataTyped
  <1> SUFFICES ASSUME MonitorInit PROVE DataTyped
    OBVIOUS
  <1>1. ctx \in Conf
    BY CriticalStateAssumption DEF MonitorInit, DefaultConf, Conf
  <1> QED BY <1>1, CriticalStateAssumption DEF MonitorInit, DataTyped

LEMMA RestartData ==
    ASSUME ConfTyped, DataTyped, NEW first, NEW armed, Restart(first, armed)
    PROVE  DataTyped'
  <1>1. conf.path \in Paths
    BY DEF ConfTyped, Conf
  <1> QED BY <1>1 DEF Restart, FillGlobalCtx, outside, ConfTyped, DataTyped

LEMMA ReadingTyped ==
    ASSUME DataTyped, NEW now \in Readings \cup {clock}
    PROVE  now \in Nat
  BY DEF DataTyped, Readings

LEMMA PollData ==
    ASSUME DataTyped, NEW u \in Nat,
           NoRise(u) \/ \E now \in Readings : Rise(u, now)
    PROVE  DataTyped'
  <1>1. CASE NoRise(u)
    BY <1>1 DEF NoRise, disk, outside, ghosts, DataTyped
  <1>2. CASE \E now \in Readings : Rise(u, now)
    BY <1>2, ReadingTyped DEF Rise, outside, ghosts, DataTyped
  <1> QED BY <1>1, <1>2

LEMMA AfterPollData ==
    ASSUME DataTyped, AfterPoll
    PROVE  DataTyped'
  <1>1. CASE LogRise \/ LogFall
    <2>1. ctx.path \in Paths
      BY DEF DataTyped, Conf
    <2> QED BY <1>1, <2>1 DEF LogRise, LogFall, GenerateCriticalLogFile,
            memory, ghosts, DataTyped
  <1>2. CASE SendEvent
    BY <1>2 DEF SendEvent, disk, memory, ghosts, DataTyped
  <1>3. CASE \E now \in Readings \cup {clock} : Fall(now)
    BY <1>3, ReadingTyped DEF Fall, ghosts, DataTyped
  <1>4. CASE NoFall \/ Arm
    BY <1>4 DEF NoFall, Arm, disk, memory, outside, ghosts, DataTyped
  <1> QED BY <1>1, <1>2, <1>3, <1>4 DEF AfterPoll

LEMMA ControllerData ==
    ASSUME DataTyped, Controller
    PROVE  DataTyped'
  <1>1. \E c : Write(c)
    BY DEF Controller, SetEnable, SetEnableCriticalLog,
       SetCriticalRiseThreshold, SetCriticalFallThreshold, SetFilePath
  <1>2. files' \subseteq Paths
    BY DEF Controller, SetEnable, SetEnableCriticalLog, SetFilePath,
       SetCriticalRiseThreshold, SetCriticalFallThreshold, DataTyped
  <1> QED BY <1>1, <1>2 DEF Write, memory, outside, DataTyped

LEMMA EnvironmentData ==
    ASSUME DataTyped, Environment
    PROVE  DataTyped'
  <1>1. CASE Crash
    BY <1>1, CriticalStateAssumption
       DEF Crash, disk, memory, outside, DataTyped
  <1>2. CASE \E l \in Levels : SetLoad(l)
    BY <1>2 DEF SetLoad, disk, memory, outside, DataTyped
  <1> QED BY <1>1, <1>2 DEF Environment

=============================================================================
