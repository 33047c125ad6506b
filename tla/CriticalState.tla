---------------------------- MODULE CriticalState ----------------------------
(***************************************************************************)
(* The part that memory.c and processes.c have in common: a monitor that   *)
(* polls a utilisation, records in UCI when it rose above one threshold    *)
(* and when it fell below another, logs both and sends an event for the    *)
(* first.  Whether the state is critical is not kept anywhere: it is read  *)
(* off the two time stamps, which survive a restart and a reload.          *)
(*                                                                         *)
(* A poll is one callback; it is cut where it commits or is seen outside,  *)
(* so that the daemon may die in between.  Data-model requests and the     *)
(* reload event are served between two callbacks.                          *)
(***************************************************************************)
EXTENDS Integers

CONSTANTS
    Levels,        \* utilisations, in per cent
    Thresholds,    \* values written to the two thresholds
    Paths,         \* values written to FilePath
    DefaultRise,   \* critical_rise_threshold when it is not set ("80")
    DefaultFall,   \* critical_fall_threshold when it is not set ("60")
    DefaultPath,   \* file_path when it is not set
    Disturbances,  \* what may go wrong, see below
    MaxTime,       \* bound: readings of the clock
    MaxCrashes     \* bound: deaths of the daemon

(***************************************************************************)
(* "clock_back":  time(NULL) may be set back                               *)
(* "same_second": two readings of time(NULL) may be equal                  *)
(* "unreadable":  the utilisation may be unreadable, which counts as 0     *)
(* "no_memory":   the CPU monitor's rings may not be allocated             *)
(***************************************************************************)
ASSUME CriticalStateAssumption ==
    /\ Levels \subseteq Nat /\ Thresholds \subseteq Nat
    /\ DefaultRise \in Nat /\ DefaultFall \in Nat
    /\ DefaultPath \in Paths
    /\ Disturbances \subseteq
          {"clock_back", "same_second", "unreadable", "no_memory"}
    /\ MaxTime \in Nat /\ MaxCrashes \in Nat

VARIABLES
    conf,       \* the options in UCI
    riseSaved,  \* critical_rise_time in UCI
    fallSaved,  \* critical_fall_time in UCI
    ctx,        \* the options the daemon works with
    rise_time,  \* critical_rise_time in memory
    fall_time,  \* critical_fall_time in memory
    timer,      \* the poll timer is pending
    pc,         \* where the monitor is
    seen,       \* the utilisation this poll evaluates
    files,      \* the log files that exist
    log,        \* the state in the last call of the logger script
    reload,     \* a sysmngr.reload event is on its way
    clock,      \* the latest reading of time(NULL)
    load,       \* the utilisation of the device
    told,       \* ghost: events since the last recorded end, at most 2
    crashes     \* ghost: deaths of the daemon

disk == <<conf, riseSaved, fallSaved, files>>
memory == <<ctx, rise_time, fall_time, seen>>
outside == <<log, told>>
ghosts == <<reload, load, crashes>>
monitorVars == <<disk, memory, outside, ghosts, timer, pc, clock>>

DefaultConf == [enable |-> FALSE, log |-> FALSE, rise |-> DefaultRise,
                fall |-> DefaultFall, path |-> DefaultPath]

MonitorInit ==
    /\ conf = DefaultConf
    /\ riseSaved = 0 /\ fallSaved = 0
    /\ ctx = DefaultConf
    /\ rise_time = 0 /\ fall_time = 0
    /\ timer = FALSE
    /\ pc = "down"
    /\ seen = 0
    /\ files = {}
    /\ log = "none"
    /\ reload = FALSE
    /\ clock = 0
    /\ load \in Levels
    /\ told = 0
    /\ crashes = 0

\* Of time(NULL) only the order and the equality of two readings matter.
Readings ==
    {clock + 1}
    \cup (IF "same_second" \in Disturbances THEN {clock} ELSE {})
    \cup (IF "clock_back" \in Disturbances THEN 1..clock ELSE {})

\* The critical state, as the stamps in UCI tell it.
Critical == riseSaved > fallSaved

-----------------------------------------------------------------------------
(***************************************************************************)
(* Start and reload                                                        *)
(***************************************************************************)
\* Mutant: the stamps are not read back.
FillForgetsStamps ==
    /\ ctx' = conf
    /\ rise_time' = 0
    /\ fall_time' = 0
    /\ seen' = 0
    /\ files' = files \cup {conf.path}

\* memset() and the options and stamps from UCI; the log file is created.
FillGlobalCtx ==
    /\ ctx' = conf
    /\ rise_time' = riseSaved
    /\ fall_time' = fallSaved
    /\ seen' = 0
    /\ files' = files \cup {conf.path}

\* Mutant: a reload does not cancel the timer.
RestartUncancelled(first, armed) ==
    /\ FillGlobalCtx
    /\ timer' = (timer \/ (conf.enable /\ armed))
    /\ pc' = IF conf.enable THEN first ELSE "idle"
    /\ reload' = FALSE
    /\ UNCHANGED <<conf, riseSaved, fallSaved, outside, clock, load, crashes>>

\* main(), or clean and init upon sysmngr.reload: any pending timer is
\* cancelled; `first` is where an enabled monitor goes on.
Restart(first, armed) ==
    /\ FillGlobalCtx
    /\ timer' = (conf.enable /\ armed)
    /\ pc' = IF conf.enable THEN first ELSE "idle"
    /\ reload' = FALSE
    /\ UNCHANGED <<conf, riseSaved, fallSaved, outside, clock, load, crashes>>

Starts(first, armed) == pc = "down" /\ Restart(first, armed)
Reloads(first, armed) == pc = "idle" /\ reload /\ Restart(first, armed)

-----------------------------------------------------------------------------
(***************************************************************************)
(* A poll                                                                  *)
(***************************************************************************)
TimerFires ==
    /\ pc = "idle"
    /\ timer
    /\ timer' = FALSE
    /\ pc' = "poll"
    /\ UNCHANGED <<disk, memory, outside, ghosts, clock>>

\* Mutant: the state the monitor is in is not looked at.
RisesAgain(u) == u > ctx.rise

Rises(u) == u > ctx.rise /\ fall_time >= rise_time
Falls(u) == u < ctx.fall /\ rise_time > fall_time

\* Mutant: the stamp is not committed.
RiseUnsaved(u, now) ==
    /\ pc = "poll"
    /\ Rises(u)
    /\ clock' = now
    /\ rise_time' = now
    /\ seen' = u
    /\ pc' = IF ctx.log THEN "rise_log" ELSE "rise_event"
    /\ UNCHANGED <<disk, ctx, fall_time, outside, ghosts, timer>>

\* The utilisation rose above its threshold in a state that is not critical.
Rise(u, now) ==
    /\ pc = "poll"
    /\ Rises(u)
    /\ clock' = now
    /\ rise_time' = now
    /\ riseSaved' = now
    /\ seen' = u
    /\ pc' = IF ctx.log THEN "rise_log" ELSE "rise_event"
    /\ UNCHANGED <<conf, fallSaved, files, ctx, fall_time, outside, ghosts,
                   timer>>

NoRise(u) ==
    /\ pc = "poll"
    /\ ~Rises(u)
    /\ seen' = u
    /\ pc' = "fall_check"
    /\ UNCHANGED <<disk, ctx, rise_time, fall_time, outside, ghosts, timer,
                   clock>>

\* The logger gets its state as a string for "%s", which for a state that is
\* over is a null pointer: see utils.c.
GenerateCriticalLogFile(critical) ==
    /\ log' = IF critical THEN "true" ELSE "null"
    /\ files' = IF critical THEN files \cup {ctx.path} ELSE files

LogRise ==
    /\ pc = "rise_log"
    /\ GenerateCriticalLogFile(TRUE)
    /\ pc' = "rise_event"
    /\ UNCHANGED <<conf, riseSaved, fallSaved, memory, ghosts, timer, clock,
                   told>>

SendEvent ==
    /\ pc = "rise_event"
    /\ told' = IF told = 2 THEN 2 ELSE told + 1
    /\ pc' = "fall_check"
    /\ UNCHANGED <<disk, memory, ghosts, timer, clock, log>>

\* The utilisation fell below its threshold in a critical state.
Fall(now) ==
    /\ pc = "fall_check"
    /\ Falls(seen)
    /\ clock' = now
    /\ fall_time' = now
    /\ fallSaved' = now
    /\ told' = 0
    /\ pc' = IF ctx.log THEN "fall_log" ELSE "arm"
    /\ UNCHANGED <<conf, riseSaved, files, ctx, rise_time, seen, log, ghosts,
                   timer>>

NoFall ==
    /\ pc = "fall_check"
    /\ ~Falls(seen)
    /\ pc' = "arm"
    /\ UNCHANGED <<disk, memory, outside, ghosts, timer, clock>>

LogFall ==
    /\ pc = "fall_log"
    /\ GenerateCriticalLogFile(FALSE)
    /\ pc' = "arm"
    /\ UNCHANGED <<conf, riseSaved, fallSaved, memory, ghosts, timer, clock,
                   told>>

\* Mutant: the timer is not set again.
ArmNot ==
    /\ pc = "arm"
    /\ pc' = "idle"
    /\ UNCHANGED <<disk, memory, outside, ghosts, timer, clock>>

Arm ==
    /\ pc = "arm"
    /\ timer' = TRUE
    /\ pc' = "idle"
    /\ UNCHANGED <<disk, memory, outside, ghosts, clock>>

\* A fall may be recorded in the very second of the rise.
AfterPoll ==
    \/ LogRise \/ SendEvent
    \/ \E now \in Readings \cup {clock} : Fall(now)
    \/ NoFall \/ LogFall \/ Arm

-----------------------------------------------------------------------------
(***************************************************************************)
(* The setters of the data model; the change of the configuration sends    *)
(* sysmngr.reload                                                          *)
(***************************************************************************)
Write(c) ==
    /\ pc = "idle"
    /\ clock < MaxTime
    /\ conf' = c
    /\ reload' = TRUE
    /\ UNCHANGED <<riseSaved, fallSaved, memory, outside, timer, pc, clock,
                   load, crashes>>

SetEnable(b) == Write([conf EXCEPT !.enable = b]) /\ UNCHANGED files
SetEnableCriticalLog(b) == Write([conf EXCEPT !.log = b]) /\ UNCHANGED files
SetCriticalRiseThreshold(t) == Write([conf EXCEPT !.rise = t]) /\ UNCHANGED files
SetCriticalFallThreshold(t) == Write([conf EXCEPT !.fall = t]) /\ UNCHANGED files

\* The log file moves with its name; if it cannot, nothing is changed.
SetFilePath(p) ==
    /\ Write([conf EXCEPT !.path = p])
    /\ files' = IF conf.path \in files
                THEN (files \ {conf.path}) \cup {p} ELSE files

Controller ==
    \/ \E b \in BOOLEAN : SetEnable(b) \/ SetEnableCriticalLog(b)
    \/ \E t \in Thresholds :
          SetCriticalRiseThreshold(t) \/ SetCriticalFallThreshold(t)
    \/ \E p \in Paths : SetFilePath(p)

-----------------------------------------------------------------------------
(***************************************************************************)
(* The environment                                                         *)
(***************************************************************************)
SetLoad(l) ==
    /\ clock < MaxTime
    /\ load' = l
    /\ UNCHANGED <<disk, memory, outside, timer, pc, clock, reload, crashes>>

\* The daemon dies and is started again.
Crash ==
    /\ pc # "down"
    /\ crashes < MaxCrashes
    /\ crashes' = crashes + 1
    /\ pc' = "down"
    /\ timer' = FALSE
    /\ reload' = FALSE
    /\ UNCHANGED <<disk, memory, outside, clock, load>>

Environment == Crash \/ \E l \in Levels : SetLoad(l)

-----------------------------------------------------------------------------
(***************************************************************************)
(* Properties of every monitor                                             *)
(***************************************************************************)
Conf == [enable : BOOLEAN, log : BOOLEAN, rise : Thresholds \cup {DefaultRise},
         fall : Thresholds \cup {DefaultFall}, path : Paths]

MonitorTypeOK ==
    /\ conf \in Conf /\ ctx \in Conf
    /\ riseSaved \in Nat /\ fallSaved \in Nat
    /\ rise_time \in Nat /\ fall_time \in Nat
    /\ timer \in BOOLEAN
    /\ pc \in {"down", "idle", "poll", "rise_log", "rise_event", "fall_check",
               "fall_log", "arm"}
    /\ seen \in Nat
    /\ files \subseteq Paths
    /\ log \in {"none", "true", "null"}
    /\ reload \in BOOLEAN
    /\ clock \in Nat
    /\ load \in Levels
    /\ told \in 0..2
    /\ crashes \in 0..MaxCrashes

\* With no reload to come, the monitor works with the configuration and polls
\* exactly when it is enabled, if it `can`.
AppliedIf(can) ==
    pc = "idle" /\ ~reload =>
        /\ ctx = conf
        /\ timer <=> conf.enable /\ can
        /\ conf.path \in files

\* The stamps in memory are those in UCI, so that a restart in the middle of
\* a critical state neither forgets nor repeats it.
StampsPersisted ==
    pc # "down" => rise_time = riseSaved /\ fall_time = fallSaved

\* A critical state is announced once and not again before its end.
AlarmSpec == INSTANCE Alarm WITH critical <- Critical
Announced == AlarmSpec!Spec

\* When a poll finds the utilisation below the threshold and the controller
\* has been told of a critical state, the end of it is recorded.
EndNoticed ==
    [][pc = "fall_check" /\ pc' \notin {"fall_check", "down"} /\ told > 0
          /\ seen < ctx.fall => told' = 0]_monitorVars

\* The log is written "indicating that the critical condition is no longer
\* present" (memory.c:159): what the logger is told is true or false.
LogTellsState == log \in {"none", "true", "false"}

=============================================================================
