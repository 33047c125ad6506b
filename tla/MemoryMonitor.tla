---------------------------- MODULE MemoryMonitor ----------------------------
(***************************************************************************)
(* The memory monitor (src/src/memory.c): an enabled monitor polls at once *)
(* when it is started or reloaded, and then by its timer.                  *)
(***************************************************************************)
EXTENDS CriticalState

\* Mutant: the error code of sysmngr_meminfo is taken for a utilisation.
UtilizationOrError ==
    {load} \cup (IF "unreadable" \in Disturbances THEN {-1} ELSE {})

CalculateMemoryUtilization ==
    {load} \cup (IF "unreadable" \in Disturbances THEN {0} ELSE {})

MemoryInit == Starts("poll", FALSE)
MemoryReload == Reloads("poll", FALSE)

RunMemoryMonitor ==
    \E u \in CalculateMemoryUtilization :
        \/ NoRise(u)
        \/ /\ clock < MaxTime + 4
           /\ \E now \in Readings : Rise(u, now)

Daemon == MemoryInit \/ MemoryReload \/ TimerFires \/ RunMemoryMonitor
            \/ AfterPoll

Next == Daemon \/ Controller \/ Environment

Spec == MonitorInit /\ [][Next]_monitorVars

\* The event loop runs and the daemon is respawned; between two polls it looks
\* at the events, too, so that a reload is served in the end.
FairSpec == Spec /\ WF_monitorVars(Daemon) /\ SF_monitorVars(MemoryReload)

-----------------------------------------------------------------------------
\* The types of the configuration, of g_memory_ctx and of the environment.
TypeOK == MonitorTypeOK

\* Once the reload a change asked for has been served, the monitor works with
\* the configuration, and polls exactly when it is enabled: no timer survives
\* a reload that disables it, none is lost by one that does not.
ConfigApplied == AppliedIf(TRUE)

\* A critical state the controller knows of ends, once the utilisation stays
\* below the threshold of a monitor that stays enabled.
Recovers ==
    <>[](conf.enable /\ load < conf.fall /\ conf.fall <= conf.rise)
        => <>[](told = 0)

=============================================================================
