----------------------------- MODULE CpuMonitor -----------------------------
(***************************************************************************)
(* The CPU monitor (src/src/processes.c).  It evaluates the average of the *)
(* last num_samples utilisations, kept in a ring that starts empty at every *)
(* start and reload; its first poll is a full interval after that.  The    *)
(* rings of the user, system and idle time move in step with this one.     *)
(***************************************************************************)
EXTENDS CriticalState, Sequences, Functions

CONSTANTS
    SampleCounts,   \* values written to NumSamples
    DefaultSamples  \* num_samples when it is not set ("30")

ASSUME CpuMonitorAssumption ==
    /\ SampleCounts \subseteq Nat \ {0}
    /\ DefaultSamples \in Nat \ {0}

VARIABLES
    confSamples,  \* num_samples in UCI
    num_samples,  \* the length of the ring
    samples,      \* utilization_samples
    index,        \* sample_index
    full,         \* full_samples_reached
    allocated,    \* the rings were allocated
    recent        \* ghost: the samples since the start, at most num_samples

ring == <<num_samples, samples, index, full, allocated, recent>>
vars == <<monitorVars, confSamples, ring>>

\* Mutant: the ring is cleared, with its new length, in its old memory.
RingNotReallocated(n) ==
    /\ num_samples' = n
    /\ samples' = [i \in DOMAIN samples |-> 0]
    /\ index' = 0
    /\ full' = FALSE
    /\ recent' = <<>>

RingOf(n) ==
    /\ num_samples' = n
    /\ samples' = [i \in 0..(n - 1) |-> 0]
    /\ index' = 0
    /\ full' = FALSE
    /\ recent' = <<>>

Init ==
    /\ MonitorInit
    /\ confSamples = DefaultSamples
    /\ num_samples = DefaultSamples
    /\ samples = [i \in 0..(DefaultSamples - 1) |-> 0]
    /\ index = 0
    /\ full = FALSE
    /\ allocated = FALSE
    /\ recent = <<>>

\* The outcomes of calloc(); without rings the monitor is not started.
Allocations == {TRUE} \cup (IF "no_memory" \in Disturbances THEN {FALSE} ELSE {})

\* A new ring, and the timer for the first poll.
CpuInit ==
    /\ allocated' \in Allocations
    /\ Starts("idle", allocated')
    /\ RingOf(confSamples)
    /\ UNCHANGED confSamples

CpuReload ==
    /\ allocated' \in Allocations
    /\ Reloads("idle", allocated')
    /\ RingOf(confSamples)
    /\ UNCHANGED confSamples

\* The busy share of the jiffies since the last sample; if /proc/stat cannot
\* be read, no time has passed.
Sample ==
    {load} \cup (IF "unreadable" \in Disturbances THEN {0} ELSE {})

\* Mutant: the index is not taken modulo the length of the ring.
NextIndexUnwrapped == IF index >= num_samples THEN 0 ELSE index + 1

NextIndex == (index + 1) % num_samples

\* Mutant: the ring counts as full one sample too late.
FullLater == index + 1 > num_samples

RingFull == index + 1 >= num_samples

\* Over the whole ring once it was full, over the first ones before.
AverageSamples(s, i, f) ==
    LET n == IF f THEN num_samples ELSE i
    IN  IF n = 0 THEN 0 ELSE SumFunctionOnSet(s, 0..(n - 1)) \div n

Latest(u) ==
    LET s == Append(recent, u)
    IN  IF Len(s) > num_samples THEN Tail(s) ELSE s

RunCpuMonitor ==
    /\ pc = "poll"
    /\ \E u \in Sample :
          /\ samples' = [samples EXCEPT ![index] = u]
          /\ full' = (full \/ RingFull)
          /\ index' = NextIndex
          /\ recent' = Latest(u)
    /\ LET average == AverageSamples(samples', index', full')
       IN  \/ NoRise(average)
           \/ /\ clock < MaxTime + 4
              /\ \E now \in Readings : Rise(average, now)
    /\ UNCHANGED <<confSamples, num_samples, allocated>>

SetNumSamples(n) ==
    /\ Write(conf)
    /\ confSamples' = n
    /\ UNCHANGED <<files, ring>>

CpuTimer == TimerFires /\ UNCHANGED <<confSamples, ring>>

Daemon ==
    \/ CpuInit \/ CpuReload \/ CpuTimer \/ RunCpuMonitor
    \/ AfterPoll /\ UNCHANGED <<confSamples, ring>>

Next ==
    \/ Daemon
    \/ (Controller \/ Environment) /\ UNCHANGED <<confSamples, ring>>
    \/ \E n \in SampleCounts : SetNumSamples(n)

Spec == Init /\ [][Next]_vars

\* The event loop runs and the daemon is respawned.  Each reload starts a new
\* interval: the timer fires only because reloads do not go on for ever at
\* less than one interval from each other.
FairSpec == Spec /\ WF_vars(Daemon) /\ SF_vars(CpuTimer)

-----------------------------------------------------------------------------
\* The types of the monitor and of its ring: the index stays inside it.
TypeOK ==
    /\ MonitorTypeOK
    /\ confSamples \in SampleCounts \cup {DefaultSamples}
    /\ num_samples \in SampleCounts \cup {DefaultSamples}
    /\ samples \in [0..(num_samples - 1) -> Nat]
    /\ index \in 0..(num_samples - 1)
    /\ full \in BOOLEAN /\ allocated \in BOOLEAN
    /\ recent \in Seq(Nat)

\* What the ring gives is the mean of the last samples, not of slots that were
\* never written nor of older ones, at every point of every lap.
AverageOfLatest ==
    AverageSamples(samples, index, full) =
        IF recent = <<>> THEN 0 ELSE SumFunction(recent) \div Len(recent)

\* A ring of another length is only read with its own length: a change of
\* NumSamples takes effect with the reload, together with a new ring.
RingApplied ==
    /\ DOMAIN samples = 0..(num_samples - 1)
    /\ pc = "idle" /\ ~reload => num_samples = confSamples

\* With no reload to come, the monitor works with the configuration, and polls
\* exactly when it is enabled and has its rings: a failed allocation stops it
\* until the next reload and not for longer.
ConfigApplied == AppliedIf(allocated)

\* A critical state the controller knows of ends once the load stays below
\* the threshold for as long as the ring remembers, unless the rings cannot
\* be allocated.
Recovers ==
    <>[](conf.enable /\ allocated /\ load < conf.fall /\ conf.fall <= conf.rise)
        => <>[](told = 0)

=============================================================================
