-------------------------- MODULE CpuMonitorProofs --------------------------
(***************************************************************************)
(* The CPU monitor implements Alarm too: its average may be any number.    *)
(* Its ring is always written inside its bounds, and with its own length.  *)
(***************************************************************************)
EXTENDS CpuMonitor, CriticalStateProofs, FiniteSetTheorems, SequenceTheorems,
        WellFoundedInduction

\* One step of the monitor preserves the invariant and is a step of Alarm, or
\* one Alarm does not see.
LEMMA CpuStep ==
    ASSUME AlarmInv, ClockAdvances, [Next]_vars
    PROVE  AlarmInv' /\ AlarmStep
  <1>1. CASE CpuInit \/ CpuReload
    <2>1. \E armed \in BOOLEAN : Restart("idle", armed)
      BY <1>1 DEF CpuInit, CpuReload, Starts, Reloads, Allocations
    <2> QED BY <2>1, RestartAlarm
  <1>2. CASE CpuTimer
    BY <1>2, TimerAlarm DEF CpuTimer
  <1>3. CASE RunCpuMonitor
    <2>1. PICK u : NoRise(u) \/ \E now \in Readings : Rise(u, now)
      BY <1>3 DEF RunCpuMonitor
    <2> QED BY <2>1, PollAlarm
  <1>4. CASE AfterPoll
    BY <1>4, AfterPollAlarm
  <1>5. CASE Controller
    BY <1>5, ControllerAlarm
  <1>6. CASE Environment
    BY <1>6, EnvironmentAlarm
  <1>7. CASE \E n \in SampleCounts : SetNumSamples(n)
    BY <1>7, WriteAlarm DEF SetNumSamples
  <1>8. CASE UNCHANGED vars
    BY <1>8, StutterAlarm DEF vars
  <1> QED BY <1>1, <1>2, <1>3, <1>4, <1>5, <1>6, <1>7, <1>8 DEF Next, Daemon

\* The invariant behind the theorem.
LEMMA CpuInv ==
    ASSUME ClockAdvances
    PROVE  Spec => []AlarmInv
  <1>1. Init => AlarmInv
    BY InitAlarm DEF Init
  <1>2. AlarmInv /\ [Next]_vars => AlarmInv'
    BY CpuStep
  <1> QED BY <1>1, <1>2, PTL DEF Spec

(***************************************************************************)
(* The monitor implements Alarm: the event of run_cpu_monitor is sent only *)
(* in a recorded critical state, once, and not again before the end was    *)
(* recorded, for every length of the ring.                                 *)
(***************************************************************************)
THEOREM CpuAnnounced ==
    ASSUME ClockAdvances
    PROVE  Spec => Announced
  <1>1. Init => AlarmSpec!Init
    BY InitAlarm DEF Init
  <1>2. AlarmInv /\ [Next]_vars
            => [AlarmSpec!Next]_<<Critical, told>>
    <2> SUFFICES ASSUME AlarmInv, [Next]_vars
                 PROVE  [AlarmSpec!Next]_<<Critical, told>>
      OBVIOUS
    <2>1. AlarmStep
      BY CpuStep
    <2> QED BY <2>1 DEF AlarmStep
  <1> QED BY <1>1, <1>2, CpuInv, PTL DEF Spec, Announced, AlarmSpec!Spec

-----------------------------------------------------------------------------
(***************************************************************************)
(* The inductive invariant of the ring: in every state of the monitor that *)
(* runs, and not only between two callbacks, a length other than the one   *)
(* in UCI means that a reload is still to come.                            *)
(***************************************************************************)
RingBounds ==
    /\ num_samples \in Nat \ {0}
    /\ DOMAIN samples = 0..(num_samples - 1)
    /\ index \in 0..(num_samples - 1)

LengthCurrent == pc # "down" /\ ~reload => num_samples = confSamples

RingInv == confSamples \in Nat \ {0} /\ RingBounds /\ LengthCurrent

\* A new ring, after a start or a reload.
LEMMA RingOfFits ==
    ASSUME NEW n \in Nat \ {0}, RingOf(n)
    PROVE  RingBounds' /\ num_samples' = n
  BY DEF RingOf, RingBounds

\* The index stays inside the ring.
LEMMA NextIndexInside ==
    ASSUME RingBounds
    PROVE  NextIndex \in 0..(num_samples - 1)
  BY DEF RingBounds, NextIndex

\* Steps that leave the ring alone and do not make a reload superfluous.
LEMMA RingKept ==
    ASSUME RingInv, UNCHANGED <<confSamples, ring>>,
           pc' = "down" \/ pc # "down", pc' = "down" \/ reload' = reload
              \/ reload' = TRUE
    PROVE  RingInv'
  <1>1. RingBounds'
    BY DEF RingInv, RingBounds, ring
  <1>2. LengthCurrent'
    BY DEF RingInv, LengthCurrent, ring
  <1> QED BY <1>1, <1>2 DEF RingInv

LEMMA RingStep ==
    ASSUME RingInv, [Next]_vars
    PROVE  RingInv'
  <1>1. CASE CpuInit \/ CpuReload
    <2>1. /\ RingOf(confSamples)
          /\ UNCHANGED confSamples
      BY <1>1 DEF CpuInit, CpuReload
    <2>2. RingBounds' /\ num_samples' = confSamples
      BY <2>1, RingOfFits DEF RingInv
    <2> QED BY <2>1, <2>2 DEF RingInv, LengthCurrent
  <1>2. CASE CpuTimer
    BY <1>2, RingKept DEF CpuTimer, TimerFires, ghosts
  <1>3. CASE RunCpuMonitor
    <2>1. /\ pc = "poll" /\ reload' = reload
          /\ UNCHANGED <<confSamples, num_samples>>
      BY <1>3 DEF RunCpuMonitor, NoRise, Rise, ghosts
    <2>2. /\ index' = NextIndex
          /\ \E u : samples' = [samples EXCEPT ![index] = u]
      BY <1>3 DEF RunCpuMonitor
    <2>3. RingBounds'
      BY <2>1, <2>2, NextIndexInside DEF RingInv, RingBounds
    <2>4. LengthCurrent'
      BY <2>1 DEF RingInv, LengthCurrent
    <2> QED BY <2>1, <2>3, <2>4 DEF RingInv
  <1>4. CASE AfterPoll /\ UNCHANGED <<confSamples, ring>>
    <2>1. pc # "down" /\ reload' = reload
      BY <1>4 DEF AfterPoll, LogRise, SendEvent, Fall, NoFall, LogFall, Arm,
                  ghosts
    <2> QED BY <1>4, <2>1, RingKept
  <1>5. CASE Controller /\ UNCHANGED <<confSamples, ring>>
    <2>1. pc # "down" /\ reload' = TRUE
      BY <1>5 DEF Controller, SetEnable, SetEnableCriticalLog,
         SetCriticalRiseThreshold, SetCriticalFallThreshold, SetFilePath, Write
    <2> QED BY <1>5, <2>1, RingKept
  <1>6. CASE Environment /\ UNCHANGED <<confSamples, ring>>
    <2>1. pc' = "down" \/ (pc' = pc /\ reload' = reload)
      BY <1>6 DEF Environment, Crash, SetLoad
    <2> QED BY <1>6, <2>1 DEF RingInv, RingBounds, LengthCurrent, ring
  <1>7. CASE \E n \in SampleCounts : SetNumSamples(n)
    <2>1. /\ reload' = TRUE
          /\ UNCHANGED <<num_samples, samples, index>>
          /\ confSamples' \in SampleCounts
      BY <1>7 DEF SetNumSamples, Write, ring
    <2> QED BY <2>1, CpuMonitorAssumption
            DEF RingInv, RingBounds, LengthCurrent
  <1>8. CASE UNCHANGED vars
    BY <1>8 DEF vars, monitorVars, ghosts, ring, RingInv, RingBounds,
                LengthCurrent
  <1> QED BY <1>1, <1>2, <1>3, <1>4, <1>5, <1>6, <1>7, <1>8 DEF Next, Daemon

(***************************************************************************)
(* fill_global_cpu_info and run_cpu_monitor: the ring is as long as        *)
(* num_samples says, for every length and through every reload, so that no *)
(* sample is written or summed outside of it; and num_samples is the one   *)
(* in UCI unless a reload is due.                                          *)
(***************************************************************************)
THEOREM CpuRingApplied == Spec => []RingApplied
  <1>1. Init => RingInv
    <2> SUFFICES ASSUME Init PROVE RingInv
      OBVIOUS
    <2>1. RingBounds
      BY CpuMonitorAssumption DEF Init, RingBounds
    <2>2. LengthCurrent
      BY DEF Init, MonitorInit, LengthCurrent
    <2> QED BY <2>1, <2>2, CpuMonitorAssumption DEF Init, RingInv
  <1>2. RingInv /\ [Next]_vars => RingInv'
    BY RingStep
  <1>3. RingInv => RingApplied
    BY DEF RingInv, RingBounds, LengthCurrent, RingApplied
  <1> QED BY <1>1, <1>2, <1>3, PTL DEF Spec

-----------------------------------------------------------------------------
\* The invariant of the configuration; the rings are there if they could be
\* allocated by the latest start or reload.
CpuConfInv == ConfTyped /\ allocated \in BOOLEAN /\ Works(allocated)

LEMMA CpuWorks ==
    ASSUME CpuConfInv, [Next]_vars
    PROVE  CpuConfInv'
  <1>0. ConfTyped /\ allocated \in BOOLEAN /\ Works(allocated)
    BY DEF CpuConfInv
  <1>1. CASE CpuInit \/ CpuReload
    <2>1. PICK armed \in BOOLEAN : armed = allocated' /\ Restart("idle", armed)
      BY <1>1 DEF CpuInit, CpuReload, Starts, Reloads, Allocations
    <2>2. ConfTyped' /\ Works(armed)'
      BY <1>0, <2>1, RestartWorks
    <2> QED BY <2>1, <2>2 DEF CpuConfInv, Works
  <1>2. CASE allocated' = allocated /\ ConfTyped' /\ Works(allocated)'
    BY <1>0, <1>2 DEF CpuConfInv, Works
  <1>3. CASE CpuTimer
    BY <1>0, <1>2, <1>3, TimerWorks DEF CpuTimer, ring
  <1>4. CASE RunCpuMonitor
    <2>1. PICK u : NoRise(u) \/ \E now \in Readings : Rise(u, now)
      BY <1>4 DEF RunCpuMonitor
    <2>2. allocated' = allocated
      BY <1>4 DEF RunCpuMonitor
    <2> QED BY <1>0, <1>2, <2>1, <2>2, PollWorks
  <1>5. CASE AfterPoll /\ UNCHANGED <<confSamples, ring>>
    BY <1>0, <1>2, <1>5, AfterPollWorks DEF ring
  <1>6. CASE Controller /\ UNCHANGED <<confSamples, ring>>
    <2>1. ConfTyped' /\ reload' = TRUE /\ allocated' = allocated
      BY <1>0, <1>6, ControllerWorks DEF ring
    <2> QED BY <1>0, <2>1 DEF CpuConfInv, Works
  <1>7. CASE Environment /\ UNCHANGED <<confSamples, ring>>
    BY <1>0, <1>2, <1>7, EnvironmentWorks DEF ring
  <1>8. CASE \E n \in SampleCounts : SetNumSamples(n)
    <2>1. /\ conf' = conf /\ reload' = TRUE /\ allocated' = allocated
          /\ UNCHANGED <<timer, pc>>
      BY <1>8 DEF SetNumSamples, Write, ring
    <2> QED BY <1>0, <2>1 DEF CpuConfInv, ConfTyped, Works
  <1>9. CASE UNCHANGED vars
    BY <1>0, <1>2, <1>9, StutterWorks DEF vars, ring
  <1> QED BY <1>1, <1>3, <1>4, <1>5, <1>6, <1>7, <1>8, <1>9 DEF Next, Daemon

(***************************************************************************)
(* sysmngr_cpu_clean and sysmngr_cpu_init upon sysmngr.reload: with no     *)
(* reload to come the monitor works with the configuration in UCI, and     *)
(* polls exactly when it is enabled and got its rings.                     *)
(***************************************************************************)
THEOREM CpuConfigApplied == Spec => []ConfigApplied
  <1>1. Init => CpuConfInv
    BY InitTyped DEF Init, MonitorInit, CpuConfInv, Works
  <1>2. CpuConfInv /\ [Next]_vars => CpuConfInv'
    BY CpuWorks
  <1>3. CpuConfInv => ConfigApplied
    BY DEF CpuConfInv, Works, ConfigApplied, AppliedIf
  <1> QED BY <1>1, <1>2, <1>3, PTL DEF Spec

-----------------------------------------------------------------------------
(***************************************************************************)
(* Induction.  The order of the naturals is well founded, so that every    *)
(* set of numbers has a least one, and a set of finite sets one from which *)
(* nothing can be taken away.                                              *)
(***************************************************************************)
Below == OpToRel(<, Nat)

LEMMA BelowWellFounded == IsWellFoundedOn(Below, Nat)
  BY NatLessThanWellFounded DEF Below

LEMMA BelowIsLess ==
    ASSUME NEW x \in Nat, NEW y \in Nat
    PROVE  <<y, x>> \in Below <=> y < x
  BY DEF Below, OpToRel

LEMMA Least ==
    ASSUME NEW T, T \subseteq Nat, T # {}
    PROVE  \E x \in T : \A y \in T : x <= y
  <1>1. PICK x \in T : \A y \in T : ~(<<y, x>> \in Below)
    BY BelowWellFounded, WFMin
  <1>2. \A y \in T : ~(y < x)
    BY <1>1, BelowIsLess
  <1>3. \A y \in T : x <= y
    BY <1>2
  <1> QED BY <1>3

\* What fails for some subset of a finite set fails for one of which no
\* element is superfluous.
LEMMA Smallest ==
    ASSUME NEW S, IsFiniteSet(S), NEW B, B \subseteq SUBSET S, B # {}
    PROVE  \E U \in B : \A x \in U : U \ {x} \notin B
  <1> DEFINE T == {Cardinality(U) : U \in B}
  <1>1. \A U \in B : IsFiniteSet(U) /\ Cardinality(U) \in Nat
    BY FS_Subset, FS_CardinalityType
  <1>2. T \subseteq Nat /\ T # {}
    BY <1>1
  <1>3. PICK n \in T : \A m \in T : n <= m
    <2> HIDE DEF T
    <2> QED BY <1>2, Least
  <1>4. PICK U \in B : n = Cardinality(U)
    OBVIOUS
  <1>5. ASSUME NEW x \in U, U \ {x} \in B
        PROVE  FALSE
    <2>1. Cardinality(U \ {x}) = Cardinality(U) - 1
      BY <1>1, <1>4, FS_RemoveElement
    <2>2. n <= Cardinality(U \ {x})
      BY <1>3, <1>5
    <2> QED BY <1>1, <1>4, <2>1, <2>2
  <1> QED BY <1>4, <1>5

(***************************************************************************)
(* SumFunctionOnSet.  Its definition by a fold makes sense on finite sets; *)
(* the order in which it takes the elements does not matter.               *)
(***************************************************************************)
Taken(s) == CHOOSE x \in s : TRUE

\* One step of the fold, for the partial sums g.
SumOf(f, s, g) == IF s = {} THEN 0 ELSE f[Taken(s)] + g[s \ {Taken(s)}]
Folds(f, S, g) == g = [s \in SUBSET S |-> SumOf(f, s, g)]

LEMMA SumIsFold ==
    ASSUME NEW f, NEW S
    PROVE  SumFunctionOnSet(f, S) = (CHOOSE g : Folds(f, S, g))[S]
  BY DEF SumFunctionOnSet, FoldFunctionOnSet, MapThenFoldSet, Folds, SumOf,
         Taken

LEMMA TakenIn ==
    ASSUME NEW s, s # {}
    PROVE  Taken(s) \in s
  BY DEF Taken

\* The sets of at most k elements.
Level(S, k) == {s \in SUBSET S : Cardinality(s) <= k}
FoldsTo(f, S, k, g) == g = [s \in Level(S, k) |-> SumOf(f, s, g)]

LEMMA LevelDown ==
    ASSUME NEW S, IsFiniteSet(S), NEW k \in Nat, NEW s \in Level(S, k + 1),
           s # {}
    PROVE  s \ {Taken(s)} \in Level(S, k)
  <1>1. IsFiniteSet(s) /\ Taken(s) \in s /\ Cardinality(s) <= k + 1
    BY FS_Subset, TakenIn DEF Level
  <1>2. Cardinality(s \ {Taken(s)}) = Cardinality(s) - 1
    BY <1>1, FS_RemoveElement
  <1>3. Cardinality(s) \in Nat
    BY <1>1, FS_CardinalityType
  <1> QED BY <1>1, <1>2, <1>3 DEF Level

\* Partial sums over larger and larger sets.
LEMMA FoldsUpTo ==
    ASSUME NEW f, NEW S, IsFiniteSet(S), NEW n \in Nat
    PROVE  \E g : FoldsTo(f, S, n, g)
  <1> DEFINE T == {k \in Nat : ~ \E g : FoldsTo(f, S, k, g)}
  <1> SUFFICES ASSUME T # {} PROVE FALSE
    OBVIOUS
  <1>1. PICK m \in T : \A k \in T : m <= k
    <2>1. T \subseteq Nat
      OBVIOUS
    <2> HIDE DEF T
    <2> QED BY <2>1, Least
  <1>2. CASE m = 0
    <2> DEFINE g == [s \in Level(S, 0) |-> 0]
    <2>1. \A s \in Level(S, 0) : s = {}
      BY FS_Subset, FS_EmptySet, FS_CardinalityType DEF Level
    <2>2. FoldsTo(f, S, 0, g)
      BY <2>1 DEF FoldsTo, SumOf
    <2> QED BY <1>2, <2>2
  <1>3. CASE m # 0
    <2>1. m - 1 \in Nat /\ m - 1 \notin T
      BY <1>1, <1>3
    <2>2. PICK g : FoldsTo(f, S, m - 1, g)
      BY <2>1
    <2> DEFINE h == [s \in Level(S, m) |-> SumOf(f, s, g)]
    <2>3. \A s \in Level(S, m - 1) : s \in Level(S, m) /\ h[s] = g[s]
      <3>1. \A s \in Level(S, m - 1) : s \in Level(S, m)
        BY FS_Subset, FS_CardinalityType DEF Level
      <3>2. \A s \in Level(S, m - 1) : g[s] = SumOf(f, s, g)
        BY <2>2 DEF FoldsTo
      <3> QED BY <3>1, <3>2
    <2>4. \A s \in Level(S, m) : s # {} => s \ {Taken(s)} \in Level(S, m - 1)
      <3>1. m = (m - 1) + 1
        BY <2>1
      <3> QED BY <2>1, <3>1, LevelDown
    <2>5. \A s \in Level(S, m) : SumOf(f, s, g) = SumOf(f, s, h)
      <3> HIDE DEF h
      <3> QED BY <2>3, <2>4 DEF SumOf
    <2>6. FoldsTo(f, S, m, h)
      BY <2>5 DEF FoldsTo
    <2> QED BY <2>6
  <1> QED BY <1>2, <1>3

LEMMA FoldDefined ==
    ASSUME NEW f, NEW S, IsFiniteSet(S)
    PROVE  Folds(f, S, CHOOSE g : Folds(f, S, g))
  <1>1. Cardinality(S) \in Nat
    BY FS_CardinalityType
  <1>2. PICK g : FoldsTo(f, S, Cardinality(S), g)
    BY <1>1, FoldsUpTo
  <1>3. Level(S, Cardinality(S)) = SUBSET S
    BY FS_Subset DEF Level
  <1>4. Folds(f, S, g)
    BY <1>2, <1>3 DEF FoldsTo, Folds
  <1> QED BY <1>4

\* Partial sums do not depend on the set they are computed for.
LEMMA FoldsAgree ==
    ASSUME NEW f, NEW S, IsFiniteSet(S), NEW g, Folds(f, S, g),
           NEW T, T \subseteq S, NEW h, Folds(f, T, h)
    PROVE  g[T] = h[T]
  <1> DEFINE B == {U \in SUBSET T : g[U] # h[U]}
  <1> SUFFICES ASSUME B # {} PROVE FALSE
    OBVIOUS
  <1>1. IsFiniteSet(T) /\ B \subseteq SUBSET T
    BY FS_Subset
  <1>2. PICK U \in B : \A x \in U : U \ {x} \notin B
    <2> HIDE DEF B
    <2> QED BY <1>1, Smallest
  <1>3. g[U] = SumOf(f, U, g) /\ h[U] = SumOf(f, U, h)
    BY DEF Folds
  <1>4. U # {} => g[U \ {Taken(U)}] = h[U \ {Taken(U)}]
    BY <1>2, TakenIn
  <1> QED BY <1>3, <1>4 DEF SumOf

LEMMA SumEmpty ==
    ASSUME NEW f
    PROVE  SumFunctionOnSet(f, {}) = 0
  <1>1. Folds(f, {}, CHOOSE g : Folds(f, {}, g))
    BY FoldDefined, FS_EmptySet
  <1> QED BY <1>1, SumIsFold DEF Folds, SumOf

LEMMA SumTaken ==
    ASSUME NEW f, NEW S, IsFiniteSet(S), S # {}
    PROVE  SumFunctionOnSet(f, S) =
              f[Taken(S)] + SumFunctionOnSet(f, S \ {Taken(S)})
  <1> DEFINE T == S \ {Taken(S)}
             g == CHOOSE e : Folds(f, S, e)
             h == CHOOSE e : Folds(f, T, e)
  <1>1. IsFiniteSet(T) /\ T \subseteq S
    BY FS_Subset
  <1>2. Folds(f, S, g) /\ Folds(f, T, h)
    BY <1>1, FoldDefined
  <1>3. SumFunctionOnSet(f, S) = g[S] /\ SumFunctionOnSet(f, T) = h[T]
    BY SumIsFold
  <1> HIDE DEF g, h
  <1>4. g[T] = h[T]
    BY <1>1, <1>2, FoldsAgree
  <1>5. g[S] = f[Taken(S)] + g[T]
    BY <1>2 DEF Folds, SumOf
  <1> QED BY <1>3, <1>4, <1>5

LEMMA SumType ==
    ASSUME NEW f, NEW S, IsFiniteSet(S), \A i \in S : f[i] \in Nat
    PROVE  SumFunctionOnSet(f, S) \in Nat
  <1> DEFINE B == {U \in SUBSET S : SumFunctionOnSet(f, U) \notin Nat}
  <1> SUFFICES ASSUME B # {} PROVE FALSE
    OBVIOUS
  <1>1. PICK U \in B : \A x \in U : U \ {x} \notin B
    <2>1. B \subseteq SUBSET S
      OBVIOUS
    <2> HIDE DEF B
    <2> QED BY <2>1, Smallest
  <1>2. U # {}
    BY SumEmpty
  <1>3. IsFiniteSet(U) /\ Taken(U) \in U
    BY <1>2, TakenIn, FS_Subset
  <1>4. SumFunctionOnSet(f, U \ {Taken(U)}) \in Nat
    BY <1>1, <1>3
  <1> QED BY <1>2, <1>3, <1>4, SumTaken

\* Any element may be taken first.
LEMMA SumRemove ==
    ASSUME NEW f, NEW S, IsFiniteSet(S), \A i \in S : f[i] \in Nat,
           NEW x \in S
    PROVE  SumFunctionOnSet(f, S) = f[x] + SumFunctionOnSet(f, S \ {x})
  <1> DEFINE Splits(U, y) ==
                SumFunctionOnSet(f, U) = f[y] + SumFunctionOnSet(f, U \ {y})
             B == {U \in SUBSET S : \E y \in U : ~Splits(U, y)}
  <1> SUFFICES ASSUME B # {} PROVE FALSE
    OBVIOUS
  <1>1. PICK U \in B : \A y \in U : U \ {y} \notin B
    <2>1. B \subseteq SUBSET S
      OBVIOUS
    <2> HIDE DEF B
    <2> QED BY <2>1, Smallest
  <1>2. PICK y \in U : ~Splits(U, y)
    OBVIOUS
  <1> DEFINE p == Taken(U)
  <1>3. p \in U /\ Splits(U, p)
    BY TakenIn, SumTaken, FS_Subset
  <1>4. p # y
    BY <1>2, <1>3
  <1> HIDE DEF p
  <1>5. Splits(U \ {p}, y) /\ Splits(U \ {y}, p)
    BY <1>1, <1>3, <1>4
  <1>6. (U \ {p}) \ {y} = (U \ {y}) \ {p}
    OBVIOUS
  <1> DEFINE r == SumFunctionOnSet(f, (U \ {p}) \ {y})
  <1>7. r \in Nat /\ f[p] \in Nat /\ f[y] \in Nat
    <2>1. IsFiniteSet((U \ {p}) \ {y})
      BY FS_Subset
    <2> QED BY <1>3, <2>1, SumType
  <1>8. SumFunctionOnSet(f, U \ {p}) = f[y] + r
        /\ SumFunctionOnSet(f, U \ {y}) = f[p] + r
    BY <1>5, <1>6
  <1> HIDE DEF r
  <1> QED BY <1>2, <1>3, <1>7, <1>8

Image(b, S) == {b[x] : x \in S}

LEMMA ImageFinite ==
    ASSUME NEW b, NEW S, IsFiniteSet(S)
    PROVE  IsFiniteSet(Image(b, S))
  <1> DEFINE f == [x \in S |-> b[x]]
  <1>1. f \in Surjection(S, Image(b, S))
    BY DEF Surjection, Image
  <1> QED BY <1>1, FS_Surjection

\* The same values under other indices have the same sum.
LEMMA SumReindexed ==
    ASSUME NEW f, NEW S, IsFiniteSet(S), \A i \in S : f[i] \in Nat,
           NEW g, NEW b, \A i, j \in S : b[i] = b[j] => i = j,
           \A i \in S : g[b[i]] = f[i]
    PROVE  SumFunctionOnSet(f, S) = SumFunctionOnSet(g, Image(b, S))
  <1> DEFINE B == {U \in SUBSET S :
                SumFunctionOnSet(f, U) # SumFunctionOnSet(g, Image(b, U))}
  <1> SUFFICES ASSUME B # {} PROVE FALSE
    OBVIOUS
  <1>1. PICK U \in B : \A x \in U : U \ {x} \notin B
    <2>1. B \subseteq SUBSET S
      OBVIOUS
    <2> HIDE DEF B
    <2> QED BY <2>1, Smallest
  <1>2. U # {}
    <2>1. Image(b, {}) = {}
      BY DEF Image
    <2> QED BY <2>1, SumEmpty
  <1>3. PICK x \in U : TRUE
    BY <1>2
  <1>4. SumFunctionOnSet(f, U \ {x}) = SumFunctionOnSet(g, Image(b, U \ {x}))
    BY <1>1
  <1>5. IsFiniteSet(U) /\ IsFiniteSet(Image(b, U))
    <2>1. IsFiniteSet(U)
      BY FS_Subset
    <2> QED BY <2>1, ImageFinite
  <1>6. SumFunctionOnSet(f, U) = f[x] + SumFunctionOnSet(f, U \ {x})
    BY <1>5, SumRemove
  <1>7. /\ b[x] \in Image(b, U) /\ \A i \in Image(b, U) : g[i] \in Nat
        /\ Image(b, U) \ {b[x]} = Image(b, U \ {x})
    BY DEF Image
  <1>8. SumFunctionOnSet(g, Image(b, U)) =
           g[b[x]] + SumFunctionOnSet(g, Image(b, U) \ {b[x]})
    BY <1>5, <1>7, SumRemove
  <1> QED BY <1>4, <1>6, <1>7, <1>8

-----------------------------------------------------------------------------
(***************************************************************************)
(* The inductive invariant of the mean: where in the ring each of the      *)
(* latest samples is.                                                      *)
(***************************************************************************)
Slot(i) ==
    IF ~full THEN i - 1
    ELSE IF index + i - 1 < num_samples THEN index + i - 1
    ELSE index + i - 1 - num_samples

RingTyped ==
    /\ num_samples \in Nat \ {0}
    /\ samples \in [0..(num_samples - 1) -> Nat]
    /\ index \in 0..(num_samples - 1)
    /\ full \in BOOLEAN
    /\ recent \in Seq(Nat)

LatestKept ==
    /\ Len(recent) = IF full THEN num_samples ELSE index
    /\ \A i \in 1..Len(recent) : recent[i] = samples[Slot(i)]

\* The slots of the latest samples are the ones the mean is taken of.
LEMMA SlotsRead ==
    ASSUME RingTyped, LatestKept
    PROVE  /\ \A i, j \in 1..Len(recent) : Slot(i) = Slot(j) => i = j
           /\ {Slot(i) : i \in 1..Len(recent)} =
                 0..((IF full THEN num_samples ELSE index) - 1)
  <1> DEFINE n == IF full THEN num_samples ELSE index
  <1>1. n \in Nat /\ Len(recent) = n
    BY DEF RingTyped, LatestKept
  <1>2. \A i, j \in 1..n : Slot(i) = Slot(j) => i = j
    BY DEF RingTyped, Slot
  <1>3. \A i \in 1..n : Slot(i) \in 0..(n - 1)
    BY DEF RingTyped, Slot
  <1>4. \A k \in 0..(n - 1) : \E i \in 1..n : Slot(i) = k
    <2> SUFFICES ASSUME NEW k \in 0..(n - 1) PROVE \E i \in 1..n : Slot(i) = k
      OBVIOUS
    <2> DEFINE i == IF ~full THEN k + 1
                    ELSE IF k >= index THEN k - index + 1
                    ELSE k - index + 1 + num_samples
    <2>1. i \in 1..n /\ Slot(i) = k
      BY DEF RingTyped, Slot
    <2> QED BY <2>1
  <1> HIDE DEF n
  <1>5. {Slot(i) : i \in 1..n} = 0..(n - 1)
    BY <1>3, <1>4
  <1> QED BY <1>1, <1>2, <1>5 DEF n

LEMMA MeanOfLatest ==
    ASSUME RingTyped, LatestKept
    PROVE  AverageOfLatest
  <1> DEFINE n == IF full THEN num_samples ELSE index
             S == 1..n
             b == [i \in S |-> Slot(i)]
  <1>1. n \in Nat /\ Len(recent) = n /\ DOMAIN recent = S
    BY DEF RingTyped, LatestKept
  <1>2. recent = <<>> <=> n = 0
    BY <1>1 DEF RingTyped
  <1>3. SumFunctionOnSet(recent, S) = SumFunctionOnSet(samples, 0..(n - 1))
    <2>1. IsFiniteSet(S) /\ \A i \in S : recent[i] \in Nat
      <3>1. 1 \in Int /\ n \in Int
        BY <1>1
      <3>2. IsFiniteSet(1..n)
        <4> HIDE DEF n
        <4> QED BY <3>1, FS_Interval
      <3>3. \A i \in S : recent[i] \in Nat
        BY <1>1 DEF RingTyped
      <3> QED BY <3>2, <3>3
    <2>2. /\ \A i, j \in S : b[i] = b[j] => i = j
          /\ Image(b, S) = 0..(n - 1)
      BY <1>1, SlotsRead DEF Image
    <2>3. \A i \in S : samples[b[i]] = recent[i]
      BY <1>1 DEF LatestKept
    <2> HIDE DEF S, b
    <2>4. SumFunctionOnSet(recent, S) = SumFunctionOnSet(samples, Image(b, S))
      BY <2>1, <2>2, <2>3, SumReindexed
    <2> QED BY <2>2, <2>4
  <1>4. SumFunction(recent) = SumFunctionOnSet(recent, S)
    BY <1>1 DEF SumFunction
  <1>5. AverageSamples(samples, index, full) =
           IF n = 0 THEN 0 ELSE SumFunctionOnSet(samples, 0..(n - 1)) \div n
    BY DEF AverageSamples
  <1> HIDE DEF n, S
  <1> QED BY <1>1, <1>2, <1>3, <1>4, <1>5 DEF AverageOfLatest

LEMMA Modulo ==
    ASSUME NEW n \in Nat \ {0}
    PROVE  n % n = 0 /\ \A i \in 0..(n - 1) : i % n = i
  <1>1. n % n = 0
    OBVIOUS
  <1>2. ASSUME NEW i \in 0..(n - 1) PROVE i % n = i
    OBVIOUS
  <1> QED BY <1>1, <1>2

\* The index of the next slot, and when the ring has been filled.
LEMMA NextSlot ==
    ASSUME RingTyped
    PROVE  /\ NextIndex = IF index + 1 = num_samples THEN 0 ELSE index + 1
           /\ RingFull <=> index + 1 = num_samples
  <1>1. CASE index + 1 = num_samples
    <2>1. NextIndex = 0
      BY <1>1, Modulo DEF RingTyped, NextIndex
    <2> QED BY <1>1, <2>1 DEF RingTyped, RingFull
  <1>2. CASE index + 1 < num_samples
    <2>1. index + 1 \in 0..(num_samples - 1)
      BY <1>2 DEF RingTyped
    <2>2. NextIndex = index + 1
      BY <2>1, Modulo DEF RingTyped, NextIndex
    <2> QED BY <1>2, <2>2 DEF RingTyped, RingFull
  <1> QED BY <1>1, <1>2 DEF RingTyped

\* A sample takes the place of the oldest one.
LEMMA SampleKept ==
    ASSUME RingTyped, LatestKept, NEW u \in Nat,
           samples' = [samples EXCEPT ![index] = u],
           full' = (full \/ RingFull), index' = NextIndex,
           recent' = Latest(u), num_samples' = num_samples
    PROVE  RingTyped' /\ LatestKept'
  <1> DEFINE s == Append(recent, u)
  <1>1. /\ s \in Seq(Nat) /\ s # <<>> /\ Len(s) = Len(recent) + 1
        /\ \A i \in 1..Len(recent) : s[i] = recent[i]
        /\ s[Len(recent) + 1] = u
    <2>1. recent \in Seq(Nat)
      BY DEF RingTyped
    <2> QED BY <2>1, AppendProperties
  <1> HIDE DEF s
  <1>2. /\ Tail(s) \in Seq(Nat) /\ Len(Tail(s)) = Len(s) - 1
        /\ \A i \in 1..Len(Tail(s)) : Tail(s)[i] = s[i + 1]
    BY <1>1, HeadTailProperties
  <1>3. recent' = IF Len(s) > num_samples THEN Tail(s) ELSE s
    BY DEF Latest, s
  <1>4. /\ index' = IF index + 1 = num_samples THEN 0 ELSE index + 1
        /\ full' = (full \/ index + 1 = num_samples)
    BY NextSlot
  <1>5. RingTyped'
    BY <1>1, <1>2, <1>3, <1>4 DEF RingTyped
  <1>6. CASE full
    <2>1. /\ full' /\ Len(recent) = num_samples /\ recent' = Tail(s)
          /\ Len(recent') = num_samples
      <3>1. Len(recent) = num_samples /\ num_samples \in Nat
        BY <1>6 DEF RingTyped, LatestKept
      <3>2. Len(s) = num_samples + 1 /\ recent' = Tail(s)
        BY <1>1, <1>3, <3>1
      <3>3. full' = TRUE
        BY <1>4, <1>6
      <3> QED BY <1>2, <3>1, <3>2, <3>3
    <2>2. ASSUME NEW i \in 1..num_samples
          PROVE  recent'[i] = samples'[Slot(i)']
      <3>1. recent'[i] = s[i + 1]
        BY <1>2, <2>1
      <3>2. CASE i = num_samples
        <4>1. Slot(i)' = index
          BY <1>4, <2>1, <3>2 DEF RingTyped, Slot
        <4> QED BY <1>1, <2>1, <3>1, <3>2, <4>1 DEF RingTyped
      <3>3. CASE i < num_samples
        <4>1. Slot(i)' = Slot(i + 1) /\ Slot(i + 1) # index
          BY <1>4, <1>6, <2>1, <3>3 DEF RingTyped, Slot
        <4>2. s[i + 1] = samples[Slot(i + 1)]
          BY <1>1, <2>1, <3>3 DEF RingTyped, LatestKept
        <4>3. Slot(i + 1) \in 0..(num_samples - 1)
          BY <1>6, <3>3 DEF RingTyped, Slot
        <4> QED BY <3>1, <4>1, <4>2, <4>3 DEF RingTyped
      <3> QED BY <3>2, <3>3 DEF RingTyped
    <2> QED BY <1>5, <2>1, <2>2 DEF LatestKept
  <1>7. CASE ~full
    <2>1. /\ Len(recent) = index /\ recent' = s /\ Len(s) = index + 1
          /\ Len(recent') = IF full' THEN num_samples' ELSE index'
      <3>1. Len(recent) = index /\ index \in 0..(num_samples - 1)
            /\ num_samples \in Nat
        BY <1>7 DEF RingTyped, LatestKept
      <3>2. Len(s) = index + 1 /\ recent' = s
        BY <1>1, <1>3, <3>1
      <3>3. full' = (index + 1 = num_samples)
        BY <1>4, <1>7
      <3> QED BY <1>4, <3>1, <3>2, <3>3
    <2>2. ASSUME NEW i \in 1..(index + 1)
          PROVE  recent'[i] = samples'[i - 1] /\ Slot(i)' = i - 1
      <3>1. Slot(i)' = i - 1
        BY <1>4, <1>7 DEF RingTyped, Slot
      <3>2. CASE i = index + 1
        BY <1>1, <2>1, <3>1, <3>2 DEF RingTyped
      <3>3. CASE i < index + 1
        <4>1. i \in 1..Len(recent) /\ Slot(i) = i - 1
          BY <1>7, <2>1, <3>3 DEF RingTyped, Slot
        <4>2. s[i] = samples[i - 1]
          BY <1>1, <4>1 DEF LatestKept
        <4> QED BY <2>1, <3>1, <3>3, <4>2 DEF RingTyped
      <3> QED BY <3>2, <3>3 DEF RingTyped
    <2> QED BY <1>5, <2>1, <2>2 DEF LatestKept
  <1> QED BY <1>5, <1>6, <1>7 DEF RingTyped

\* The invariant of everything the monitor keeps.
CpuTyped ==
    /\ CpuConfInv /\ DataTyped /\ RingTyped /\ LatestKept
    /\ confSamples \in SampleCounts \cup {DefaultSamples}
    /\ num_samples \in SampleCounts \cup {DefaultSamples}

LEMMA RingFresh ==
    ASSUME NEW n \in Nat \ {0}, RingOf(n)
    PROVE  RingTyped' /\ LatestKept'
  <1>1. RingTyped'
    <2>1. /\ num_samples' = n /\ index' = 0 /\ full' = FALSE
          /\ samples' = [i \in 0..(n - 1) |-> 0] /\ recent' = <<>>
      BY DEF RingOf
    <2>2. samples' \in [0..(n - 1) -> Nat] /\ recent' \in Seq(Nat)
      BY <2>1
    <2> QED BY <2>1, <2>2 DEF RingTyped
  <1>2. LatestKept'
    BY DEF RingOf, LatestKept
  <1> QED BY <1>1, <1>2

LEMMA RingStays ==
    ASSUME RingTyped, LatestKept, UNCHANGED ring
    PROVE  RingTyped' /\ LatestKept'
  BY DEF RingTyped, LatestKept, Slot, ring

LEMMA AverageType ==
    ASSUME num_samples \in Nat, NEW s \in [0..(num_samples - 1) -> Nat],
           NEW i \in Nat, i <= num_samples, NEW f \in BOOLEAN
    PROVE  AverageSamples(s, i, f) \in Nat
  <1> DEFINE n == IF f THEN num_samples ELSE i
             sum == SumFunctionOnSet(s, 0..(n - 1))
  <1>1. n \in Nat /\ n <= num_samples
    OBVIOUS
  <1>2. AverageSamples(s, i, f) = IF n = 0 THEN 0 ELSE sum \div n
    BY DEF AverageSamples
  <1> HIDE DEF n
  <1>3. sum \in Nat
    <2>1. IsFiniteSet(0..(n - 1))
      <3>1. 0 \in Int /\ n - 1 \in Int
        BY <1>1
      <3> QED BY <3>1, FS_Interval
    <2>2. \A k \in 0..(n - 1) : s[k] \in Nat
      BY <1>1
    <2> QED BY <2>1, <2>2, SumType
  <1> HIDE DEF sum
  <1> QED BY <1>1, <1>2, <1>3

LEMMA CpuTypedStep ==
    ASSUME CpuTyped, [Next]_vars
    PROVE  CpuTyped'
  <1>0. /\ ConfTyped /\ DataTyped /\ RingTyped /\ LatestKept
        /\ confSamples \in SampleCounts \cup {DefaultSamples}
        /\ num_samples \in SampleCounts \cup {DefaultSamples}
    BY DEF CpuTyped, CpuConfInv
  <1>1. CpuConfInv' /\ ConfTyped'
    BY CpuWorks DEF CpuTyped, CpuConfInv
  <1>2. ASSUME UNCHANGED ring, UNCHANGED confSamples, DataTyped'
        PROVE  CpuTyped'
    BY <1>0, <1>1, <1>2, RingStays DEF CpuTyped, ring
  <1>3. CASE CpuInit \/ CpuReload
    <2>1. \E armed \in BOOLEAN : Restart("idle", armed)
      BY <1>3 DEF CpuInit, CpuReload, Starts, Reloads, Allocations
    <2>2. DataTyped'
      BY <1>0, <2>1, RestartData
    <2>3. RingOf(confSamples) /\ confSamples' = confSamples
      BY <1>3 DEF CpuInit, CpuReload
    <2>4. confSamples \in Nat \ {0} /\ num_samples' = confSamples
      BY <1>0, <2>3, CpuMonitorAssumption DEF RingOf
    <2>5. RingTyped' /\ LatestKept'
      BY <2>3, <2>4, RingFresh
    <2> QED BY <1>0, <1>1, <2>2, <2>3, <2>4, <2>5 DEF CpuTyped
  <1>4. CASE CpuTimer
    BY <1>0, <1>2, <1>4 DEF CpuTimer, TimerFires, disk, memory, outside,
       ghosts, DataTyped
  <1>5. CASE RunCpuMonitor
    <2>1. PICK u \in Sample :
             /\ samples' = [samples EXCEPT ![index] = u]
             /\ full' = (full \/ RingFull)
             /\ index' = NextIndex
             /\ recent' = Latest(u)
      BY <1>5 DEF RunCpuMonitor
    <2>2. u \in Nat /\ UNCHANGED <<confSamples, num_samples>>
      BY <1>0, <1>5, CriticalStateAssumption
         DEF RunCpuMonitor, Sample, DataTyped
    <2>3. RingTyped' /\ LatestKept'
      BY <1>0, <2>1, <2>2, SampleKept
    <2> DEFINE average == AverageSamples(samples', index', full')
    <2>4. average \in Nat
      <3>1. /\ samples' \in [0..(num_samples - 1) -> Nat]
            /\ index' \in Nat /\ full' \in BOOLEAN
            /\ index' <= num_samples /\ num_samples \in Nat
        BY <2>2, <2>3 DEF RingTyped
      <3> QED BY <3>1, AverageType
    <2>5. NoRise(average) \/ \E now \in Readings : Rise(average, now)
      BY <1>5 DEF RunCpuMonitor
    <2> HIDE DEF average
    <2>6. DataTyped'
      BY <1>0, <2>4, <2>5, PollData
    <2> QED BY <1>0, <1>1, <2>2, <2>3, <2>6 DEF CpuTyped
  <1>6. CASE AfterPoll /\ UNCHANGED <<confSamples, ring>>
    BY <1>0, <1>2, <1>6, AfterPollData
  <1>7. CASE Controller /\ UNCHANGED <<confSamples, ring>>
    BY <1>0, <1>2, <1>7, ControllerData
  <1>8. CASE Environment /\ UNCHANGED <<confSamples, ring>>
    BY <1>0, <1>2, <1>8, EnvironmentData
  <1>9. CASE \E n \in SampleCounts : SetNumSamples(n)
    <2>1. /\ confSamples' \in SampleCounts /\ UNCHANGED ring
          /\ Write(conf) /\ files' = files
      BY <1>9 DEF SetNumSamples
    <2>2. DataTyped'
      BY <1>0, <2>1 DEF Write, DataTyped, memory, outside
    <2>3. num_samples' = num_samples
      BY <2>1 DEF ring
    <2> QED BY <1>0, <1>1, <2>1, <2>2, <2>3, RingStays DEF CpuTyped
  <1>10. CASE UNCHANGED vars
    BY <1>0, <1>2, <1>10 DEF vars, monitorVars, disk, memory, outside, ghosts,
       DataTyped
  <1> QED BY <1>3, <1>4, <1>5, <1>6, <1>7, <1>8, <1>9, <1>10 DEF Next, Daemon

LEMMA CpuTypedInv == Spec => []CpuTyped
  <1>1. ASSUME Init PROVE CpuTyped
    <2>1. DefaultSamples \in Nat \ {0}
      BY CpuMonitorAssumption
    <2>2. CpuConfInv /\ DataTyped
      BY <1>1, InitTyped, InitData DEF Init, MonitorInit, CpuConfInv, Works
    <2>3. RingTyped
      BY <1>1, <2>1 DEF Init, RingTyped
    <2>4. LatestKept
      BY <1>1 DEF Init, LatestKept
    <2> QED BY <1>1, <2>2, <2>3, <2>4 DEF Init, CpuTyped
  <1>2. CpuTyped /\ [Next]_vars => CpuTyped'
    BY CpuTypedStep
  <1> QED BY <1>1, <1>2, PTL DEF Spec

(***************************************************************************)
(* The options, the stamps and the ring of the CPU monitor (g_cpu_ctx,     *)
(* processes.c) are what their types say; so is the average it evaluates.  *)
(***************************************************************************)
THEOREM CpuTypes == Spec => []TypeOK
  <1>1. CpuTyped => TypeOK
    BY DEF CpuTyped, CpuConfInv, ConfTyped, DataTyped, RingTyped, TypeOK,
           MonitorTypeOK, Inside
  <1> QED BY <1>1, CpuTypedInv, PTL

(***************************************************************************)
(* run_cpu_monitor and calculate_average_utilization: at every point of    *)
(* every lap, for every length of the ring, what is evaluated is the mean  *)
(* of exactly the latest samples.                                          *)
(***************************************************************************)
THEOREM CpuAverageOfLatest == Spec => []AverageOfLatest
  <1>1. CpuTyped => AverageOfLatest
    BY MeanOfLatest DEF CpuTyped
  <1> QED BY <1>1, CpuTypedInv, PTL

=============================================================================
