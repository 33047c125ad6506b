--------------------------- MODULE RebootsProofs ---------------------------
(***************************************************************************)
(* What holds of the boot registration for every number of boots, deaths,  *)
(* retries and records: the types, the bound on the list of records, the   *)
(* accounting of the counters, that a registered boot is not recounted,    *)
(* with a clock that survives a boot the order of the records and the      *)
(* record of each registered boot, and undisturbed the cause it names.     *)
(***************************************************************************)
EXTENDS Reboots, TLAPS

USE RebootsAssumption

-----------------------------------------------------------------------------
(***************************************************************************)
(* Type correctness                                                        *)
(***************************************************************************)
\* Writing one option of the current section keeps the list a list of
\* sections of the same length.
LEMMA PutKeeps ==
    ASSUME sections \in Seq(Section),
           NEW sec, sec \in [DOMAIN sections -> Section], Put(sec)
    PROVE  sections' \in Seq(Section) /\ Len(sections') = Len(sections)
  <1> DEFINE n == Len(sections)
  <1>1. n \in Nat /\ DOMAIN sections = 1..n
    OBVIOUS
  <1>2. \A i \in 1..n : sections[i] \in Section /\ sec[i] \in Section
    BY <1>1
  <1>3. sections' = [i \in 1..n |->
             IF sections[i].name = op.name THEN sec[i] ELSE sections[i]]
    BY <1>1 DEF Put
  <1>4. sections' \in [1..n -> Section]
    BY <1>2, <1>3
  <1> QED
    BY <1>1, <1>4

\* Deleting the oldest records keeps a list of sections; its length follows.
LEMMA SuffixType ==
    ASSUME sections \in Seq(Section), NEW k \in Nat \ {0},
           k <= Len(sections) + 1
    PROVE  /\ SubSeq(sections, k, Len(sections)) \in Seq(Section)
           /\ Len(SubSeq(sections, k, Len(sections)))
                 = Len(sections) - k + 1
  OBVIOUS

\* Whatever max_reboot_entries is set to, it stands for at least one record.
LEMMA EffectiveType ==
    ASSUME NEW max \in EntryValues \cup {DefaultEntries}
    PROVE  Effective(max) \in Nat \ {0}
  <1>1. CASE max \in EntryValues
    BY <1>1 DEF Effective
  <1>2. CASE max = DefaultEntries
    BY <1>2 DEF Effective
  <1> QED
    BY <1>1, <1>2

\* What delete_excess_reboot_sections leaves: one place short of the limit,
\* or everything when there is room already.
LEMMA TrimmedType ==
    ASSUME TypeOK, cfg.max_reboot_entries # 0
    PROVE  LET t == Trimmed(cfg.max_reboot_entries)
           IN  /\ t \in Seq(Section)
               /\ Len(t) + 1 <= Effective(cfg.max_reboot_entries)
               /\ Len(t) <= Len(sections)
  <1> DEFINE eff == Effective(cfg.max_reboot_entries)
             k == Len(sections) - eff + 2
  <1>1. cfg.max_reboot_entries \in EntryValues \cup {DefaultEntries}
    BY DEF TypeOK, Cfg
  <1>2. eff \in Nat \ {0}
    BY <1>1, EffectiveType
  <1>3. sections \in Seq(Section) /\ Len(sections) \in Nat
    BY DEF TypeOK
  <1> HIDE DEF eff
  <1>4. CASE Len(sections) - eff < 0
    BY <1>2, <1>3, <1>4 DEF Trimmed, eff
  <1>5. CASE ~(Len(sections) - eff < 0)
    <2>1. k \in Nat \ {0} /\ k <= Len(sections) + 1
      BY <1>2, <1>3, <1>5
    <2>2. Trimmed(cfg.max_reboot_entries)
             = SubSeq(sections, k, Len(sections))
      BY <1>5 DEF Trimmed, eff
    <2> QED
      BY <1>2, <1>3, <2>1, <2>2, SuffixType DEF eff
  <1> QED
    BY <1>4, <1>5

\* What SetMaxRebootEntries leaves: nothing for 0, at most the new limit.
LEMMA LoweredType ==
    ASSUME TypeOK, NEW max \in EntryValues, SetMaxRebootEntries(max)
    PROVE  /\ sections' \in Seq(Section)
           /\ max = 0 => Len(sections') = 0
           /\ max # 0 => Len(sections') <= Effective(max)
  <1> DEFINE eff == Effective(max)
             k == Len(sections) - eff + 1
  <1>1. eff \in Nat \ {0}
    BY DEF Effective
  <1>2. sections \in Seq(Section) /\ Len(sections) \in Nat
    BY DEF TypeOK
  <1> HIDE DEF eff
  <1>3. CASE max = 0
    BY <1>3 DEF SetMaxRebootEntries
  <1>4. CASE max # 0 /\ Len(sections) - eff > 0
    <2>1. k \in Nat \ {0} /\ k <= Len(sections) + 1
      BY <1>1, <1>2, <1>4
    <2>2. sections' = SubSeq(sections, k, Len(sections))
      BY <1>4 DEF SetMaxRebootEntries, eff
    <2> QED
      BY <1>1, <1>2, <1>4, <2>1, <2>2, SuffixType DEF eff
  <1>5. CASE max # 0 /\ ~(Len(sections) - eff > 0)
    BY <1>1, <1>2, <1>5 DEF SetMaxRebootEntries, eff
  <1> QED
    BY <1>3, <1>4, <1>5

\* Remove() takes one record out.
LEMMA RemovedType ==
    ASSUME TypeOK, NEW i \in DOMAIN sections, RemoveReboot(i)
    PROVE  sections' \in Seq(Section) /\ Len(sections') = Len(sections) - 1
  <1>1. sections \in Seq(Section) /\ i \in 1..Len(sections)
    BY DEF TypeOK
  <1> DEFINE a == SubSeq(sections, 1, i - 1)
             b == SubSeq(sections, i + 1, Len(sections))
  <1>2. a \in Seq(Section) /\ Len(a) = i - 1
    BY <1>1
  <1>3. b \in Seq(Section) /\ Len(b) = Len(sections) - i
    BY <1>1, SuffixType
  <1>4. sections' = a \o b
    BY DEF RemoveReboot
  <1> HIDE DEF a, b
  <1> QED
    BY <1>1, <1>2, <1>3, <1>4

\* The counters are only ever set to 0 or 1, or incremented; the registration
\* and _exec_reboot leave max_reboot_entries alone.
LEMMA CfgType ==
    ASSUME cfg \in Cfg,
           \/ CountBoot \/ CountVersion \/ CountWatchdog \/ CountColdWarm
           \/ ClearCause
           \/ ExecReboot \/ ExecRebootCommits \/ ExecRebootFails
    PROVE  /\ cfg' \in Cfg
           /\ cfg'.max_reboot_entries = cfg.max_reboot_entries
  <1>1. CASE CountBoot
    BY <1>1 DEF CountBoot, Cfg
  <1>2. CASE CountVersion
    BY <1>2 DEF CountVersion, Cfg
  <1>3. CASE CountWatchdog
    BY <1>3 DEF CountWatchdog, Cfg
  <1>4. CASE CountColdWarm
    BY <1>4 DEF CountColdWarm, Cfg
  <1>5. CASE ClearCause
    BY <1>5 DEF ClearCause, Cfg
  <1>6. CASE ExecReboot
    BY <1>6 DEF ExecReboot, store
  <1>7. CASE ExecRebootCommits
    BY <1>7 DEF ExecRebootCommits, Cfg
  <1>8. CASE ExecRebootFails
    BY <1>8 DEF ExecRebootFails, Cfg
  <1> QED
    BY <1>1, <1>2, <1>3, <1>4, <1>5, <1>6, <1>7, <1>8

\* A new section is a section.
LEMMA EmptySectionType ==
    ASSUME NEW now \in Nat PROVE EmptySection(now) \in Section
  BY DEF EmptySection, Section, Causes

\* The sections an action writes stay sections: what SetTimeStamp, ...,
\* SetReason put into the current one is of the type of its option.
LEMMA OptionType ==
    ASSUME TypeOK, NEW i \in DOMAIN sections
    PROVE  /\ [sections[i] EXCEPT !.time_stamp = boot.no] \in Section
           /\ [sections[i] EXCEPT !.firmware_updated =
                  IF op.trigger = "upgrade" THEN "1" ELSE "0"] \in Section
           /\ [sections[i] EXCEPT !.cause =
                  CASE op.trigger = "defaultreset" -> "FactoryReset"
                    [] cfg.last_reboot_cause = Unset -> "LocalReboot"
                    [] OTHER -> cfg.last_reboot_cause] \in Section
           /\ [sections[i] EXCEPT !.reason =
                  BootReasonMessage(op.trigger, op.reason)] \in Section
  <1>1. sections[i] \in Section
    BY DEF TypeOK
  <1>2. boot.no \in Nat
    BY DEF TypeOK
  <1>3. cfg.last_reboot_cause \in {Unset, "RemoteReboot"}
    BY DEF TypeOK, Cfg
  <1>4. BootReasonMessage(op.trigger, op.reason) \in Messages
    BY DEF TypeOK, Messages
  <1> QED
    BY <1>1, <1>2, <1>3, <1>4 DEF Section, Causes, Unset

LEMMA TypeInit == Init => TypeOK
  <1> SUFFICES ASSUME Init PROVE TypeOK
    OBVIOUS
  <1>1. cfg \in Cfg
    BY DEF Init, Cfg, FreshCfg, Unset
  <1>2. boot \in [no : Nat, trigger : Triggers, reason : Reasons,
                  remotes : SUBSET Nat]
    BY DEF Init
  <1>3. /\ file \in [exists : BOOLEAN, trigger : Triggers, reason : Reasons]
        /\ op \in [trigger : Triggers, reason : Reasons, name : Nat]
    BY DEF Init, NoFile, NoOp
  <1>4. retry \in 0..REBOOT_MAX_RETRIES
    BY DEF Init
  <1>5. lock \in BOOLEAN /\ served \in BOOLEAN /\ taken \in BOOLEAN
    BY DEF Init
  <1> QED
    BY <1>1, <1>2, <1>3, <1>4, <1>5 DEF Init, TypeOK

LEMMA TypeNext == TypeOK /\ [Next]_vars => TypeOK'
  <1> SUFFICES ASSUME TypeOK, [Next]_vars PROVE TypeOK'
    OBVIOUS
  <1> USE DEF TypeOK, store, world, hist, Idle, Registering
  <1>1. CASE Start
    BY <1>1 DEF Start
  <1>2. CASE RebootCheckTimer
    BY <1>2 DEF RebootCheckTimer
  <1>3. CASE SkipRegistered
    BY <1>3 DEF SkipRegistered
  <1>4. CASE WaitForReason
    BY <1>4 DEF WaitForReason
  <1>5. CASE RegisterBootAction
    BY <1>5 DEF RegisterBootAction
  <1>6. CASE CountBoot
    <2>1. cfg' \in Cfg
      BY <1>6, CfgType
    <2> QED
      BY <1>6, <2>1 DEF CountBoot
  <1>7. CASE CountVersion
    <2>1. cfg' \in Cfg
      BY <1>7, CfgType
    <2> QED
      BY <1>7, <2>1 DEF CountVersion
  <1>8. CASE CountWatchdog
    <2>1. cfg' \in Cfg
      BY <1>8, CfgType
    <2> QED
      BY <1>8, <2>1 DEF CountWatchdog
  <1>9. CASE CountColdWarm
    <2>1. cfg' \in Cfg
      BY <1>9, CfgType
    <2> QED
      BY <1>9, <2>1 DEF CountColdWarm
  <1>10. CASE RecordNothing
    BY <1>10 DEF RecordNothing
  <1>11. CASE DeleteExcessRebootSections
    <2>1. sections' \in Seq(Section)
      BY <1>11, TrimmedType DEF DeleteExcessRebootSections
    <2> QED
      BY <1>11, <2>1 DEF DeleteExcessRebootSections
  <1>12. CASE DeleteExcessFails
    BY <1>12 DEF DeleteExcessFails
  <1>13. ASSUME NEW now \in 1..MaxTime \cup {clock + 1},
                CreateRebootSection(now)
         PROVE  TypeOK'
    <2>1. now \in Nat
      OBVIOUS
    <2>2. sections' \in Seq(Section)
      BY <1>13, <2>1, EmptySectionType DEF CreateRebootSection
    <2>3. op' \in [trigger : Triggers, reason : Reasons, name : Nat]
      BY <1>13, <2>1 DEF CreateRebootSection
    <2> QED
      BY <1>13, <2>1, <2>2, <2>3 DEF CreateRebootSection
  <1>14. CASE SetTimeStamp
    <2>1. sections' \in Seq(Section)
      BY <1>14, PutKeeps, OptionType DEF SetTimeStamp
    <2> QED
      BY <1>14, <2>1 DEF SetTimeStamp
  <1>15. CASE SetFirmwareUpdated
    <2>1. sections' \in Seq(Section)
      BY <1>15, PutKeeps, OptionType DEF SetFirmwareUpdated
    <2> QED
      BY <1>15, <2>1 DEF SetFirmwareUpdated
  <1>16. CASE SetCause
    <2>1. sections' \in Seq(Section)
      BY <1>16, PutKeeps, OptionType DEF SetCause
    <2> QED
      BY <1>16, <2>1 DEF SetCause
  <1>17. CASE ClearCause
    <2>1. cfg' \in Cfg
      BY <1>17, CfgType
    <2> QED
      BY <1>17, <2>1 DEF ClearCause
  <1>18. CASE SetReason
    <2>1. sections' \in Seq(Section)
      BY <1>18, PutKeeps, OptionType DEF SetReason
    <2> QED
      BY <1>18, <2>1 DEF SetReason
  <1>19. CASE CreateLockFile
    BY <1>19 DEF CreateLockFile, NoOp
  <1>20. ASSUME NEW max \in EntryValues, SetMaxRebootEntries(max)
         PROVE  TypeOK'
    <2>1. cfg' \in Cfg
      BY <1>20 DEF SetMaxRebootEntries, Cfg
    <2>2. sections' \in Seq(Section)
      BY <1>20, LoweredType DEF SetMaxRebootEntries
    <2> QED
      BY <1>20, <2>1, <2>2 DEF SetMaxRebootEntries
  <1>21. CASE RemoveAllReboots
    BY <1>21 DEF RemoveAllReboots
  <1>22. ASSUME NEW i \in DOMAIN sections, RemoveReboot(i)
         PROVE  TypeOK'
    <2>1. sections' \in Seq(Section)
      BY <1>22, RemovedType DEF RemoveReboot
    <2> QED
      BY <1>22, <2>1 DEF RemoveReboot
  <1>23. CASE ExecReboot
    BY <1>23 DEF ExecReboot
  <1>29. CASE ExecRebootCommits
    <2>1. cfg' \in Cfg
      BY <1>29, CfgType
    <2> QED
      BY <1>29, <2>1 DEF ExecRebootCommits
  <1>24. CASE ExecRebootFails
    <2>1. cfg' \in Cfg
      BY <1>24, CfgType
    <2> QED
      BY <1>24, <2>1 DEF ExecRebootFails
  <1>25. CASE WriteResetReason
    BY <1>25 DEF WriteResetReason
  <1>26. CASE Crash
    BY <1>26 DEF Crash, Abandon, NoOp
  <1>27. ASSUME NEW t \in Triggers, NEW r \in Reasons, Reboot(t, r)
         PROVE  TypeOK'
    <2>1. cfg' \in Cfg
      BY <1>27 DEF Reboot, FreshCfg, Cfg, Unset
    <2>2. boot' \in [no : Nat, trigger : Triggers, reason : Reasons,
                     remotes : SUBSET Nat]
      BY <1>27 DEF Reboot
    <2>3. file' \in [exists : BOOLEAN, trigger : Triggers, reason : Reasons]
      BY <1>27 DEF Reboot, NoFile
    <2>4. op' \in [trigger : Triggers, reason : Reasons, name : Nat]
      BY <1>27 DEF Reboot, NoOp
    <2>5. sections' \in Seq(Section)
      <3>1. sections' = sections \/ sections' = <<>>
        BY <1>27 DEF Reboot
      <3>2. <<>> \in Seq(Section) /\ sections \in Seq(Section)
        OBVIOUS
      <3> QED
        BY ONLY <3>1, <3>2
    <2>6. /\ registered' \in Nat /\ died' \in Nat /\ torn' \in {0, 1}
          /\ taken' \in BOOLEAN /\ trimFails' \in Nat /\ crashes' \in Nat
      BY <1>27 DEF Reboot, Abandon
    <2>7. retry' \in 0..REBOOT_MAX_RETRIES /\ clock' \in Nat
      BY <1>27 DEF Reboot
    <2>8. /\ pc' \in {"down", "init"} \cup Idle \cup Registering
          /\ exec' \in {"none", "forked", "waiting", "late"}
          /\ served' \in BOOLEAN
      BY <1>27 DEF Reboot
    <2>9. lock' \in BOOLEAN
      BY <1>27 DEF Reboot
    <2> QED
      BY <2>1, <2>2, <2>3, <2>4, <2>5, <2>6, <2>7, <2>8, <2>9
  <1>28. CASE UNCHANGED vars
    BY <1>28 DEF vars
  <1> QED
    BY <1>1, <1>2, <1>3, <1>4, <1>5, <1>6, <1>7, <1>8, <1>9, <1>10, <1>11,
       <1>12, <1>13, <1>14, <1>15, <1>16, <1>17, <1>18, <1>19, <1>20, <1>21,
       <1>22, <1>23, <1>24, <1>25, <1>26, <1>27, <1>28, <1>29
       DEF Next, Daemon, Register, Controller

\* Every reachable state is well typed.
THEOREM TypeCorrect == Spec => []TypeOK
  BY TypeInit, TypeNext, PTL DEF Spec

-----------------------------------------------------------------------------
(***************************************************************************)
(* The safety invariants                                                   *)
(*                                                                         *)
(* None of them is inductive by itself.  The bound on the list needs to    *)
(* know that trimming left a place for the section about to be created,    *)
(* the order of the two boot counters that boot_count is ahead while       *)
(* curr_version_boot_count is still to be written, and the rest that no    *)
(* registration runs once the lock file is there.                          *)
(***************************************************************************)
RoomToCreate ==
    pc = "create" => /\ cfg.max_reboot_entries # 0
                     /\ Len(sections) + 1 <= Limit + trimFails

BootAhead ==
    pc = "version" /\ op.trigger # "defaultreset" =>
        cfg.curr_version_boot_count < cfg.boot_count \/ torn = 1

NotRegisteredYet == pc \in Registering => ~lock

IInv == /\ TypeOK
        /\ SectionsBounded /\ RoomToCreate
        /\ BootsCountedOnce
        /\ VersionWithinBoot /\ BootAhead
        /\ NotRegisteredYet

LEMMA InvInit == Init => IInv
  <1> SUFFICES ASSUME Init PROVE IInv
    OBVIOUS
  <1>1. TypeOK
    BY TypeInit
  <1>2. SectionsBounded
    BY <1>1, EffectiveType DEF Init, SectionsBounded, Limit, FreshCfg
  <1>3. BootsCountedOnce /\ VersionWithinBoot
    BY DEF Init, FreshCfg, BootsCountedOnce, CountedThisBoot,
           VersionWithinBoot, Registering
  <1>4. RoomToCreate /\ BootAhead /\ NotRegisteredYet
    BY DEF Init, RoomToCreate, BootAhead, NotRegisteredYet, Registering
  <1> QED
    BY <1>1, <1>2, <1>3, <1>4 DEF IInv

\* The sum of two natural numbers is not negative.
LEMMA NatSum == \A a, b \in Nat : 0 <= a + b
  OBVIOUS

\* The list of records.
LEMMA BoundNext ==
    ASSUME TypeOK, TypeOK', SectionsBounded, RoomToCreate, [Next]_vars
    PROVE  SectionsBounded' /\ RoomToCreate'
  <1>1. /\ Len(sections) \in Nat /\ Len(sections)' \in Nat
        /\ trimFails \in Nat /\ trimFails' \in Nat
    BY DEF TypeOK
  <1>2. /\ Limit \in Nat /\ Limit' \in Nat
        /\ cfg.max_reboot_entries # 0
              => Limit = Effective(cfg.max_reboot_entries)
    <2>1. /\ cfg.max_reboot_entries \in EntryValues \cup {DefaultEntries}
          /\ cfg'.max_reboot_entries \in EntryValues \cup {DefaultEntries}
      BY DEF TypeOK, Cfg
    <2> QED
      BY <2>1, EffectiveType DEF Limit
  <1>3. ASSUME Len(sections') <= Len(sections),
               cfg'.max_reboot_entries = cfg.max_reboot_entries,
               trimFails' = trimFails,
               pc' # "create"
        PROVE  SectionsBounded' /\ RoomToCreate'
    BY <1>1, <1>2, <1>3 DEF SectionsBounded, RoomToCreate, Limit
  <1>17. ASSUME Len(sections') <= Len(sections),
                UNCHANGED <<cfg, trimFails, pc>>
         PROVE  SectionsBounded' /\ RoomToCreate'
    BY <1>1, <1>2, <1>17 DEF SectionsBounded, RoomToCreate, Limit
  <1>4. CASE /\ UNCHANGED <<sections, trimFails>> /\ pc' # "create"
             /\ cfg'.max_reboot_entries = cfg.max_reboot_entries
    BY <1>1, <1>3, <1>4
  <1>5. CASE Start \/ RebootCheckTimer \/ SkipRegistered \/ WaitForReason
               \/ RegisterBootAction \/ RecordNothing
               \/ CreateLockFile \/ WriteResetReason \/ Crash
    <2>1. UNCHANGED <<cfg, sections, trimFails>>
      BY <1>5 DEF Start, RebootCheckTimer, SkipRegistered, WaitForReason,
           RegisterBootAction, RecordNothing, CreateLockFile,
           WriteResetReason, Crash, store, hist
    <2>2. pc' # "create" \/ pc' = pc
      BY <1>5 DEF Start, RebootCheckTimer, SkipRegistered, WaitForReason,
           RegisterBootAction, RecordNothing, CreateLockFile,
           WriteResetReason, Crash
    <2> QED
      BY <1>1, <2>1, <2>2 DEF SectionsBounded, RoomToCreate, Limit
  <1>6. CASE CountBoot \/ CountVersion \/ CountWatchdog \/ CountColdWarm
               \/ ClearCause
    <2>1. cfg'.max_reboot_entries = cfg.max_reboot_entries
      BY <1>6, CfgType DEF TypeOK
    <2>2. UNCHANGED <<sections, trimFails>> /\ pc' # "create"
      BY <1>6 DEF CountBoot, CountVersion, CountWatchdog, CountColdWarm,
                  ClearCause, hist
    <2> QED
      BY <1>4, <2>1, <2>2
  <1>7. CASE ExecReboot \/ ExecRebootCommits \/ ExecRebootFails
    <2>1. cfg'.max_reboot_entries = cfg.max_reboot_entries
      BY <1>7, CfgType DEF TypeOK
    <2>2. UNCHANGED <<sections, trimFails, pc>>
      BY <1>7 DEF ExecReboot, ExecRebootCommits, ExecRebootFails, hist, store
    <2> QED
      BY <1>1, <2>1, <2>2 DEF SectionsBounded, RoomToCreate, Limit
  <1>8. CASE DeleteExcessRebootSections
    <2>1. /\ sections' = Trimmed(cfg.max_reboot_entries)
          /\ cfg.max_reboot_entries # 0 /\ cfg' = cfg /\ trimFails' = 0
      BY <1>8 DEF DeleteExcessRebootSections
    <2> QED
      BY <1>1, <1>2, <2>1, TrimmedType
         DEF SectionsBounded, RoomToCreate, Limit
  <1>9. CASE DeleteExcessFails
    BY <1>1, <1>2, <1>9 DEF DeleteExcessFails, SectionsBounded,
         RoomToCreate, Limit, store
  <1>10. ASSUME NEW now \in 1..MaxTime \cup {clock + 1},
                CreateRebootSection(now)
         PROVE  SectionsBounded' /\ RoomToCreate'
    <2>1. Len(sections') <= Len(sections) + 1
      <3>1. sections \in Seq(Section)
        BY DEF TypeOK
      <3>2. \/ sections' = sections
            \/ sections' = Append(sections, EmptySection(now))
        BY <1>10 DEF CreateRebootSection
      <3> QED
        BY <1>1, <3>1, <3>2
    <2>2. /\ cfg' = cfg /\ trimFails' = trimFails
          /\ pc = "create" /\ pc' = "time_stamp"
      BY <1>10 DEF CreateRebootSection, hist
    <2> QED
      BY <1>1, <1>2, <2>1, <2>2 DEF SectionsBounded, RoomToCreate, Limit
  <1>11. CASE SetTimeStamp \/ SetFirmwareUpdated \/ SetCause \/ SetReason
    <2>1. Len(sections') = Len(sections)
      <3>1. sections \in Seq(Section)
        BY DEF TypeOK
      <3> QED
        BY <1>11, <3>1, PutKeeps, OptionType
           DEF SetTimeStamp, SetFirmwareUpdated, SetCause, SetReason
    <2>2. cfg' = cfg /\ trimFails' = trimFails /\ pc' # "create"
      BY <1>11 DEF SetTimeStamp, SetFirmwareUpdated, SetCause, SetReason, hist
    <2> QED
      BY <1>1, <1>3, <2>1, <2>2
  <1>12. ASSUME NEW max \in EntryValues, SetMaxRebootEntries(max)
         PROVE  SectionsBounded' /\ RoomToCreate'
    <2>1. cfg'.max_reboot_entries = max
      BY <1>12 DEF SetMaxRebootEntries, TypeOK, Cfg
    <2>2. trimFails' = 0 /\ pc' # "create"
      BY <1>12 DEF SetMaxRebootEntries, Idle
    <2>3. Len(sections') <= Limit'
      BY <1>1, <1>12, <2>1, LoweredType DEF Limit
    <2> QED
      BY <1>1, <1>2, <2>2, <2>3 DEF SectionsBounded, RoomToCreate
  <1>13. CASE RemoveAllReboots
    <2>1. Len(sections') = 0 /\ UNCHANGED <<cfg, trimFails, pc>>
      BY <1>13 DEF RemoveAllReboots
    <2> QED
      BY <1>1, <1>17, <2>1
  <1>14. ASSUME NEW i \in DOMAIN sections, RemoveReboot(i)
         PROVE  SectionsBounded' /\ RoomToCreate'
    <2>1. UNCHANGED <<cfg, trimFails, pc>>
      BY <1>14 DEF RemoveReboot
    <2> QED
      BY <1>1, <1>17, <1>14, <2>1, RemovedType
  <1>15. ASSUME NEW t \in Triggers, NEW r \in Reasons, Reboot(t, r)
         PROVE  SectionsBounded' /\ RoomToCreate'
    <2>1. pc' = "down"
      BY <1>15 DEF Reboot
    <2>2. \/ cfg' = cfg /\ sections' = sections /\ trimFails' = trimFails
          \/ cfg' = FreshCfg /\ sections' = <<>> /\ trimFails' = 0
      BY <1>15 DEF Reboot, store
    <2>3. CASE cfg' = cfg /\ sections' = sections /\ trimFails' = trimFails
      BY <1>1, <1>3, <2>1, <2>3
    <2>4. CASE sections' = <<>> /\ trimFails' = 0
      <3>1. Len(sections') = 0
        BY <2>4
      <3>2. trimFails' = 0
        BY <2>4
      <3>3. Limit' \in Nat
        BY <1>2
      <3>4. 0 <= Limit' + trimFails'
        BY <3>2, <3>3, NatSum
      <3>5. SectionsBounded'
        BY <3>1, <3>4 DEF SectionsBounded
      <3> QED
        BY <2>1, <3>5 DEF RoomToCreate
    <2> QED
      BY <2>2, <2>3, <2>4
  <1>16. CASE UNCHANGED vars
    BY <1>16 DEF vars, hist, SectionsBounded, RoomToCreate, Limit
  <1> QED
    BY <1>5, <1>6, <1>7, <1>8, <1>9, <1>10, <1>11, <1>12, <1>13, <1>14,
       <1>15, <1>16 DEF Next, Daemon, Register, Controller

\* The counters of the boots: one case per action that writes one of them,
\* starts or ends a registration.
Counters == <<cfg.boot_count, cfg.curr_version_boot_count>>

LEMMA CountersNext ==
    ASSUME TypeOK, TypeOK', BootsCountedOnce, VersionWithinBoot, BootAhead,
           [Next]_vars
    PROVE  BootsCountedOnce' /\ VersionWithinBoot' /\ BootAhead'
  <1> DEFINE Goal == BootsCountedOnce' /\ VersionWithinBoot' /\ BootAhead'
  <1> USE DEF BootsCountedOnce, CountedThisBoot, VersionWithinBoot, BootAhead
  <1>1. /\ cfg.boot_count \in Nat /\ cfg.curr_version_boot_count \in Nat
        /\ cfg'.boot_count \in Nat /\ cfg'.curr_version_boot_count \in Nat
        /\ registered \in Nat /\ died \in Nat
        /\ cfg \in Cfg
    BY DEF TypeOK, Cfg
  <1>2. ASSUME UNCHANGED <<Counters, registered, died, torn>>,
               pc \notin Registering \ {"boot_count"},
               pc' \notin Registering \ {"boot_count"}
        PROVE  Goal
    BY <1>2 DEF Counters, Registering
  <1>3. ASSUME UNCHANGED <<Counters, registered, died, torn>>,
               pc \in Registering \ {"boot_count", "version"},
               pc' \in Registering \ {"boot_count", "version"}
        PROVE  Goal
    BY <1>3 DEF Counters, Registering
  <1>4. ASSUME UNCHANGED <<Counters, registered, died, torn, pc, op>>
        PROVE  Goal
    BY <1>4 DEF Counters
  <1>5. CASE Start \/ RebootCheckTimer \/ SkipRegistered \/ WaitForReason
               \/ RegisterBootAction
    BY <1>2, <1>5 DEF Start, RebootCheckTimer, SkipRegistered, WaitForReason,
         RegisterBootAction, store, hist, Counters, Registering
  <1>6. CASE CountBoot
    <2>1. pc = "boot_count" /\ pc' = "version" /\ op' = op /\ torn' = torn
      BY <1>6 DEF CountBoot
    <2>2. CASE op.trigger = "defaultreset"
      <3>1. cfg'.boot_count = 1 /\ registered' = 0 /\ died' = 0
        BY <1>1, <1>6, <2>2 DEF CountBoot, Cfg
      <3> QED
        BY <2>1, <2>2, <3>1 DEF Registering
    <2>3. CASE op.trigger # "defaultreset"
      <3>1. /\ cfg'.boot_count = cfg.boot_count + 1
            /\ cfg'.curr_version_boot_count = cfg.curr_version_boot_count
            /\ registered' = registered /\ died' = died
        BY <1>1, <1>6, <2>3 DEF CountBoot, Cfg
      <3> QED
        BY <1>1, <2>1, <2>3, <3>1 DEF Registering
    <2> QED
      BY <2>2, <2>3
  <1>7. CASE CountVersion
    <2>1. /\ pc = "version" /\ pc' = "watchdog"
          /\ registered' = registered /\ died' = died
          /\ torn' = IF op.trigger = "defaultreset" THEN 0 ELSE torn
      BY <1>7 DEF CountVersion
    <2>2. /\ cfg'.boot_count = cfg.boot_count
          /\ cfg'.curr_version_boot_count =
                IF op.trigger = "defaultreset" THEN 0
                ELSE cfg.curr_version_boot_count + 1
      BY <1>1, <1>7 DEF CountVersion, Cfg
    <2> QED
      BY <1>1, <2>1, <2>2 DEF Registering
  <1>8. CASE CountWatchdog \/ CountColdWarm \/ ClearCause
    <2>1. UNCHANGED Counters
      BY <1>1, <1>8 DEF CountWatchdog, CountColdWarm, ClearCause, Counters,
                        Cfg
    <2> QED
      BY <1>3, <1>8, <2>1
         DEF CountWatchdog, CountColdWarm, ClearCause, hist, Registering
  <1>9. CASE ExecReboot \/ ExecRebootCommits \/ ExecRebootFails
    <2>1. UNCHANGED Counters
      BY <1>1, <1>9 DEF ExecReboot, ExecRebootCommits, ExecRebootFails,
                        Counters, Cfg, store
    <2> QED
      BY <1>4, <1>9, <2>1 DEF ExecReboot, ExecRebootCommits,
                              ExecRebootFails, hist
  <1>10. CASE RecordNothing \/ DeleteExcessRebootSections
                \/ DeleteExcessFails \/ SetTimeStamp \/ SetFirmwareUpdated
                \/ SetCause \/ SetReason
    BY <1>3, <1>10 DEF RecordNothing, DeleteExcessRebootSections,
         DeleteExcessFails, SetTimeStamp, SetFirmwareUpdated, SetCause,
         SetReason, store, hist, Counters, Registering
  <1>11. ASSUME NEW now \in 1..MaxTime \cup {clock + 1},
                CreateRebootSection(now)
         PROVE  Goal
    BY <1>3, <1>11 DEF CreateRebootSection, hist, Counters, Registering
  <1>12. CASE CreateLockFile
    <2>1. /\ pc = "lock" /\ pc' = "done" /\ registered' = registered + 1
          /\ cfg' = cfg /\ died' = died /\ torn' = torn
      BY <1>12 DEF CreateLockFile, store
    <2> QED
      BY <1>1, <2>1 DEF Registering
  <1>13. ASSUME NEW max \in EntryValues, SetMaxRebootEntries(max)
         PROVE  Goal
    <2>1. UNCHANGED Counters
      BY <1>1, <1>13 DEF SetMaxRebootEntries, Counters, Cfg
    <2> QED
      BY <1>4, <1>13, <2>1 DEF SetMaxRebootEntries
  <1>14. CASE RemoveAllReboots \/ WriteResetReason
    BY <1>4, <1>14 DEF RemoveAllReboots, WriteResetReason, store, hist,
                       Counters
  <1>15. ASSUME NEW i \in DOMAIN sections, RemoveReboot(i)
         PROVE  Goal
    BY <1>4, <1>15 DEF RemoveReboot, hist, Counters
  <1>16. ASSUME UNCHANGED <<cfg, registered>>, Abandon, pc' = "down"
         PROVE  Goal
    BY <1>1, <1>16 DEF Abandon, Registering
  <1>17. CASE Crash
    BY <1>16, <1>17 DEF Crash, store
  <1>18. ASSUME NEW t \in Triggers, NEW r \in Reasons, Reboot(t, r)
         PROVE  Goal
    <2>1. pc' = "down"
      BY <1>18 DEF Reboot
    <2>2. \/ Abandon /\ UNCHANGED <<cfg, registered>>
          \/ cfg' = FreshCfg /\ registered' = 0 /\ died' = 0
      BY <1>18 DEF Reboot, store
    <2>3. CASE cfg' = FreshCfg /\ registered' = 0 /\ died' = 0
      BY <2>1, <2>3 DEF FreshCfg, Registering
    <2> QED
      BY <1>16, <2>1, <2>2, <2>3
  <1>19. CASE UNCHANGED vars
    BY <1>4, <1>19 DEF vars, hist, Counters
  <1> QED
    BY <1>5, <1>6, <1>7, <1>8, <1>9, <1>10, <1>11, <1>12, <1>13, <1>14,
       <1>15, <1>17, <1>18, <1>19 DEF Next, Daemon, Register, Controller

\* A registration starts only without a lock file, and creating the lock
\* file ends it.
LEMMA LockNext ==
    ASSUME TypeOK, NotRegisteredYet, [Next]_vars
    PROVE  /\ NotRegisteredYet'
           /\ lock /\ lock' => CountersOf(cfg') = CountersOf(cfg)
  <1> DEFINE Goal ==
        /\ NotRegisteredYet'
        /\ lock /\ lock' => CountersOf(cfg') = CountersOf(cfg)
  <1> USE DEF NotRegisteredYet, Registering, store, world, Idle
  <1>0. cfg \in Cfg
    BY DEF TypeOK
  <1>1. ASSUME UNCHANGED <<cfg, lock>>,
               pc' \in Registering => pc \in Registering
        PROVE  Goal
    BY <1>1
  <1>2. CASE Start \/ RebootCheckTimer \/ SkipRegistered \/ WaitForReason
    BY <1>1, <1>2 DEF Start, RebootCheckTimer, SkipRegistered, WaitForReason
  <1>3. CASE RegisterBootAction
    BY <1>3 DEF RegisterBootAction
  <1>4. CASE CountBoot \/ CountVersion \/ CountWatchdog \/ CountColdWarm
               \/ ClearCause
    BY <1>4 DEF CountBoot, CountVersion, CountWatchdog, CountColdWarm,
                ClearCause
  <1>5. CASE RecordNothing \/ DeleteExcessRebootSections
               \/ DeleteExcessFails \/ SetTimeStamp \/ SetFirmwareUpdated
               \/ SetCause \/ SetReason
    BY <1>1, <1>5 DEF RecordNothing, DeleteExcessRebootSections,
         DeleteExcessFails, SetTimeStamp, SetFirmwareUpdated, SetCause,
         SetReason
  <1>6. ASSUME NEW now \in 1..MaxTime \cup {clock + 1},
               CreateRebootSection(now)
        PROVE  Goal
    BY <1>1, <1>6 DEF CreateRebootSection
  <1>7. CASE CreateLockFile
    BY <1>7 DEF CreateLockFile
  <1>8. ASSUME NEW max \in EntryValues, SetMaxRebootEntries(max)
        PROVE  Goal
    <2>1. CountersOf(cfg') = CountersOf(cfg)
      BY <1>0, <1>8 DEF SetMaxRebootEntries, CountersOf, Cfg
    <2> QED
      BY <1>8, <2>1 DEF SetMaxRebootEntries
  <1>9. CASE RemoveAllReboots \/ WriteResetReason
    BY <1>1, <1>9 DEF RemoveAllReboots, WriteResetReason
  <1>10. ASSUME NEW i \in DOMAIN sections, RemoveReboot(i)
         PROVE  Goal
    BY <1>1, <1>10 DEF RemoveReboot
  <1>11. CASE ExecReboot \/ ExecRebootCommits \/ ExecRebootFails
    <2>1. CountersOf(cfg') = CountersOf(cfg)
      BY <1>0, <1>11 DEF ExecReboot, ExecRebootCommits, ExecRebootFails,
                         CountersOf, Cfg
    <2> QED
      BY <1>11, <2>1 DEF ExecReboot, ExecRebootCommits, ExecRebootFails
  <1>12. CASE Crash
    BY <1>1, <1>12 DEF Crash
  <1>13. ASSUME NEW t \in Triggers, NEW r \in Reasons, Reboot(t, r)
         PROVE  Goal
    BY <1>13 DEF Reboot
  <1>14. CASE UNCHANGED vars
    BY <1>1, <1>14 DEF vars
  <1> QED
    BY <1>2, <1>3, <1>4, <1>5, <1>6, <1>7, <1>8, <1>9, <1>10, <1>11, <1>12,
       <1>13, <1>14 DEF Next, Daemon, Register, Controller

LEMMA InvNext == IInv /\ [Next]_vars => IInv'
  BY TypeNext, BoundNext, CountersNext, LockNext DEF IInv

LEMMA Inductive == Spec => []IInv
  BY InvInit, InvNext, PTL DEF Spec

\* The list of reboot records never outgrows its limit by more than the
\* deletions that failed in a row (reboots.c:112-153, 341-383).
THEOREM RecordsBounded == Spec => []SectionsBounded
  <1>1. IInv => SectionsBounded
    BY DEF IInv
  <1> QED
    BY <1>1, Inductive, PTL

\* boot_count is exact: one per boot, plus one per registration that died
\* after counting (reboots.c:196-202, 223).
THEOREM BootCountExact == Spec => []BootsCountedOnce
  <1>1. IInv => BootsCountedOnce
    BY DEF IInv
  <1> QED
    BY <1>1, Inductive, PTL

\* The two boot counters keep their order across deaths at any commit.
THEOREM BootCountersOrdered == Spec => []VersionWithinBoot
  <1>1. IInv => VersionWithinBoot
    BY DEF IInv
  <1> QED
    BY <1>1, Inductive, PTL

\* The lock file makes the registration happen once per boot.
THEOREM RegisteredOnce == Spec => NeverRecounted
  <1>1. IInv /\ [Next]_vars
          => [lock /\ lock' => CountersOf(cfg') = CountersOf(cfg)]_vars
    BY LockNext DEF IInv
  <1> QED
    BY <1>1, Inductive, PTL DEF Spec, NeverRecounted

-----------------------------------------------------------------------------
(***************************************************************************)
(* The order of the records                                                *)
(*                                                                         *)
(* With a clock that survives a boot the sections are named in the order   *)
(* of their creation, so that the section of this boot is the last one,    *)
(* nothing else has its name, and each option is written into it.          *)
(***************************************************************************)
Chronological(ss, now, no) ==
    /\ \A i \in DOMAIN ss : ss[i].name <= now /\ ss[i].time_stamp <= no
    /\ \A i, j \in DOMAIN ss : i < j =>
          /\ ss[i].name < ss[j].name
          /\ ss[j].time_stamp # 0 => ss[i].time_stamp <= ss[j].time_stamp

\* Where the record of this boot is written, and what is in it by then; once a
\* command has taken it, nothing has its name.
Writing == {"time_stamp", "firmware", "cause", "clear", "reason"}
Recording == pc \in Writing \/ (pc = "lock" /\ cfg.max_reboot_entries # 0)
Newest == sections[Len(sections)]

Grown == /\ sections # <<>> /\ Newest.name = clock
         /\ pc # "time_stamp" => Newest.time_stamp = boot.no
         /\ pc \notin {"time_stamp", "firmware"} =>
               Newest.firmware_updated # Unset
         /\ pc \notin {"time_stamp", "firmware", "cause"} =>
               Newest.cause # Unset
         /\ pc = "lock" => Newest.reason # Unset

RecordGrows ==
    Recording => /\ op.name = clock
                 /\ taken => Named(clock) = {}
                 /\ ~taken => Grown

LInv == /\ TypeOK
        /\ Chronological(sections, clock, boot.no)
        /\ RecordGrows

\* Deleting records, whichever, leaves the others in their order.
LEMMA PartChronological ==
    ASSUME NEW ss, NEW now, NEW no, Chronological(ss, now, no),
           NEW part, NEW n \in Nat, NEW from, DOMAIN part = 1..n,
           \A i \in 1..n : from[i] \in DOMAIN ss /\ part[i] = ss[from[i]],
           \A i, j \in 1..n : i < j => from[i] < from[j]
    PROVE  Chronological(part, now, no)
  BY DEF Chronological

LEMMA SectionFields ==
    ASSUME NEW ss \in Seq(Section), NEW i \in DOMAIN ss
    PROVE  ss[i].name \in Nat /\ ss[i].time_stamp \in Nat
  <1>1. ss[i] \in Section
    OBVIOUS
  <1> QED BY <1>1 DEF Section

LEMMA ShiftsBy ==
    ASSUME NEW n \in Nat, NEW k \in Nat \ {0}, NEW i \in 1 .. n - k + 1
    PROVE  i \in Nat /\ i + k - 1 \in 1..n
  OBVIOUS

LEMMA SuffixChronological ==
    ASSUME NEW now, NEW no, NEW ss \in Seq(Section),
           Chronological(ss, now, no),
           NEW k \in Nat \ {0}, k <= Len(ss) + 1
    PROVE  Chronological(SubSeq(ss, k, Len(ss)), now, no)
  <1> DEFINE part == SubSeq(ss, k, Len(ss))
             n == Len(ss) - k + 1
             from == [i \in 1..n |-> i + k - 1]
  <1>1. DOMAIN part = 1..n /\ \A i \in 1..n : part[i] = ss[i + k - 1]
    OBVIOUS
  <1>2. DOMAIN ss = 1 .. Len(ss) /\ Len(ss) \in Nat /\ n \in Nat
    OBVIOUS
  <1>3. \A i \in 1..n : from[i] \in DOMAIN ss /\ part[i] = ss[from[i]]
    <2> SUFFICES ASSUME NEW i \in 1..n
                 PROVE  from[i] \in DOMAIN ss /\ part[i] = ss[from[i]]
      OBVIOUS
    <2>1. i \in Nat /\ i + k - 1 \in 1 .. Len(ss)
      BY <1>2, ShiftsBy
    <2>2. from[i] = i + k - 1
      OBVIOUS
    <2>3. part[i] = ss[i + k - 1]
      BY <1>1
    <2> HIDE DEF part, from, n
    <2> QED BY <1>2, <2>1, <2>2, <2>3
  <1>4. \A i, j \in 1..n : i < j => from[i] < from[j]
    BY <1>2
  <1> HIDE DEF part, from, n
  <1>5. Chronological(part, now, no)
    BY <1>1, <1>2, <1>3, <1>4, PartChronological
  <1> QED BY <1>5 DEF part

LEMMA Concatenated ==
    ASSUME NEW S, NEW a \in Seq(S), NEW b \in Seq(S)
    PROVE  /\ DOMAIN (a \o b) = 1 .. Len(a) + Len(b)
           /\ \A i \in 1 .. Len(a) + Len(b) :
                 (a \o b)[i] = IF i <= Len(a) THEN a[i] ELSE b[i - Len(a)]
  OBVIOUS

LEMMA RemovalChronological ==
    ASSUME NEW now, NEW no, NEW ss \in Seq(Section),
           Chronological(ss, now, no), NEW k \in DOMAIN ss
    PROVE  Chronological(SubSeq(ss, 1, k - 1) \o SubSeq(ss, k + 1, Len(ss)),
                         now, no)
  <1> DEFINE a == SubSeq(ss, 1, k - 1)
             b == SubSeq(ss, k + 1, Len(ss))
             part == a \o b
             n == Len(ss) - 1
             from == [i \in 1..n |-> IF i < k THEN i ELSE i + 1]
  <1>1. /\ ss \in Seq(Section) /\ k \in 1..Len(ss)
        /\ Len(ss) \in Nat /\ DOMAIN ss = 1..Len(ss)
        /\ n \in Nat
    OBVIOUS
  <1>2. /\ a \in Seq(Section) /\ Len(a) = k - 1
        /\ \A i \in 1 .. k - 1 : a[i] = ss[i]
    BY <1>1
  <1>3. /\ b \in Seq(Section) /\ Len(b) = Len(ss) - k
        /\ \A i \in 1 .. Len(ss) - k : b[i] = ss[i + k]
    <2>1. b \in Seq(Section) /\ Len(b) = Len(ss) - k
      BY <1>1
    <2>2. \A i \in 1 .. Len(ss) - k : b[i] = ss[i + k]
      BY <1>1
    <2> QED BY <2>1, <2>2
  <1> HIDE DEF a, b
  <1>4. /\ DOMAIN part = 1 .. Len(a) + Len(b)
        /\ \A i \in 1 .. Len(a) + Len(b) :
              part[i] = IF i <= Len(a) THEN a[i] ELSE b[i - Len(a)]
    BY <1>2, <1>3, Concatenated
  <1>5. Len(a) + Len(b) = n
    BY <1>1, <1>2, <1>3
  <1>f. \A i \in 1..n : from[i] = IF i < k THEN i ELSE i + 1
    OBVIOUS
  <1> HIDE DEF part, from
  <1>6. ASSUME NEW i \in 1..n
        PROVE  from[i] \in DOMAIN ss /\ part[i] = ss[from[i]]
    <2>0. k \in Nat /\ i \in Nat
      BY <1>1
    <2>1. CASE i < k
      <3>1. i <= Len(a) /\ i \in 1 .. k - 1 /\ from[i] = i
        BY <1>1, <1>2, <1>f, <2>0, <2>1
      <3>2. part[i] = ss[i]
        BY <1>2, <1>4, <1>5, <3>1
      <3>3. i \in DOMAIN ss
        BY <1>1
      <3> QED BY <3>1, <3>2, <3>3
    <2>2. CASE ~(i < k)
      <3>1. ~(i <= Len(a)) /\ from[i] = i + 1
        BY <1>1, <1>2, <1>f, <2>0, <2>2
      <3>2. /\ i - Len(a) \in 1 .. Len(ss) - k
            /\ (i - Len(a)) + k = i + 1
        BY <1>1, <1>2, <2>0, <2>2
      <3>3. part[i] = b[i - Len(a)]
        BY <1>4, <1>5, <3>1
      <3>4. b[i - Len(a)] = ss[i + 1]
        BY <1>3, <3>2
      <3>5. i + 1 \in DOMAIN ss
        BY <1>1
      <3> QED BY <3>1, <3>3, <3>4, <3>5
    <2> QED BY <2>1, <2>2
  <1>7. \A i, j \in 1..n : i < j => from[i] < from[j]
    BY <1>1, <1>f
  <1>9. DOMAIN part = 1..n
    BY <1>4, <1>5
  <1> HIDE DEF n
  <1>10. \A i \in 1..n :
            from[i] \in DOMAIN ss /\ part[i] = ss[from[i]]
    BY <1>6
  <1>11. Chronological(part, now, no)
    BY <1>1, <1>7, <1>9, <1>10, PartChronological
  <1> QED BY <1>11 DEF part, a, b

\* A section created now comes last.
LEMMA AppendChronological ==
    ASSUME NEW ss \in Seq(Section), NEW now \in Nat, NEW no \in Nat,
           Chronological(ss, now, no)
    PROVE  Chronological(Append(ss, EmptySection(now + 1)), now + 1, no)
  <1> DEFINE t == EmptySection(now + 1)
             after == Append(ss, t)
  <1>1. t.name = now + 1 /\ t.time_stamp = 0
    BY DEF EmptySection
  <1> HIDE DEF t
  <1>2. /\ DOMAIN after = 1 .. Len(ss) + 1 /\ Len(ss) \in Nat
        /\ DOMAIN ss = 1 .. Len(ss)
        /\ after[Len(ss) + 1] = t
        /\ \A i \in DOMAIN ss : after[i] = ss[i]
    OBVIOUS
  <1>3. \A i \in DOMAIN ss : ss[i].name \in Nat /\ ss[i].time_stamp \in Nat
    BY SectionFields
  <1> HIDE DEF after
  <1>4. Chronological(after, now + 1, no)
    <2>1. \A i \in DOMAIN after :
             after[i].name <= now + 1 /\ after[i].time_stamp <= no
      BY <1>1, <1>2, <1>3 DEF Chronological
    <2>2. ASSUME NEW i \in DOMAIN after, NEW j \in DOMAIN after, i < j
          PROVE  /\ after[i].name < after[j].name
                 /\ after[j].time_stamp # 0 =>
                       after[i].time_stamp <= after[j].time_stamp
      <3>1. i \in DOMAIN ss
        BY <1>2, <2>2
      <3>2. CASE j \in DOMAIN ss
        BY <1>2, <2>2, <3>1, <3>2 DEF Chronological
      <3>3. CASE j = Len(ss) + 1
        BY <1>1, <1>2, <1>3, <3>1, <3>3 DEF Chronological
      <3> QED BY <1>2, <3>2, <3>3
    <2> QED BY <2>1, <2>2 DEF Chronological
  <1> QED BY <1>4 DEF after, t

\* The last record, and no other, is the one of this boot.
LEMMA PutIsNewest ==
    ASSUME LInv, pc \in Writing, ~taken, NEW sec, Put(sec)
    PROVE  /\ DOMAIN sections' = DOMAIN sections
           /\ Len(sections) \in DOMAIN sections
           /\ sections'[Len(sections)] = sec[Len(sections)]
           /\ \A i \in DOMAIN sections :
                 i # Len(sections) => sections'[i] = sections[i]
  <1>1. /\ sections \in Seq(Section) /\ Len(sections) \in Nat
        /\ DOMAIN sections = 1..Len(sections)
    BY DEF LInv, TypeOK
  <1>2. sections # <<>> /\ Newest.name = op.name
    BY DEF LInv, RecordGrows, Recording, Grown
  <1>3. Len(sections) \in DOMAIN sections
    BY <1>1, <1>2
  <1>4. \A i \in DOMAIN sections : sections[i].name \in Nat
    BY <1>1, SectionFields
  <1>5. \A i \in DOMAIN sections :
           i # Len(sections) => sections[i].name # op.name
    BY <1>1, <1>2, <1>3, <1>4 DEF LInv, Chronological, Newest
  <1> QED BY <1>2, <1>3, <1>5 DEF Put, Newest

\* Nothing is written of a record that was taken away.
LEMMA PutNothing ==
    ASSUME LInv, pc \in Writing, taken, NEW sec, Put(sec)
    PROVE  sections' = sections
  <1>1. sections \in Seq(Section) /\ Named(op.name) = {}
    BY DEF LInv, TypeOK, RecordGrows, Recording
  <1>2. \A i \in DOMAIN sections : sections[i].name # op.name
    BY <1>1 DEF Named
  <1>3. sections' = [i \in DOMAIN sections |-> sections[i]]
    BY <1>2 DEF Put
  <1> QED BY <1>1, <1>3

\* Writing an option of it leaves the records in their order.
LEMMA PutChronological ==
    ASSUME LInv, pc \in Writing, ~taken, NEW sec, Put(sec),
           sec[Len(sections)].name = Newest.name,
           sec[Len(sections)].time_stamp \in {Newest.time_stamp, boot.no}
    PROVE  Chronological(sections', clock, boot.no)
  <1> DEFINE n == Len(sections)
  <1>1. /\ DOMAIN sections' = DOMAIN sections /\ n \in DOMAIN sections
        /\ sections'[n] = sec[n]
        /\ \A i \in DOMAIN sections : i # n => sections'[i] = sections[i]
    BY PutIsNewest
  <1>2. /\ DOMAIN sections = 1..n /\ n \in Nat /\ boot.no \in Nat
        /\ \A i \in DOMAIN sections :
              sections[i].time_stamp \in Nat /\ sections[i].name \in Nat
    BY SectionFields DEF LInv, TypeOK
  <1>3. Chronological(sections, clock, boot.no)
    BY DEF LInv
  <1>4. \A i \in DOMAIN sections : sections'[i].name = sections[i].name
    BY <1>1 DEF Newest
  <1>5. \A i \in DOMAIN sections :
           sections'[i].time_stamp \in {sections[i].time_stamp, boot.no}
    BY <1>1 DEF Newest
  <1>6. ASSUME NEW i \in DOMAIN sections, NEW j \in DOMAIN sections, i < j
        PROVE  /\ sections'[i].name < sections'[j].name
               /\ sections'[j].time_stamp # 0 =>
                     sections'[i].time_stamp <= sections'[j].time_stamp
    <2>1. i # n /\ sections'[i] = sections[i]
      BY <1>1, <1>2, <1>6
    <2> QED BY <1>2, <1>3, <1>4, <1>5, <1>6, <2>1 DEF Chronological
  <1> QED BY <1>1, <1>2, <1>3, <1>4, <1>5, <1>6 DEF Chronological

\* One option of a section is written, the others are as they were.
LEMMA WriteOption ==
    ASSUME NEW s \in Section, NEW v
    PROVE  /\ LET t == [s EXCEPT !.time_stamp = v]
              IN  t.name = s.name /\ t.time_stamp = v
           /\ LET t == [s EXCEPT !.firmware_updated = v]
              IN  /\ t.name = s.name /\ t.time_stamp = s.time_stamp
                  /\ t.firmware_updated = v
           /\ LET t == [s EXCEPT !.cause = v]
              IN  /\ t.name = s.name /\ t.time_stamp = s.time_stamp
                  /\ t.firmware_updated = s.firmware_updated /\ t.cause = v
           /\ LET t == [s EXCEPT !.reason = v]
              IN  /\ t.name = s.name /\ t.time_stamp = s.time_stamp
                  /\ t.firmware_updated = s.firmware_updated
                  /\ t.cause = s.cause /\ t.reason = v
  BY DEF Section

\* Each of the four options, as it is written.
LEMMA WriteNext ==
    ASSUME LInv, SetTimeStamp \/ SetFirmwareUpdated \/ SetCause \/ SetReason
    PROVE  Chronological(sections', clock', boot'.no) /\ RecordGrows'
  <1> DEFINE n == Len(sections)
             s == sections[n]
  <1>0. /\ pc \in Writing /\ pc' \in Writing \cup {"lock"}
        /\ pc' # "time_stamp" /\ op' = op /\ clock' = clock /\ boot' = boot
        /\ taken' = taken
    BY DEF SetTimeStamp, SetFirmwareUpdated, SetCause, SetReason, Writing,
           world, hist
  <1>9. CASE taken
    <2>1. sections' = sections
      BY <1>0, <1>9, PutNothing
         DEF SetTimeStamp, SetFirmwareUpdated, SetCause, SetReason
    <2> QED BY <1>0, <1>9, <2>1 DEF LInv, RecordGrows, Recording, Named
  <1> SUFFICES ASSUME ~taken
               PROVE  Chronological(sections', clock', boot'.no)
                         /\ RecordGrows'
    BY <1>9
  <1>1. /\ op.name = clock /\ sections # <<>> /\ s.name = clock
        /\ pc # "time_stamp" => s.time_stamp = boot.no
        /\ pc \notin {"time_stamp", "firmware"} => s.firmware_updated # Unset
        /\ pc \notin {"time_stamp", "firmware", "cause"} => s.cause # Unset
    BY <1>0 DEF LInv, RecordGrows, Recording, Grown, Newest
  <1>2. sections \in Seq(Section) /\ n \in DOMAIN sections /\ s \in Section
    <2>1. sections \in Seq(Section)
      BY DEF LInv, TypeOK
    <2> QED BY <1>1, <2>1
  <1>3. ASSUME NEW t,
               \E sec : Put(sec) /\ sec[n] = t,
               t.name = s.name, t.time_stamp \in {s.time_stamp, boot.no}
        PROVE  /\ Chronological(sections', clock', boot'.no)
               /\ sections' # <<>> /\ Newest' = t
    <2>1. PICK sec : Put(sec) /\ sec[n] = t
      BY <1>3
    <2>2. Chronological(sections', clock, boot.no)
      BY <1>0, <1>3, <2>1, PutChronological DEF Newest
    <2>3. DOMAIN sections' = DOMAIN sections /\ sections'[n] = t
      BY <1>0, <2>1, PutIsNewest
    <2>4. sections' \in Seq(Section) => sections' # <<>> /\ Len(sections') = n
      BY <1>2, <2>3
    <2>5. sections' = [i \in DOMAIN sections |-> sections'[i]]
      BY <2>1 DEF Put
    <2>6. sections' # <<>> /\ Len(sections') = n
      BY <1>2, <2>3, <2>5
    <2> QED BY <1>0, <2>2, <2>3, <2>6 DEF Newest
  <1>4. CASE SetTimeStamp
    <2> DEFINE t == [s EXCEPT !.time_stamp = boot.no]
    <2>1. t.name = s.name /\ t.time_stamp = boot.no
      BY <1>2, WriteOption
    <2>2. \E sec : Put(sec) /\ sec[n] = t
      BY <1>2, <1>4 DEF SetTimeStamp
    <2> HIDE DEF t
    <2>3. /\ Chronological(sections', clock', boot'.no)
          /\ sections' # <<>> /\ Newest' = t
      BY <1>3, <2>1, <2>2
    <2>4. pc' = "firmware"
      BY <1>4 DEF SetTimeStamp
    <2> QED BY <1>0, <1>1, <2>1, <2>3, <2>4 DEF RecordGrows, Grown, Writing
  <1>5. CASE SetFirmwareUpdated
    <2> DEFINE v == IF op.trigger = "upgrade" THEN "1" ELSE "0"
               t == [s EXCEPT !.firmware_updated = v]
    <2>1. /\ t.name = s.name /\ t.time_stamp = s.time_stamp
          /\ t.firmware_updated = v
      BY <1>2, WriteOption
    <2>2. \E sec : Put(sec) /\ sec[n] = t
      BY <1>2, <1>5 DEF SetFirmwareUpdated
    <2>3. v # Unset
      BY DEF Unset
    <2> HIDE DEF t, v
    <2>4. /\ Chronological(sections', clock', boot'.no)
          /\ sections' # <<>> /\ Newest' = t
      BY <1>3, <2>1, <2>2
    <2>5. pc = "firmware" /\ pc' = "cause"
      BY <1>5 DEF SetFirmwareUpdated
    <2> QED BY <1>0, <1>1, <2>1, <2>3, <2>4, <2>5 DEF RecordGrows, Grown, Writing
  <1>6. CASE SetCause
    <2> DEFINE v == CASE op.trigger = "defaultreset" -> "FactoryReset"
                      [] cfg.last_reboot_cause = Unset -> "LocalReboot"
                      [] OTHER -> cfg.last_reboot_cause
               t == [s EXCEPT !.cause = v]
    <2>1. /\ t.name = s.name /\ t.time_stamp = s.time_stamp
          /\ t.firmware_updated = s.firmware_updated /\ t.cause = v
      BY <1>2, WriteOption
    <2>2. \E sec : Put(sec) /\ sec[n] = t
      BY <1>2, <1>6 DEF SetCause
    <2>3. v # Unset
      BY DEF Unset
    <2> HIDE DEF t, v
    <2>4. /\ Chronological(sections', clock', boot'.no)
          /\ sections' # <<>> /\ Newest' = t
      BY <1>3, <2>1, <2>2
    <2>5. pc = "cause" /\ pc' \in {"reason", "clear"}
      BY <1>6 DEF SetCause
    <2> QED BY <1>0, <1>1, <2>1, <2>3, <2>4, <2>5 DEF RecordGrows, Grown, Writing
  <1>7. CASE SetReason
    <2> DEFINE v == BootReasonMessage(op.trigger, op.reason)
               t == [s EXCEPT !.reason = v]
    <2>1. /\ t.name = s.name /\ t.time_stamp = s.time_stamp
          /\ t.firmware_updated = s.firmware_updated
          /\ t.cause = s.cause /\ t.reason = v
      BY <1>2, WriteOption
    <2>2. \E sec : Put(sec) /\ sec[n] = t
      BY <1>2, <1>7 DEF SetReason
    <2>3. v # Unset
      <3>1. op.trigger # Unset /\ op.reason # Unset
        <4>1. op.trigger \in Triggers /\ op.reason \in Reasons
          BY DEF LInv, TypeOK
        <4> QED BY <4>1, RebootsAssumption
      <3> QED BY <3>1 DEF BootReasonMessage, Unset, Empty
    <2> HIDE DEF t, v
    <2>4. /\ Chronological(sections', clock', boot'.no)
          /\ sections' # <<>> /\ Newest' = t
      BY <1>3, <2>1, <2>2
    <2>5. pc = "reason" /\ pc' = "lock"
      BY <1>7 DEF SetReason
    <2> QED BY <1>0, <1>1, <2>1, <2>3, <2>4, <2>5 DEF RecordGrows, Grown, Writing
  <1> QED BY <1>4, <1>5, <1>6, <1>7

\* What is left after a removal are others of the records.
Without(ss, k) == SubSeq(ss, 1, k - 1) \o SubSeq(ss, k + 1, Len(ss))

LEMMA RemovalFrom ==
    ASSUME NEW ss \in Seq(Section), NEW k \in DOMAIN ss
    PROVE  \A i \in DOMAIN Without(ss, k) :
               \E j \in DOMAIN ss : j # k /\ Without(ss, k)[i] = ss[j]
  <1> DEFINE a == SubSeq(ss, 1, k - 1)
             b == SubSeq(ss, k + 1, Len(ss))
             part == a \o b
  <1>1. /\ k \in 1..Len(ss) /\ Len(ss) \in Nat /\ DOMAIN ss = 1..Len(ss)
    OBVIOUS
  <1>2. /\ a \in Seq(Section) /\ Len(a) = k - 1
        /\ \A i \in 1..Len(a) : a[i] = ss[i] /\ i \in DOMAIN ss /\ i # k
    BY <1>1
  <1>3. b \in Seq(Section) /\ Len(b) = Len(ss) - k
    BY <1>1
  <1>4. \A i \in 1..Len(b) :
           b[i] = ss[i + k] /\ i + k \in DOMAIN ss /\ i + k # k
    <2>1. \A i \in 1 .. Len(ss) - k : b[i] = ss[i + k]
      BY <1>1
    <2>2. \A i \in 1 .. Len(ss) - k : i + k \in 1..Len(ss) /\ i + k # k
      BY <1>1
    <2> HIDE DEF b
    <2> QED BY <1>1, <1>3, <2>1, <2>2
  <1> HIDE DEF a, b
  <1>5. /\ DOMAIN part = 1 .. Len(a) + Len(b)
        /\ \A i \in 1 .. Len(a) + Len(b) :
              part[i] = IF i <= Len(a) THEN a[i] ELSE b[i - Len(a)]
    BY <1>2, <1>3, Concatenated
  <1> HIDE DEF part
  <1>6. /\ Len(a) \in Nat /\ Len(b) \in Nat
    BY <1>1, <1>2, <1>3
  <1>7. ASSUME NEW i \in 1 .. Len(a) + Len(b)
        PROVE  \E j \in DOMAIN ss : j # k /\ part[i] = ss[j]
    <2>1. CASE i <= Len(a)
      <3>1. i \in 1..Len(a)
        BY <1>6, <2>1
      <3>2. part[i] = a[i]
        BY <1>5, <2>1
      <3> QED BY <1>2, <3>1, <3>2
    <2>2. CASE ~(i <= Len(a))
      <3>1. i - Len(a) \in 1..Len(b)
        BY <1>6, <2>2
      <3>2. part[i] = b[i - Len(a)]
        BY <1>5, <2>2
      <3> QED BY <1>4, <3>1, <3>2
    <2> QED BY <2>1, <2>2
  <1>8. Without(ss, k) = part
    BY DEF Without, part, a, b
  <1> QED BY <1>5, <1>7, <1>8

\* A command removes the record being written, or leaves it where it is.
LEMMA RemovedAll ==
    ASSUME LInv, RemoveAllReboots PROVE RecordGrows'
  <1>1. /\ UNCHANGED <<cfg, pc, op, clock>> /\ sections' = <<>>
        /\ taken' = (taken \/ Named(op.name) # {})
    BY DEF RemoveAllReboots
  <1>2. Named(clock)' = {}
    BY <1>1 DEF Named
  <1>3. ASSUME Recording
        PROVE  op.name = clock /\ taken'
    <2>1. op.name = clock /\ (~taken => Grown)
      BY <1>3 DEF LInv, RecordGrows
    <2>2. ASSUME Grown PROVE Named(clock) # {}
      <3>1. sections # <<>> /\ sections \in Seq(Section)
        BY <2>2 DEF Grown, LInv, TypeOK
      <3>2. Len(sections) \in DOMAIN sections
        BY <3>1
      <3> QED BY <2>2, <3>2 DEF Grown, Newest, Named
    <2> QED BY <1>1, <2>1, <2>2
  <1> QED BY <1>1, <1>2, <1>3 DEF RecordGrows, Recording

LEMMA RemovalKeepsLast ==
    ASSUME NEW ss \in Seq(Section), NEW k \in DOMAIN ss, k # Len(ss)
    PROVE  /\ Without(ss, k) # <<>>
           /\ Without(ss, k)[Len(Without(ss, k))] = ss[Len(ss)]
  <1> DEFINE a == SubSeq(ss, 1, k - 1)
             b == SubSeq(ss, k + 1, Len(ss))
             part == a \o b
             m == Len(ss) - 1
  <1>1. /\ k \in 1..Len(ss) /\ Len(ss) \in Nat /\ k < Len(ss)
        /\ DOMAIN ss = 1..Len(ss)
    OBVIOUS
  <1>2. a \in Seq(Section) /\ Len(a) = k - 1
    BY <1>1
  <1>3. b \in Seq(Section) /\ Len(b) = Len(ss) - k
    BY <1>1
  <1>4. b[Len(ss) - k] = ss[Len(ss)]
    <2>1. \A i \in 1 .. Len(ss) - k : b[i] = ss[i + k]
      BY <1>1
    <2> HIDE DEF b
    <2>2. Len(ss) - k \in 1 .. Len(ss) - k /\ Len(ss) - k + k = Len(ss)
      BY <1>1
    <2> QED BY <2>1, <2>2
  <1>5. Without(ss, k) = part
    BY DEF Without
  <1> HIDE DEF a, b
  <1>6. /\ DOMAIN part = 1 .. Len(a) + Len(b)
        /\ \A i \in 1 .. Len(a) + Len(b) :
              part[i] = IF i <= Len(a) THEN a[i] ELSE b[i - Len(a)]
    BY <1>2, <1>3, Concatenated
  <1>7. part \in Seq(Section)
    BY <1>2, <1>3
  <1> HIDE DEF part
  <1>8. Len(part) = m
    <2>1. Len(a) + Len(b) = m /\ m \in Nat
      BY <1>1, <1>2, <1>3
    <2> HIDE DEF m
    <2> QED BY <1>6, <1>7, <2>1
  <1>9. /\ m \in 1 .. Len(a) + Len(b) /\ ~(m <= Len(a))
        /\ m - Len(a) = Len(ss) - k /\ m # 0
    BY <1>1, <1>2, <1>3
  <1>10. part[m] = ss[Len(ss)]
    BY <1>4, <1>6, <1>9
  <1>11. part # <<>>
    BY <1>8, <1>9
  <1> QED BY <1>5, <1>8, <1>10, <1>11

LEMMA RemovedOne ==
    ASSUME LInv, NEW i \in DOMAIN sections, RemoveReboot(i)
    PROVE  RecordGrows'
  <1>0. /\ sections \in Seq(Section) /\ Len(sections) \in Nat
        /\ DOMAIN sections = 1..Len(sections)
        /\ \A j \in DOMAIN sections : sections[j].name \in Nat
    BY SectionFields DEF LInv, TypeOK
  <1>1. /\ UNCHANGED <<cfg, pc, op, clock, boot>>
        /\ sections' = Without(sections, i)
        /\ taken' = (taken \/ sections[i].name = op.name)
    BY DEF RemoveReboot, world, Without
  <1>2. \A j \in DOMAIN sections' :
           \E k \in DOMAIN sections : k # i /\ sections'[j] = sections[k]
    BY <1>0, <1>1, RemovalFrom
  <1>3. ASSUME Recording, taken
        PROVE  Named(clock)' = {}
    <2>1. \A k \in DOMAIN sections : sections[k].name # clock
      BY <1>3 DEF LInv, RecordGrows, Named
    <2> QED BY <1>1, <1>2, <2>1 DEF Named
  <1>4. ASSUME Recording, ~taken, sections[i].name = clock
        PROVE  Named(clock)' = {}
    <2>1. \A k \in DOMAIN sections : k # i => sections[k].name # clock
      BY <1>0, <1>4 DEF LInv, Chronological
    <2> QED BY <1>1, <1>2, <2>1 DEF Named
  <1>5. ASSUME Recording, ~taken, sections[i].name # clock
        PROVE  Grown'
    <2>1. Grown
      BY <1>5 DEF LInv, RecordGrows
    <2>2. i # Len(sections)
      BY <1>5, <2>1 DEF Grown, Newest
    <2>3. sections' # <<>> /\ sections'[Len(sections')] = Newest
      BY <1>0, <1>1, <2>2, RemovalKeepsLast DEF Newest
    <2> QED BY <1>1, <2>1, <2>3 DEF Grown, Newest
  <1>6. Recording => op.name = clock
    BY DEF LInv, RecordGrows
  <1> QED BY <1>1, <1>3, <1>4, <1>5, <1>6 DEF RecordGrows, Recording

LEMMA ListNext ==
    ASSUME LInv, TypeOK', [Next]_vars, "clock_lost" \notin Disturbances
    PROVE  Chronological(sections', clock', boot'.no) /\ RecordGrows'
  <1> DEFINE Goal == Chronological(sections', clock', boot'.no)
                        /\ RecordGrows'
  <1>0. /\ TypeOK /\ Chronological(sections, clock, boot.no)
        /\ sections \in Seq(Section) /\ Len(sections) \in Nat
        /\ clock \in Nat /\ boot.no \in Nat
    BY DEF LInv, TypeOK
  <1> USE DEF Writing, Idle, store, world, hist
  <1>1. ASSUME UNCHANGED <<clock, boot>>,
               Chronological(sections', clock, boot.no),
               pc' \notin Writing \cup {"lock"}
        PROVE  Goal
    BY <1>1 DEF RecordGrows, Recording
  <1>2. ASSUME UNCHANGED <<clock, boot, sections, pc, op, taken>>,
               cfg'.max_reboot_entries = cfg.max_reboot_entries
        PROVE  Goal
    BY <1>0, <1>2 DEF LInv, RecordGrows, Recording, Grown, Newest, Named
  <1>3. CASE Start \/ RebootCheckTimer \/ SkipRegistered \/ WaitForReason
               \/ RegisterBootAction \/ CountBoot \/ CountVersion
               \/ CountWatchdog \/ CountColdWarm \/ CreateLockFile
    BY <1>0, <1>1, <1>3
       DEF Start, RebootCheckTimer, SkipRegistered, WaitForReason,
           RegisterBootAction, CountBoot, CountVersion, CountWatchdog,
           CountColdWarm, CreateLockFile
  <1>4. CASE RecordNothing
    BY <1>0, <1>4 DEF RecordNothing, RecordGrows, Recording
  <1>5. CASE DeleteExcessRebootSections
    <2>1. sections' = Trimmed(cfg.max_reboot_entries)
          /\ UNCHANGED <<clock, boot>> /\ pc' = "create"
      BY <1>5 DEF DeleteExcessRebootSections
    <2>2. Chronological(Trimmed(cfg.max_reboot_entries), clock, boot.no)
      <3> DEFINE eff == Effective(cfg.max_reboot_entries)
                 k == Len(sections) - eff + 2
      <3>1. eff \in Nat \ {0}
        <4>1. cfg.max_reboot_entries \in EntryValues \cup {DefaultEntries}
          BY <1>0 DEF TypeOK, Cfg
        <4> QED BY <4>1, EffectiveType
      <3> HIDE DEF eff
      <3>2. CASE Len(sections) - eff < 0
        BY <1>0, <3>2 DEF Trimmed, eff
      <3>3. CASE ~(Len(sections) - eff < 0)
        <4>1. k \in Nat \ {0} /\ k <= Len(sections) + 1
          BY <1>0, <3>1, <3>3
        <4>2. Trimmed(cfg.max_reboot_entries)
                 = SubSeq(sections, k, Len(sections))
          BY <3>3 DEF Trimmed, eff
        <4> HIDE DEF k
        <4> QED BY <1>0, <4>1, <4>2, SuffixChronological
      <3> QED BY <3>2, <3>3
    <2> QED BY <1>1, <2>1, <2>2
  <1>6. CASE DeleteExcessFails
    BY <1>0, <1>1, <1>6 DEF DeleteExcessFails
  <1>7. ASSUME NEW now \in 1..MaxTime \cup {clock + 1},
               CreateRebootSection(now)
        PROVE  Goal
    <2>1. /\ clock' = clock + 1 /\ op'.name = clock + 1
          /\ pc' = "time_stamp" /\ boot' = boot /\ now = clock + 1
          /\ taken' = FALSE
      BY <1>7, <1>0 DEF CreateRebootSection, TypeOK
    <2>2. Named(clock + 1) = {}
      BY <1>0, SectionFields DEF Named, Chronological
    <2>3. sections' = Append(sections, EmptySection(clock + 1))
      BY <1>7, <2>1, <2>2 DEF CreateRebootSection
    <2>4. Chronological(sections', clock + 1, boot.no)
      BY <1>0, <2>3, AppendChronological
    <2>5. sections' # <<>> /\ Newest'.name = clock + 1
      <3> DEFINE t == EmptySection(clock + 1)
      <3>1. t.name = clock + 1
        BY DEF EmptySection
      <3> HIDE DEF t
      <3>2. sections' = Append(sections, t)
        BY <2>3 DEF t
      <3> QED BY <1>0, <3>1, <3>2 DEF Newest
    <2> QED BY <2>1, <2>4, <2>5 DEF RecordGrows, Grown
  <1>8. CASE SetTimeStamp \/ SetFirmwareUpdated \/ SetCause \/ SetReason
    BY <1>8, WriteNext
  <1>9. CASE ClearCause
    <2>1. /\ pc = "clear" /\ pc' = "reason"
          /\ UNCHANGED <<sections, op, clock, boot, taken>>
      BY <1>9 DEF ClearCause
    <2> QED BY <1>0, <2>1 DEF LInv, RecordGrows, Recording, Grown, Newest,
                              Named
  <1>10. ASSUME NEW max \in EntryValues, SetMaxRebootEntries(max)
         PROVE  Goal
    <2> DEFINE eff == Effective(max)
               k == Len(sections) - eff + 1
    <2>1. UNCHANGED <<clock, boot, pc>> /\ pc \in {"wait", "done"}
      BY <1>10 DEF SetMaxRebootEntries
    <2>2. eff \in Nat \ {0}
      BY RebootsAssumption DEF Effective
    <2> HIDE DEF eff
    <2>3. Chronological(sections', clock, boot.no)
      <3>1. CASE max = 0
        BY <1>10, <3>1 DEF SetMaxRebootEntries, Chronological
      <3>2. CASE max # 0 /\ Len(sections) - eff > 0
        <4>1. k \in Nat \ {0} /\ k <= Len(sections) + 1
          BY <1>0, <2>2, <3>2
        <4>2. sections' = SubSeq(sections, k, Len(sections))
          BY <1>10, <3>2 DEF SetMaxRebootEntries, eff
        <4> HIDE DEF k
        <4> QED BY <1>0, <4>1, <4>2, SuffixChronological
      <3>3. CASE max # 0 /\ ~(Len(sections) - eff > 0)
        BY <1>0, <1>10, <3>3 DEF SetMaxRebootEntries, eff
      <3> QED BY <3>1, <3>2, <3>3
    <2> QED BY <1>1, <2>1, <2>3
  <1>11. CASE RemoveAllReboots
    <2>1. Chronological(<<>>, clock, boot.no)
      BY DEF Chronological
    <2>2. sections' = <<>> /\ UNCHANGED <<clock, boot>>
      BY <1>11 DEF RemoveAllReboots
    <2> QED BY <1>11, <2>1, <2>2, RemovedAll
  <1>12. ASSUME NEW i \in DOMAIN sections, RemoveReboot(i)
         PROVE  Goal
    <2>1. Chronological(sections', clock, boot.no)
      BY <1>0, <1>12, RemovalChronological DEF RemoveReboot
    <2>2. UNCHANGED <<clock, boot>>
      BY <1>12 DEF RemoveReboot
    <2> QED BY <1>12, <2>1, <2>2, RemovedOne
  <1>13. CASE ExecReboot \/ ExecRebootCommits \/ ExecRebootFails
    <2>1. cfg'.max_reboot_entries = cfg.max_reboot_entries
      BY <1>0, <1>13, CfgType DEF TypeOK
    <2> QED BY <1>2, <1>13, <2>1 DEF ExecReboot, ExecRebootCommits,
                                     ExecRebootFails
  <1>14. CASE WriteResetReason
    BY <1>2, <1>14 DEF WriteResetReason
  <1>15. CASE Crash
    BY <1>0, <1>1, <1>15 DEF Crash
  <1>16. ASSUME NEW t \in Triggers, NEW r \in Reasons, Reboot(t, r)
         PROVE  Goal
    <2>1. pc' = "down" /\ clock' = clock /\ boot'.no = boot.no + 1
      BY <1>16 DEF Reboot
    <2>2. sections' = sections \/ sections' = <<>>
      BY <1>16 DEF Reboot
    <2>3. CASE sections' = sections
      <3>1. \A i \in DOMAIN sections : sections[i].time_stamp \in Nat
        BY <1>0, SectionFields
      <3>2. Chronological(sections, clock, boot.no + 1)
        BY <1>0, <3>1 DEF Chronological
      <3> QED BY <2>1, <2>3, <3>2 DEF RecordGrows, Recording
    <2>4. CASE sections' = <<>>
      <3>1. Chronological(<<>>, clock, boot.no + 1)
        BY DEF Chronological
      <3> QED BY <2>1, <2>4, <3>1 DEF RecordGrows, Recording
    <2> QED BY <2>2, <2>3, <2>4
  <1>17. CASE UNCHANGED vars
    BY <1>2, <1>17 DEF vars
  <1> QED
    BY <1>3, <1>4, <1>5, <1>6, <1>7, <1>8, <1>9, <1>10, <1>11, <1>12, <1>13,
       <1>14, <1>15, <1>16, <1>17 DEF Next, Daemon, Register, Controller

LEMMA ListInit == Init => LInv
  <1> SUFFICES ASSUME Init PROVE LInv
    OBVIOUS
  <1>1. Chronological(sections, clock, boot.no)
    BY DEF Init, Chronological
  <1>2. RecordGrows
    BY DEF Init, RecordGrows, Recording, Writing
  <1> QED BY <1>1, <1>2, TypeInit DEF LInv

LEMMA ListInductive ==
    ASSUME "clock_lost" \notin Disturbances
    PROVE  Spec => []LInv
  <1>1. LInv /\ [Next]_vars => LInv'
    <2> SUFFICES ASSUME LInv, [Next]_vars PROVE LInv'
      OBVIOUS
    <2>1. TypeOK'
      BY TypeNext DEF LInv
    <2> QED BY <2>1, ListNext DEF LInv
  <1> QED BY <1>1, ListInit, PTL DEF Spec

\* The records are in the order of the boots they describe, so that what is
\* deleted first is the oldest, for every limit and every sequence of
\* removals, deaths and power cuts, as long as the clock survives a boot
\* (reboots.c:112-153).
THEOREM RecordsOldestFirst ==
    ASSUME "clock_lost" \notin Disturbances
    PROVE  Spec => []OldestFirst
  <1>1. LInv => OldestFirst
    BY DEF LInv, Chronological, OldestFirst
  <1> QED BY <1>1, ListInductive, PTL

\* A registered boot has left a finished record of itself at the end of the
\* list, whatever became of the registrations before it, or no trace of a
\* record that a command took while it was written (reboots.c:155-224, 429-443).
THEOREM RecordOfEachBoot ==
    ASSUME "clock_lost" \notin Disturbances
    PROVE  Spec => RegisteredBootHasRecord
  <1> DEFINE Last == sections'[Len(sections')]
             Recorded == /\ sections' # <<>>
                         /\ Last.time_stamp = boot.no /\ Finished(Last)
             Step == ~lock /\ lock' /\ cfg.max_reboot_entries # 0 =>
                        IF taken THEN Named(op.name) = {} ELSE Recorded
  <1>1. LInv /\ [Next]_vars => [Step]_vars
    <2> SUFFICES ASSUME LInv, Next, ~lock, lock' = TRUE,
                        cfg.max_reboot_entries # 0
                 PROVE  IF taken THEN Named(op.name) = {} ELSE Recorded
      BY DEF LInv, TypeOK
    <2>1. CreateLockFile
      BY DEF Next, Daemon, Start, RebootCheckTimer, SkipRegistered,
             WaitForReason, RegisterBootAction, Register, CountBoot,
             CountVersion, CountWatchdog, CountColdWarm, RecordNothing,
             DeleteExcessRebootSections, DeleteExcessFails,
             CreateRebootSection, SetTimeStamp, SetFirmwareUpdated, SetCause,
             ClearCause, SetReason, Controller, SetMaxRebootEntries,
             RemoveAllReboots, RemoveReboot, ExecReboot, ExecRebootCommits,
             ExecRebootFails, WriteResetReason, Crash, Reboot
    <2>2. pc = "lock" /\ sections' = sections
      BY <2>1 DEF CreateLockFile, store
    <2> QED BY <2>2 DEF LInv, RecordGrows, Recording, Grown, Newest, Finished
  <1> QED BY <1>1, ListInductive, PTL DEF Spec, RegisteredBootHasRecord

-----------------------------------------------------------------------------
(***************************************************************************)
(* The cause of a boot                                                     *)
(*                                                                         *)
(* last_reboot_cause is written before one boot and read in the next one.  *)
(* It claims nothing false if the controller asks for no reboot before the *)
(* registration, the power stays on until then, the clock survives, there  *)
(* is no factory reset and every registration reads the cause; the daemon  *)
(* may die, and the reboot come late.  It is also complete until the       *)
(* daemon has died, if no reboot comes late.                               *)
(***************************************************************************)
Undisturbed ==
    /\ Disturbances \subseteq {"remote", "slow"}
    /\ "defaultreset" \notin Triggers
    /\ 0 \notin EntryValues \cup {DefaultEntries}

Exact == crashes = 0 /\ "slow" \notin Disturbances

\* What a record claims, and what it must not leave out.
Claim(s, remotes) == s.cause = "RemoteReboot" => s.time_stamp \in remotes
Complete(s, remotes) ==
    Exact /\ s.cause \notin {Unset, "FactoryReset"}
          /\ s.time_stamp \in remotes => s.cause = "RemoteReboot"

Truthful(s, remotes) == Claim(s, remotes) /\ Complete(s, remotes)

Truth(ss, remotes) == \A i \in DOMAIN ss : Truthful(ss[i], remotes)

\* The places from the boot to the record of its cause.
Before == {"down", "init", "wait", "boot_count", "version", "watchdog",
           "cold_warm", "trim", "create", "time_stamp", "firmware", "cause"}

Remote == cfg.last_reboot_cause = "RemoteReboot"

\* last_reboot_cause is about the last boot, until it is recorded, and then
\* about the next one.
CauseKept ==
    /\ ~lock /\ Remote => boot.no \in boot.remotes
    /\ lock /\ Remote => exec = "waiting"
    /\ pc \in {"reason", "lock"} => ~Remote
    /\ Exact /\ pc \in Before /\ boot.no \in boot.remotes => Remote
    /\ Exact /\ exec = "waiting" => Remote

Calm ==
    /\ NotRegisteredYet
    /\ pc = "done" => lock
    /\ exec # "none" => lock
    /\ \A n \in boot.remotes : n <= boot.no
    /\ Exact => crashes = 0 /\ exec # "late" /\ (lock => pc = "done")

Draft == ~taken /\ pc \in {"time_stamp", "firmware", "cause"}
            => Newest.cause = Unset

CInv ==
    /\ LInv
    /\ Calm
    /\ CauseKept
    /\ Draft
    /\ Truth(sections, boot.remotes)

\* Deleting records leaves only records that were there.
LEMMA SuffixOf ==
    ASSUME NEW ss \in Seq(Section), NEW k \in Nat \ {0},
           NEW part, part = SubSeq(ss, k, Len(ss))
    PROVE  \A i \in DOMAIN part : \E j \in DOMAIN ss : part[i] = ss[j]
  <1> DEFINE n == Len(ss) - k + 1
  <1>1. DOMAIN part = 1..n /\ \A i \in 1..n : part[i] = ss[i + k - 1]
    OBVIOUS
  <1>2. DOMAIN ss = 1..Len(ss) /\ Len(ss) \in Nat
    OBVIOUS
  <1>3. \A i \in 1..n : i + k - 1 \in 1..Len(ss)
    BY <1>2
  <1> HIDE DEF n
  <1> QED BY <1>1, <1>2, <1>3

\* A record not yet written says nothing that is not true.
LEMMA AppendTrue ==
    ASSUME NEW ss \in Seq(Section), NEW name, NEW remotes, Truth(ss, remotes)
    PROVE  LET after == Append(ss, EmptySection(name))
           IN  /\ Truth(after, remotes)
               /\ after[Len(after)].cause = Unset
  <1> DEFINE t == EmptySection(name)
             after == Append(ss, t)
  <1>1. t.cause = Unset
    BY DEF EmptySection
  <1> HIDE DEF t
  <1>2. /\ DOMAIN after = 1 .. Len(ss) + 1 /\ Len(ss) \in Nat
        /\ DOMAIN ss = 1 .. Len(ss) /\ Len(after) = Len(ss) + 1
        /\ after[Len(ss) + 1] = t
        /\ \A i \in DOMAIN ss : after[i] = ss[i]
    OBVIOUS
  <1> HIDE DEF after
  <1>3. \A i \in DOMAIN after : i \in DOMAIN ss \/ i = Len(ss) + 1
    BY <1>2
  <1>4. Truthful(t, remotes)
    BY <1>1 DEF Truthful, Claim, Complete, Unset
  <1>5. Truth(after, remotes)
    BY <1>2, <1>3, <1>4 DEF Truth
  <1>6. after[Len(after)].cause = Unset
    BY <1>1, <1>2
  <1> QED BY <1>5, <1>6 DEF after, t

\* The four options of the record of this boot.
LEMMA WriteTrue ==
    ASSUME Undisturbed, CInv,
           SetTimeStamp \/ SetFirmwareUpdated \/ SetCause \/ SetReason
    PROVE  Truth(sections', boot.remotes) /\ Draft'
  <1> DEFINE n == Len(sections)
             s == sections[n]
  <1>0. /\ pc \in Writing /\ taken' = taken
        /\ pc' \in {"firmware", "cause", "clear", "reason", "lock"}
    BY DEF SetTimeStamp, SetFirmwareUpdated, SetCause, SetReason, Writing,
           hist
  <1>9. CASE taken
    <2>1. sections' = sections
      BY <1>0, <1>9, PutNothing
         DEF SetTimeStamp, SetFirmwareUpdated, SetCause, SetReason, CInv
    <2> QED BY <1>0, <1>9, <2>1 DEF CInv, Draft
  <1> SUFFICES ASSUME ~taken
               PROVE  Truth(sections', boot.remotes) /\ Draft'
    BY <1>9
  <1>1. sections \in Seq(Section) /\ n \in DOMAIN sections /\ s \in Section
    <2>1. sections \in Seq(Section) /\ sections # <<>>
      BY <1>0 DEF CInv, LInv, TypeOK, RecordGrows, Recording, Grown
    <2> QED BY <2>1
  <1>2. ASSUME NEW t, \E sec : Put(sec) /\ sec[n] = t,
               Truthful(t, boot.remotes)
        PROVE  Truth(sections', boot.remotes) /\ Newest' = t
    <2>1. PICK sec : Put(sec) /\ sec[n] = t
      BY <1>2
    <2>2. /\ DOMAIN sections' = DOMAIN sections /\ sections'[n] = t
          /\ \A i \in DOMAIN sections :
                i # n => sections'[i] = sections[i]
      BY <1>0, <2>1, PutIsNewest DEF CInv
    <2>3. sections' = [i \in DOMAIN sections |-> sections'[i]]
      BY <2>1 DEF Put
    <2>4. Len(sections') = n
      BY <1>1, <2>2, <2>3
    <2>5. Truth(sections', boot.remotes)
      BY <1>2, <2>2 DEF CInv, Truth
    <2> QED BY <2>2, <2>4, <2>5 DEF Newest
  <1>3. CASE SetTimeStamp
    <2> DEFINE t == [s EXCEPT !.time_stamp = boot.no]
    <2>1. t.cause = s.cause
      BY <1>1 DEF Section
    <2>2. s.cause = Unset
      BY <1>3 DEF SetTimeStamp, CInv, Newest, Draft
    <2>3. \E sec : Put(sec) /\ sec[n] = t
      BY <1>1, <1>3 DEF SetTimeStamp
    <2> HIDE DEF t
    <2>4. Truthful(t, boot.remotes) /\ t.cause = Unset
      BY <2>1, <2>2 DEF Truthful, Claim, Complete, Unset
    <2> QED BY <1>2, <2>3, <2>4 DEF Draft
  <1>4. CASE SetFirmwareUpdated
    <2> DEFINE v == IF op.trigger = "upgrade" THEN "1" ELSE "0"
               t == [s EXCEPT !.firmware_updated = v]
    <2>1. t.cause = s.cause
      BY <1>1 DEF Section
    <2>2. s.cause = Unset
      BY <1>4 DEF SetFirmwareUpdated, CInv, Newest, Draft
    <2>3. \E sec : Put(sec) /\ sec[n] = t
      BY <1>1, <1>4 DEF SetFirmwareUpdated
    <2> HIDE DEF t
    <2>4. Truthful(t, boot.remotes) /\ t.cause = Unset
      BY <2>1, <2>2 DEF Truthful, Claim, Complete, Unset
    <2> QED BY <1>2, <2>3, <2>4 DEF Draft
  <1>5. CASE SetCause
    <2> DEFINE v == CASE op.trigger = "defaultreset" -> "FactoryReset"
                      [] cfg.last_reboot_cause = Unset -> "LocalReboot"
                      [] OTHER -> cfg.last_reboot_cause
               t == [s EXCEPT !.cause = v]
    <2>1. pc = "cause" /\ pc' \in {"reason", "clear"}
      BY <1>5 DEF SetCause
    <2>2. s.time_stamp = boot.no
      BY <2>1 DEF CInv, LInv, RecordGrows, Recording, Grown, Newest, Writing
    <2>3. t.cause = v /\ t.time_stamp = boot.no
      BY <1>1, <2>2 DEF Section
    <2>4. /\ op.trigger # "defaultreset"
          /\ cfg.last_reboot_cause \in {Unset, "RemoteReboot"}
      BY DEF CInv, LInv, TypeOK, Cfg, Undisturbed
    <2>5. v = "RemoteReboot" <=> cfg.last_reboot_cause = "RemoteReboot"
      BY <2>4 DEF Unset
    <2>6. /\ Remote => boot.no \in boot.remotes
          /\ Exact /\ boot.no \in boot.remotes => Remote
      BY <2>1 DEF CInv, CauseKept, Before, Calm, NotRegisteredYet,
                  Registering
    <2>7. \E sec : Put(sec) /\ sec[n] = t
      BY <1>1, <1>5 DEF SetCause
    <2> HIDE DEF t, v
    <2>8. Truthful(t, boot.remotes)
      BY <2>3, <2>5, <2>6 DEF Truthful, Claim, Complete, Remote
    <2> QED BY <1>2, <2>1, <2>7, <2>8 DEF Draft
  <1>6. CASE SetReason
    <2> DEFINE v == BootReasonMessage(op.trigger, op.reason)
               t == [s EXCEPT !.reason = v]
    <2>1. t.cause = s.cause /\ t.time_stamp = s.time_stamp
      BY <1>1 DEF Section
    <2>2. \E sec : Put(sec) /\ sec[n] = t
      BY <1>1, <1>6 DEF SetReason
    <2>3. pc' = "lock" /\ Truthful(s, boot.remotes)
      BY <1>1, <1>6 DEF SetReason, CInv, Truth
    <2> HIDE DEF t, v
    <2>4. Truthful(t, boot.remotes)
      BY <2>1, <2>3 DEF Truthful, Claim, Complete
    <2> QED BY <1>2, <2>2, <2>3, <2>4 DEF Draft
  <1> QED BY <1>3, <1>4, <1>5, <1>6

\* Records that were there before are as true as they were.
LEMMA PartTrue ==
    ASSUME NEW ss, NEW part, NEW remotes, Truth(ss, remotes),
           \A i \in DOMAIN part : \E j \in DOMAIN ss : part[i] = ss[j]
    PROVE  Truth(part, remotes)
  BY DEF Truth

LEMMA CauseNext ==
    ASSUME Undisturbed, CInv, [Next]_vars
    PROVE  Calm' /\ CauseKept' /\ Draft' /\ Truth(sections', boot'.remotes)
  <1> DEFINE Goal == /\ Calm' /\ CauseKept' /\ Draft'
                     /\ Truth(sections', boot'.remotes)
  <1>0. /\ TypeOK /\ LInv /\ Calm /\ CauseKept /\ Draft
        /\ Truth(sections, boot.remotes)
    BY DEF CInv, LInv
  <1>t. /\ cfg.last_reboot_cause \in {Unset, "RemoteReboot"}
        /\ cfg.max_reboot_entries # 0
        /\ op.trigger # "defaultreset"
        /\ sections \in Seq(Section)
        /\ boot.no \in Nat /\ crashes \in Nat /\ clock \in Nat
        /\ exec \in {"none", "forked", "waiting", "late"}
    BY <1>0 DEF TypeOK, Cfg, Undisturbed
  <1>e. crashes' = crashes => (Exact' <=> Exact)
    BY DEF Exact
  <1> USE <1>e DEF NotRegisteredYet, Registering
  <1>1. CASE \/ Start \/ RebootCheckTimer \/ SkipRegistered \/ WaitForReason
             \/ RegisterBootAction
    <2>1. /\ UNCHANGED <<cfg, sections, lock, exec, boot, crashes>>
          /\ pc \in Before /\ pc' \in Before \cup {"done"}
          /\ pc' \notin {"time_stamp", "firmware", "cause"}
          /\ pc' \in Registering \cup {"wait"} => ~lock \/ pc' = "init"
          /\ pc' = "done" => lock
          /\ pc = "wait" => pc' = "init"
      BY <1>1 DEF Start, RebootCheckTimer, SkipRegistered, WaitForReason,
         RegisterBootAction, store, world, hist, Before
    <2> QED BY <1>0, <2>1 DEF Calm, CauseKept, Before, Draft, Remote
  <1>2. CASE CountBoot \/ CountVersion \/ CountWatchdog \/ CountColdWarm
    <2>1. /\ cfg'.last_reboot_cause = cfg.last_reboot_cause
          /\ UNCHANGED <<sections, lock, exec, boot, crashes>>
      BY <1>0, <1>2 DEF CountBoot, CountVersion, CountWatchdog, CountColdWarm,
         world, hist, TypeOK, Cfg
    <2>2. /\ pc \in Before /\ pc \in Registering
          /\ pc' \in {"version", "watchdog", "cold_warm", "trim"}
      BY <1>2 DEF CountBoot, CountVersion, CountWatchdog, CountColdWarm,
         Before
    <2> QED BY <1>0, <2>1, <2>2 DEF Calm, CauseKept, Before, Draft, Remote
  <1>3. CASE RecordNothing
    BY <1>t, <1>3 DEF RecordNothing
  <1>4. CASE DeleteExcessRebootSections \/ DeleteExcessFails
    <2>1. /\ pc = "trim" /\ pc' = "create"
          /\ UNCHANGED <<cfg, lock, exec, boot, crashes>>
      BY <1>4 DEF DeleteExcessRebootSections, DeleteExcessFails, store, world
    <2>2. Calm' /\ CauseKept' /\ Draft'
      BY <1>0, <2>1 DEF Calm, CauseKept, Before, Draft, Remote
    <2>3. Truth(sections', boot.remotes)
      <3>1. CASE sections' = sections
        BY <1>0, <3>1
      <3>2. CASE DeleteExcessRebootSections /\ sections' # sections
        <4> DEFINE k == Len(sections) - Effective(cfg.max_reboot_entries) + 2
        <4>1. sections' = SubSeq(sections, k, Len(sections))
              /\ ~(Len(sections) - Effective(cfg.max_reboot_entries) < 0)
          BY <3>2 DEF DeleteExcessRebootSections, Trimmed
        <4>2. k \in Nat \ {0}
          <5>1. Len(sections) \in Nat
            BY <1>t
          <5>2. Effective(cfg.max_reboot_entries) \in Int
            <6>1. cfg.max_reboot_entries \in EntryValues \cup {DefaultEntries}
              BY <1>0 DEF TypeOK, Cfg
            <6>2. cfg.max_reboot_entries \in Int
              <7>1. \A m \in EntryValues : m \in Int
                OBVIOUS
              <7>2. DefaultEntries \in Int
                OBVIOUS
              <7> QED BY <6>1, <7>1, <7>2
            <6> QED BY <6>2 DEF Effective
          <5> QED BY <4>1, <5>1, <5>2
        <4> HIDE DEF k
        <4>3. \A i \in DOMAIN sections' :
                 \E j \in DOMAIN sections : sections'[i] = sections[j]
          BY <1>t, <4>1, <4>2, SuffixOf
        <4> QED BY <1>0, <4>3, PartTrue
      <3> QED BY <1>4, <3>1, <3>2 DEF DeleteExcessFails, store
    <2> QED BY <2>1, <2>2, <2>3
  <1>5. ASSUME NEW now, CreateRebootSection(now)
        PROVE  Goal
    <2>1. /\ pc = "create" /\ pc' = "time_stamp" /\ now = clock + 1
          /\ UNCHANGED <<cfg, lock, exec, boot, crashes>>
      BY <1>5 DEF CreateRebootSection, world, hist, Undisturbed
    <2>2. Named(now) = {}
      BY <1>0, <1>t, <2>1, SectionFields DEF Named, LInv, Chronological
    <2>3. sections' = Append(sections, EmptySection(now))
      BY <1>5, <2>2 DEF CreateRebootSection
    <2>4. Truth(sections', boot.remotes) /\ Newest'.cause = Unset
      BY <1>0, <1>t, <2>3, AppendTrue DEF Newest
    <2> QED BY <1>0, <2>1, <2>4 DEF Calm, CauseKept, Before, Draft, Remote
  <1>6. CASE SetTimeStamp \/ SetFirmwareUpdated \/ SetCause \/ SetReason
    <2>1. Truth(sections', boot.remotes) /\ Draft'
      BY <1>6, WriteTrue
    <2>2. UNCHANGED <<cfg, lock, exec, boot, crashes>>
      BY <1>6 DEF SetTimeStamp, SetFirmwareUpdated, SetCause, SetReason,
                  world, hist
    <2>3. /\ pc \in Registering
          /\ \/ pc \in Before /\ pc' \in {"firmware", "cause", "clear"}
             \/ pc = "reason" /\ pc' = "lock"
      BY <1>t, <1>6 DEF SetTimeStamp, SetFirmwareUpdated, SetCause, SetReason,
                        Before
    <2> QED BY <1>0, <2>1, <2>2, <2>3 DEF Calm, CauseKept, Before, Remote
  <1>7. CASE ClearCause
    <2>1. /\ pc = "clear" /\ pc' = "reason" /\ cfg'.last_reboot_cause = Unset
          /\ UNCHANGED <<sections, lock, exec, boot, crashes>>
      BY <1>0, <1>7 DEF ClearCause, world, hist, TypeOK, Cfg
    <2>2. exec = "none"
      BY <1>0, <2>1 DEF Calm
    <2> QED BY <1>0, <2>1, <2>2 DEF Calm, CauseKept, Before, Unset, Draft,
                                    Remote
  <1>8. CASE CreateLockFile
    <2>1. /\ pc = "lock" /\ pc' = "done" /\ lock' = TRUE
          /\ UNCHANGED <<cfg, sections, exec, boot, crashes>>
      BY <1>8 DEF CreateLockFile, store, world
    <2> QED BY <1>0, <2>1 DEF Calm, CauseKept, Before, Draft, Remote
  <1>9. ASSUME NEW max \in EntryValues, SetMaxRebootEntries(max)
        PROVE  Goal
    <2>1. /\ cfg'.last_reboot_cause = cfg.last_reboot_cause
          /\ UNCHANGED <<lock, pc, exec, boot, crashes>> /\ pc \in Idle
      BY <1>0, <1>9 DEF SetMaxRebootEntries, world, TypeOK, Cfg
    <2>2. Calm' /\ CauseKept' /\ Draft'
      BY <1>0, <2>1 DEF Calm, CauseKept, Idle, Draft, Remote
    <2>3. Truth(sections', boot.remotes)
      <3>1. CASE sections' = sections \/ sections' = <<>>
        BY <1>0, <3>1 DEF Truth
      <3>2. CASE sections' \notin {sections, <<>>}
        <4> DEFINE k == Len(sections) - Effective(max) + 1
        <4>1. sections' = SubSeq(sections, k, Len(sections))
              /\ Len(sections) - Effective(max) > 0
          BY <1>9, <3>2 DEF SetMaxRebootEntries
        <4>2. k \in Nat \ {0}
          <5>1. Len(sections) \in Nat
            BY <1>t
          <5>2. Effective(max) \in Int
            BY DEF Effective
          <5> QED BY <4>1, <5>1, <5>2
        <4> HIDE DEF k
        <4>3. \A i \in DOMAIN sections' :
                 \E j \in DOMAIN sections : sections'[i] = sections[j]
          BY <1>t, <4>1, <4>2, SuffixOf
        <4> QED BY <1>0, <4>3, PartTrue
      <3> QED BY <3>1, <3>2
    <2> QED BY <2>1, <2>2, <2>3
  <1>10. ASSUME UNCHANGED <<cfg, lock, pc, exec, boot, crashes>>,
                Draft', Truth(sections', boot.remotes)
         PROVE  Goal
    BY <1>0, <1>10 DEF Calm, CauseKept, Remote
  <1>11. CASE RemoveAllReboots
    <2>1. /\ UNCHANGED <<cfg, lock, pc, op, exec, boot, crashes>>
          /\ sections' = <<>>
          /\ taken' = (taken \/ Named(op.name) # {})
      BY <1>11 DEF RemoveAllReboots, world
    <2>2. pc \in Writing /\ ~taken => Named(op.name) # {}
      <3> SUFFICES ASSUME pc \in Writing, ~taken
                   PROVE  Named(op.name) # {}
        OBVIOUS
      <3>1. sections # <<>> /\ Newest.name = op.name
        BY <1>0 DEF LInv, RecordGrows, Recording, Grown
      <3>2. Len(sections) \in DOMAIN sections
        BY <1>t, <3>1
      <3> QED BY <3>1, <3>2 DEF Newest, Named
    <2>3. Draft'
      BY <2>1, <2>2 DEF Draft, Writing
    <2>4. Truth(sections', boot.remotes)
      BY <2>1 DEF Truth
    <2> QED BY <1>10, <2>1, <2>3, <2>4
  <1>12. ASSUME NEW i \in DOMAIN sections, RemoveReboot(i)
         PROVE  Goal
    <2>1. /\ UNCHANGED <<cfg, lock, pc, op, exec, boot, crashes>>
          /\ sections' = Without(sections, i)
          /\ taken' = (taken \/ sections[i].name = op.name)
      BY <1>12 DEF RemoveReboot, world, Without
    <2>2. \A j \in DOMAIN sections' :
             \E k \in DOMAIN sections : k # i /\ sections'[j] = sections[k]
      BY <1>t, <2>1, RemovalFrom
    <2>3. Truth(sections', boot.remotes)
      BY <1>0, <2>2, PartTrue
    <2>4. ASSUME pc \in Writing, ~taken, i # Len(sections)
          PROVE  Newest' = Newest
      BY <1>t, <2>1, <2>4, RemovalKeepsLast DEF Newest
    <2>5. pc \in Writing /\ ~taken => Newest.name = op.name
      BY <1>0 DEF LInv, RecordGrows, Recording, Grown
    <2>6. Draft'
      BY <1>0, <2>1, <2>4, <2>5 DEF Draft, Writing, Newest
    <2> QED BY <1>10, <2>1, <2>3, <2>6
  <1>13. CASE ExecReboot
    <2>1. /\ pc = "done" /\ exec = "none" /\ exec' = "forked"
          /\ UNCHANGED <<cfg, sections, lock, pc, boot, crashes, taken>>
      BY <1>0, <1>13 DEF ExecReboot, store, hist, Undisturbed
    <2> QED BY <1>0, <2>1 DEF Calm, CauseKept, Before, Draft, Remote, Newest
  <1>14. CASE ExecRebootCommits
    <2>1. /\ exec = "forked" /\ exec' = "waiting"
          /\ cfg'.last_reboot_cause = "RemoteReboot"
          /\ UNCHANGED <<sections, lock, pc, boot, crashes, taken>>
      BY <1>0, <1>14 DEF ExecRebootCommits, hist, TypeOK, Cfg
    <2>2. lock /\ pc \notin Registering
      BY <1>0, <2>1 DEF Calm
    <2> QED BY <1>0, <2>1, <2>2 DEF Calm, CauseKept, Before, Draft, Remote,
                                    Newest
  <1>15. CASE ExecRebootFails
    <2>1. /\ exec = "waiting" /\ exec' \in {"none", "late"}
          /\ Exact => exec' = "none"
          /\ cfg'.last_reboot_cause = Unset
          /\ UNCHANGED <<sections, lock, pc, boot, crashes, taken>>
      BY <1>0, <1>15 DEF ExecRebootFails, hist, TypeOK, Cfg, Exact
    <2>2. lock /\ pc \notin Registering
      BY <1>0, <2>1 DEF Calm
    <2> QED BY <1>0, <2>1, <2>2 DEF Calm, CauseKept, Before, Unset, Draft,
                                    Remote, Newest
  <1>16. CASE WriteResetReason
    <2>1. UNCHANGED <<cfg, sections, lock, pc, exec, boot, crashes, taken>>
      BY <1>16 DEF WriteResetReason, store, hist
    <2>2. Draft'
      BY <1>0, <2>1 DEF Draft, Newest
    <2> QED BY <1>0, <1>10, <2>1, <2>2
  <1>17. CASE Crash
    <2>1. /\ pc' = "down" /\ crashes' = crashes + 1
          /\ UNCHANGED <<cfg, sections, lock, exec, boot>>
      BY <1>17 DEF Crash, store, world
    <2>2. ~Exact'
      BY <1>t, <2>1 DEF Exact
    <2> QED BY <1>0, <2>1, <2>2 DEF Calm, CauseKept, Draft, Remote
  <1>18. ASSUME NEW t \in Triggers, NEW r \in Reasons, Reboot(t, r)
         PROVE  Goal
    <2>1. lock /\ t # "defaultreset"
      BY <1>0, <1>18 DEF Reboot, Undisturbed
    <2>2. /\ UNCHANGED <<cfg, sections, crashes>>
          /\ lock' = FALSE /\ pc' = "down" /\ exec' = "none"
          /\ boot'.no = boot.no + 1
          /\ boot'.remotes = boot.remotes \cup
                (IF exec \in {"none", "forked"} THEN {} ELSE {boot.no + 1})
      BY <1>18, <2>1 DEF Reboot, store
    <2>3. \A n \in boot.remotes : n <= boot.no
      BY <1>0 DEF Calm
    <2>4. \A n \in boot.remotes : n \in Nat
      BY <1>0 DEF TypeOK
    <2>5. boot'.no \in boot'.remotes <=> exec \in {"waiting", "late"}
      BY <1>0, <1>t, <2>2, <2>3, <2>4
    <2>6. Truth(sections', boot'.remotes)
      <3>1. \A i \in DOMAIN sections :
               sections[i].time_stamp \in boot.remotes
                  <=> sections[i].time_stamp \in boot'.remotes
        BY <1>0, <1>t, <2>2, SectionFields DEF LInv, Chronological
      <3> QED BY <1>0, <2>2, <3>1 DEF Truth, Truthful, Claim, Complete
    <2>7. Calm'
      BY <1>0, <1>t, <2>2, <2>3, <2>4 DEF Calm
    <2>8. CauseKept'
      BY <1>0, <2>1, <2>2, <2>5 DEF CauseKept, Before, Remote, Calm
    <2> QED BY <2>2, <2>6, <2>7, <2>8 DEF Draft
  <1>19. CASE UNCHANGED vars
    <2>1. UNCHANGED <<cfg, sections, lock, pc, exec, boot, crashes, taken>>
      BY <1>19 DEF vars, hist
    <2>2. Draft'
      BY <1>0, <2>1 DEF Draft, Newest
    <2> QED BY <1>0, <1>10, <2>1, <2>2
  <1> QED
    BY <1>1, <1>2, <1>3, <1>4, <1>5, <1>6, <1>7, <1>8, <1>9, <1>11, <1>12,
       <1>13, <1>14, <1>15, <1>16, <1>17, <1>18, <1>19
    DEF Next, Daemon, Register, Controller

\* A death is not forgotten.
LEMMA DeathsStay ==
    ASSUME TypeOK, [Next]_vars PROVE crashes' = 0 => crashes = 0
  <1>1. crashes \in Nat
    BY DEF TypeOK
  <1>2. CASE Crash
    BY <1>1, <1>2 DEF Crash
  <1>3. CASE Daemon
    BY <1>3 DEF Daemon, Start, RebootCheckTimer, SkipRegistered,
       WaitForReason, RegisterBootAction, Register, CountBoot, CountVersion,
       CountWatchdog, CountColdWarm, RecordNothing,
       DeleteExcessRebootSections, DeleteExcessFails, CreateRebootSection,
       SetTimeStamp, SetFirmwareUpdated, SetCause, ClearCause, SetReason,
       CreateLockFile, hist
  <1>4. CASE Controller \/ ExecRebootCommits \/ ExecRebootFails
                \/ WriteResetReason
    BY <1>4 DEF Controller, SetMaxRebootEntries, RemoveAllReboots,
       RemoveReboot, ExecReboot, ExecRebootCommits, ExecRebootFails,
       WriteResetReason, hist
  <1>5. ASSUME NEW t \in Triggers, NEW r \in Reasons, Reboot(t, r)
        PROVE  crashes' = crashes
    BY <1>5 DEF Reboot
  <1>6. CASE UNCHANGED vars
    BY <1>6 DEF vars, hist
  <1> QED BY <1>2, <1>3, <1>4, <1>5, <1>6 DEF Next

LEMMA CauseInductive ==
    ASSUME Undisturbed PROVE Spec => []CInv
  <1>1. Init => CInv
    <2> SUFFICES ASSUME Init PROVE CInv
      OBVIOUS
    <2>1. LInv
      BY ListInit
    <2>2. /\ pc = "down" /\ exec = "none" /\ lock = FALSE /\ crashes = 0
          /\ sections = <<>> /\ cfg.last_reboot_cause = Unset
          /\ boot.remotes = {}
      BY DEF Init, FreshCfg
    <2>3. Calm
      BY <2>2 DEF Calm, NotRegisteredYet, Registering
    <2>4. CauseKept /\ Draft
      BY <2>2 DEF CauseKept, Draft, Remote, Unset
    <2>5. Truth(sections, boot.remotes)
      BY <2>2 DEF Truth
    <2> QED BY <2>1, <2>3, <2>4, <2>5 DEF CInv
  <1>2. CInv /\ [Next]_vars => CInv'
    <2> SUFFICES ASSUME CInv, [Next]_vars PROVE CInv'
      OBVIOUS
    <2>1. LInv'
      BY TypeNext, ListNext DEF CInv, LInv, Undisturbed
    <2>2. Truth(sections', boot'.remotes)
      BY CauseNext
    <2>3. Exact' => Exact
      BY DeathsStay DEF CInv, LInv, Exact
    <2>4. Truth(sections, boot.remotes)'
      BY <2>2, <2>3 DEF Truth, Truthful, Claim, Complete
    <2> QED BY <2>1, <2>4, CauseNext DEF CInv
  <1> QED BY <1>1, <1>2, PTL DEF Spec

\* No record claims a remote reboot of a boot that was not one, for every
\* number of boots, deaths, retries and records and however late the reboot
\* comes, unless something Undisturbed names happens (reboots.c:170-177).
THEOREM RecordClaimsHold ==
    ASSUME Undisturbed
    PROVE  Spec => []ClaimsHold
  <1>1. CInv => ClaimsHold
    BY DEF CInv, Truth, Truthful, Claim, ClaimsHold
  <1> QED BY <1>1, CauseInductive, PTL

\* Besides, a finished record of a boot that _exec_reboot had asked for says
\* so (fw_images.c:138), for every number of boots, of retries and of records,
\* as long as the daemon has not died, if the reboot comes while _exec_reboot
\* waits for it: what the daemon has recorded it clears, and nothing else.
THEOREM RecordTellsCause ==
    ASSUME Undisturbed, "slow" \notin Disturbances
    PROVE  Spec => []CauseHonest
  <1>1. CInv => CauseHonest
    <2> SUFFICES ASSUME CInv PROVE CauseHonest
      OBVIOUS
    <2>1. ClaimsHold
      BY DEF CInv, Truth, Truthful, Claim, ClaimsHold
    <2>2. ASSUME crashes = 0 PROVE RemotesTold
      BY <2>2 DEF CInv, Truth, Truthful, Complete, Exact, Finished,
                  RemotesTold
    <2> QED BY <2>1, <2>2 DEF CauseHonest
  <1> QED BY <1>1, CauseInductive, PTL

=============================================================================
