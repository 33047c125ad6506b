------------------------------- MODULE Reboots -------------------------------
(***************************************************************************)
(* The boot registration of sysmngr (src/src/reboots.c): once per boot the *)
(* daemon reads /var/reset_reason, bumps the counters of the UCI section   *)
(* sysmngr.reboots, trims and extends the list of 'reboot' sections and    *)
(* creates a lock file in /tmp.  Every BBFDM_UCI_SET commits, so each one  *)
(* is a step of its own and the daemon may die, or the power fail, between *)
(* any two.  The setter of MaxRebootEntries runs in the same event loop,   *)
(* between two callbacks.  The commands Remove() and RemoveAllReboots(),   *)
(* and _exec_reboot (fw_images.c), run in processes the loop has forked,   *)
(* and interleave with everything.                                         *)
(***************************************************************************)
EXTENDS Integers, Sequences

CONSTANTS
    REBOOT_MAX_RETRIES,  \* attempts to find a valid reset reason file
    REBOOT_MAX_ENTRIES,  \* sections kept when max_reboot_entries is negative
    DefaultEntries,      \* fallback of max_reboot_entries ("3" in the code)
    EntryValues,         \* the values a controller writes to MaxRebootEntries
    Triggers,            \* values of the "triggered" line, or Empty
    Reasons,             \* values of the "reason" line, or Empty
    Disturbances,        \* what the environment may do, see below
    MaxBoots,            \* bound: boots of the device
    MaxCrashes,          \* bound: deaths of the daemon process
    MaxTrimFailures,     \* bound: failing deletions of old sections
    MaxTime              \* bound: readings of a clock that was lost

(***************************************************************************)
(* "power_cut":  the device may go down before its boot is registered      *)
(* "remote":     a controller asks for a reboot of a registered boot       *)
(* "early":      a controller asks for a reboot before registration        *)
(* "slow":       the reboot may come after _exec_reboot stopped waiting    *)
(* "clock_lost": time(NULL) may restart from any value after a boot        *)
(***************************************************************************)
Empty == "empty"  \* the string "", of a line that is not there
Unset == "unset"  \* an option that UCI does not have

ASSUME RebootsAssumption ==
    /\ REBOOT_MAX_RETRIES \in Nat
    /\ REBOOT_MAX_ENTRIES \in Nat \ {0}
    /\ DefaultEntries \in Nat \ {0}
    /\ EntryValues \subseteq Int
    /\ \A m \in EntryValues : m >= -1
    /\ Empty \in Triggers /\ Empty \in Reasons
    /\ Unset \notin Triggers \cup Reasons
    /\ Disturbances \subseteq
          {"power_cut", "remote", "early", "slow", "clock_lost"}
    /\ MaxBoots \in Nat /\ MaxCrashes \in Nat /\ MaxTrimFailures \in Nat
    /\ MaxTime \in Nat \ {0}

VARIABLES
    cfg,       \* the options of the UCI section sysmngr.reboots
    sections,  \* the 'reboot' sections, oldest first
    lock,      \* REBOOT_LOCK_FILE exists
    file,      \* RESET_REASON_PATH: whether it exists, and its two lines
    pc,        \* where the daemon is
    retry,     \* g_retry_count
    op,        \* the locals of the registration: trigger, reason, section
    exec,      \* the child running _exec_reboot
    served,    \* the daemon has been in its event loop since the boot
    clock,     \* the last value of time(NULL) used for a section name
    boot,      \* ghost: the current boot and what really caused it
    registered, \* ghost: boots registered since the last factory reset
    died,      \* ghost: registrations that died after they had counted
    torn,      \* ghost: 1 if a factory reset was registered halfway
    taken,     \* ghost: a command removed the record being written
    trimFails, \* ghost: failed deletions since the last one that worked
    crashes    \* ghost: deaths of the process

hist == <<registered, died, torn, taken, trimFails, crashes>>
vars == <<cfg, sections, lock, file, pc, retry, op, exec, served, clock, boot,
          hist>>
store == <<cfg, sections>>
world == <<file, exec, boot, served>>

NoFile == [exists |-> FALSE, trigger |-> Empty, reason |-> Empty]
NoOp == [trigger |-> Empty, reason |-> Empty, name |-> 0]

\* The steps of sysmngr_register_boot_action, in the order of their commits.
Registering == {"boot_count", "version", "watchdog", "cold_warm", "trim",
                "create", "time_stamp", "firmware", "cause", "clear",
                "reason", "lock"}
\* In the event loop, free to serve a data-model request.
Idle == {"wait", "done"}

\* The configuration of a device that has not been used yet.
FreshCfg == [boot_count |-> 0, curr_version_boot_count |-> 0,
             watchdog_boot_count |-> 0, cold_boot_count |-> 0,
             warm_boot_count |-> 0, last_reboot_cause |-> Unset,
             max_reboot_entries |-> DefaultEntries]

\* The number of sections max_reboot_entries stands for when it is not 0.
Effective(max) == IF max > 0 THEN max ELSE REBOOT_MAX_ENTRIES

BootReasonMessage(trigger, reason) ==
    CASE trigger = "defaultreset" -> "FACTORY_RESET"
      [] trigger = "upgrade" -> "FIRMWARE_UPGRADE"
      [] trigger \notin {Empty, "defaultreset", "upgrade"} -> trigger
      [] trigger = Empty /\ reason = "POR_RESET" -> "POWER_ON_RESET"
      [] trigger = Empty /\ reason = Empty -> "Unknown"
      [] OTHER -> reason

\* strstr(reason, "watchdog"), case-sensitive, over the reasons modelled.
HasWatchdog(reason) == reason \in {"watchdog", "watchdog_timer"}

ValidReasonFile == file.exists /\ file.reason # Empty

Init ==
    /\ cfg = FreshCfg
    /\ sections = <<>>
    /\ lock = FALSE
    /\ file = NoFile
    /\ pc = "down"
    /\ retry = 0
    /\ op = NoOp
    /\ exec = "none"
    /\ served = FALSE
    /\ clock = 0
    /\ \E t \in Triggers, r \in Reasons :
          boot = [no |-> 1, trigger |-> t, reason |-> r, remotes |-> {}]
    /\ registered = 0 /\ died = 0 /\ torn = 0
    /\ taken = FALSE /\ trimFails = 0 /\ crashes = 0

-----------------------------------------------------------------------------
(***************************************************************************)
(* Waiting for the reset reason                                            *)
(***************************************************************************)
\* main() starts and, later, the timer fires: both call sysmngr_reboots_init.
Start ==
    /\ pc = "down"
    /\ pc' = "init"
    /\ UNCHANGED <<store, world, lock, retry, op, clock, hist>>

RebootCheckTimer ==
    /\ pc = "wait"
    /\ pc' = "init"
    /\ UNCHANGED <<store, world, lock, retry, op, clock, hist>>

\* The lock file tells a restarted daemon that this boot is registered.
SkipRegistered ==
    /\ pc = "init"
    /\ lock
    /\ pc' = "done"
    /\ served' = TRUE
    /\ UNCHANGED <<store, file, exec, boot, lock, retry, op, clock, hist>>

\* Mutant: one attempt too many.
WaitOnceMore ==
    /\ pc = "init" /\ ~lock /\ ~ValidReasonFile
    /\ retry <= REBOOT_MAX_RETRIES
    /\ retry' = retry + 1
    /\ pc' = "wait"
    /\ served' = TRUE
    /\ UNCHANGED <<store, file, exec, boot, lock, op, clock, hist>>

\* Mutant: the attempts are not counted.
WaitForever ==
    /\ pc = "init" /\ ~lock /\ ~ValidReasonFile
    /\ pc' = "wait"
    /\ served' = TRUE
    /\ UNCHANGED <<store, file, exec, boot, lock, retry, op, clock, hist>>

WaitForReason ==
    /\ pc = "init"
    /\ ~lock
    /\ ~ValidReasonFile
    /\ retry < REBOOT_MAX_RETRIES
    /\ retry' = retry + 1
    /\ pc' = "wait"
    /\ served' = TRUE
    /\ UNCHANGED <<store, file, exec, boot, lock, op, clock, hist>>

\* Mutant: the lock file is not looked at.
RegisterAgain ==
    /\ pc = "init"
    /\ ValidReasonFile \/ retry >= REBOOT_MAX_RETRIES
    /\ op' = [trigger |-> file.trigger, reason |-> file.reason, name |-> 0]
    /\ pc' = "boot_count"
    /\ UNCHANGED <<store, world, lock, retry, clock, hist>>

RegisterBootAction ==
    /\ pc = "init"
    /\ ~lock
    /\ ValidReasonFile \/ retry >= REBOOT_MAX_RETRIES
    /\ op' = [trigger |-> file.trigger, reason |-> file.reason, name |-> 0]
    /\ pc' = "boot_count"
    /\ UNCHANGED <<store, world, lock, retry, clock, hist>>

-----------------------------------------------------------------------------
(***************************************************************************)
(* The counters                                                            *)
(***************************************************************************)
\* Mutant: a factory reset sets boot_count to 0, its own boot is lost.
CountBootFromZero ==
    /\ pc = "boot_count"
    /\ IF op.trigger = "defaultreset"
       THEN /\ cfg' = [cfg EXCEPT !.boot_count = 0]
            /\ registered' = 0 /\ died' = 0
       ELSE /\ cfg' = [cfg EXCEPT !.boot_count = @ + 1]
            /\ UNCHANGED <<registered, died>>
    /\ pc' = "version"
    /\ UNCHANGED <<sections, world, lock, retry, op, clock, torn, taken,
                   trimFails, crashes>>

CountBoot ==
    /\ pc = "boot_count"
    /\ IF op.trigger = "defaultreset"
       THEN /\ cfg' = [cfg EXCEPT !.boot_count = 1]
            /\ registered' = 0 /\ died' = 0
       ELSE /\ cfg' = [cfg EXCEPT !.boot_count = @ + 1]
            /\ UNCHANGED <<registered, died>>
    /\ pc' = "version"
    /\ UNCHANGED <<sections, world, lock, retry, op, clock, torn, taken,
                   trimFails, crashes>>

CountVersion ==
    /\ pc = "version"
    /\ cfg' = [cfg EXCEPT !.curr_version_boot_count =
                  IF op.trigger = "defaultreset" THEN 0 ELSE @ + 1]
    /\ torn' = IF op.trigger = "defaultreset" THEN 0 ELSE torn
    /\ pc' = "watchdog"
    /\ UNCHANGED <<sections, world, lock, retry, op, clock, registered, died,
                   taken, trimFails, crashes>>

CountWatchdog ==
    /\ pc = "watchdog"
    /\ cfg' = [cfg EXCEPT !.watchdog_boot_count =
                  IF HasWatchdog(op.reason) THEN @ + 1 ELSE @]
    /\ pc' = "cold_warm"
    /\ UNCHANGED <<sections, world, lock, retry, op, clock, hist>>

CountColdWarm ==
    /\ pc = "cold_warm"
    /\ IF op.reason = "POR_RESET"
       THEN cfg' = [cfg EXCEPT !.cold_boot_count = @ + 1]
       ELSE cfg' = [cfg EXCEPT !.warm_boot_count = @ + 1]
    /\ pc' = "trim"
    /\ UNCHANGED <<sections, world, lock, retry, op, clock, hist>>

-----------------------------------------------------------------------------
(***************************************************************************)
(* The list of reboot records                                              *)
(***************************************************************************)
\* Mutant: no room is made for the section created next.
TrimmedToLimit(max) ==
    LET toRemove == Len(sections) - Effective(max)
    IN  IF toRemove < 0 THEN sections
        ELSE SubSeq(sections, toRemove + 1, Len(sections))

\* Records the sections are left with by delete_excess_reboot_sections: one
\* more than the excess goes, to make room for the section created next.
Trimmed(max) ==
    LET toRemove == Len(sections) - Effective(max)
    IN  IF toRemove < 0 THEN sections
        ELSE SubSeq(sections, toRemove + 2, Len(sections))

\* max_reboot_entries = 0: the boot leaves no record, nor is the cause read.
RecordNothing ==
    /\ pc = "trim"
    /\ cfg.max_reboot_entries = 0
    /\ pc' = "lock"
    /\ UNCHANGED <<store, world, lock, retry, op, clock, hist>>

DeleteExcessRebootSections ==
    /\ pc = "trim"
    /\ cfg.max_reboot_entries # 0
    /\ sections' = Trimmed(cfg.max_reboot_entries)
    /\ trimFails' = 0
    /\ pc' = "create"
    /\ UNCHANGED <<cfg, world, lock, retry, op, clock, registered, died, torn,
                   taken, crashes>>

\* Mutant: a failed deletion ends the registration without a record.
DeleteExcessGivesUp ==
    /\ pc = "trim"
    /\ cfg.max_reboot_entries # 0
    /\ Len(sections) >= Effective(cfg.max_reboot_entries)
    /\ trimFails < MaxTrimFailures
    /\ trimFails' = trimFails + 1
    /\ pc' = "lock"
    /\ UNCHANGED <<store, world, lock, retry, op, clock, registered, died,
                   torn, taken, crashes>>

\* A delete or the commit fails: nothing is persisted, the record is created
\* all the same.
DeleteExcessFails ==
    /\ pc = "trim"
    /\ cfg.max_reboot_entries # 0
    /\ Len(sections) >= Effective(cfg.max_reboot_entries)
    /\ trimFails < MaxTrimFailures
    /\ trimFails' = trimFails + 1
    /\ pc' = "create"
    /\ UNCHANGED <<store, world, lock, retry, op, clock, registered, died,
                   torn, taken, crashes>>

Named(name) == {i \in DOMAIN sections : sections[i].name = name}

EmptySection(name) ==
    [name |-> name, time_stamp |-> 0, firmware_updated |-> Unset,
     cause |-> Unset, reason |-> Unset]

\* Mutant: the new section is put before the others.
CreateFirst(now) ==
    /\ pc = "create"
    /\ now = clock + 1 \/ "clock_lost" \in Disturbances
    /\ clock' = now
    /\ sections' = IF Named(now) # {} THEN sections
                   ELSE <<EmptySection(now)>> \o sections
    /\ op' = [op EXCEPT !.name = now]
    /\ taken' = FALSE
    /\ pc' = "time_stamp"
    /\ UNCHANGED <<cfg, world, lock, retry, registered, died, torn, trimFails,
                   crashes>>

\* The section is named after time(NULL), of which only the order and the
\* equality of two readings matter: the next one unless the clock was lost.
\* UCI reuses a section that already has that name, where it is and with the
\* options it has.
CreateRebootSection(now) ==
    /\ pc = "create"
    /\ now = clock + 1 \/ "clock_lost" \in Disturbances
    /\ clock' = now
    /\ sections' = IF Named(now) # {} THEN sections
                   ELSE Append(sections, EmptySection(now))
    /\ op' = [op EXCEPT !.name = now]
    /\ taken' = FALSE
    /\ pc' = "time_stamp"
    /\ UNCHANGED <<cfg, world, lock, retry, registered, died, torn, trimFails,
                   crashes>>

\* One option of the section named op.name; UCI sets no option of a section
\* that is not there.
Put(sec) == sections' = [i \in DOMAIN sections |->
                IF sections[i].name = op.name THEN sec[i] ELSE sections[i]]

\* The time the device booted, here the number of the boot.
SetTimeStamp ==
    /\ pc = "time_stamp"
    /\ Put([i \in DOMAIN sections |->
               [sections[i] EXCEPT !.time_stamp = boot.no]])
    /\ pc' = "firmware"
    /\ UNCHANGED <<cfg, world, lock, retry, op, clock, hist>>

SetFirmwareUpdated ==
    /\ pc = "firmware"
    /\ Put([i \in DOMAIN sections |->
               [sections[i] EXCEPT !.firmware_updated =
                   IF op.trigger = "upgrade" THEN "1" ELSE "0"]])
    /\ pc' = "cause"
    /\ UNCHANGED <<cfg, world, lock, retry, op, clock, hist>>

\* A factory reset names its own cause and leaves last_reboot_cause alone.
SetCause ==
    /\ pc = "cause"
    /\ Put([i \in DOMAIN sections |->
               [sections[i] EXCEPT !.cause =
                   CASE op.trigger = "defaultreset" -> "FactoryReset"
                     [] cfg.last_reboot_cause = Unset -> "LocalReboot"
                     [] OTHER -> cfg.last_reboot_cause]])
    /\ pc' = IF op.trigger = "defaultreset" THEN "reason" ELSE "clear"
    /\ UNCHANGED <<cfg, world, lock, retry, op, clock, hist>>

\* UCI deletes an option set to the empty string.
ClearCause ==
    /\ pc = "clear"
    /\ cfg' = [cfg EXCEPT !.last_reboot_cause = Unset]
    /\ pc' = "reason"
    /\ UNCHANGED <<sections, world, lock, retry, op, clock, hist>>

SetReason ==
    /\ pc = "reason"
    /\ Put([i \in DOMAIN sections |->
               [sections[i] EXCEPT !.reason =
                   BootReasonMessage(op.trigger, op.reason)]])
    /\ pc' = "lock"
    /\ UNCHANGED <<cfg, world, lock, retry, op, clock, hist>>

CreateLockFile ==
    /\ pc = "lock"
    /\ lock' = TRUE
    /\ registered' = registered + 1
    /\ pc' = "done"
    /\ op' = NoOp
    /\ served' = TRUE
    /\ UNCHANGED <<store, file, exec, boot, retry, clock, died, torn, taken,
                   trimFails, crashes>>

Register ==
    \/ CountBoot \/ CountVersion \/ CountWatchdog \/ CountColdWarm
    \/ RecordNothing \/ DeleteExcessRebootSections \/ DeleteExcessFails
    \/ \E now \in 1..MaxTime \cup {clock + 1} : CreateRebootSection(now)
    \/ SetTimeStamp \/ SetFirmwareUpdated \/ SetCause \/ ClearCause
    \/ SetReason \/ CreateLockFile

-----------------------------------------------------------------------------
(***************************************************************************)
(* Device.DeviceInfo.Reboots.: a setter, served by the same event loop,    *)
(* and two asynchronous commands, each in a process of its own that the    *)
(* loop has forked and that deletes whenever it gets to it, be it after    *)
(* the daemon has died or while it registers the boot                      *)
(***************************************************************************)
SetMaxRebootEntries(max) ==
    /\ pc \in Idle
    /\ sections' =
          IF max = 0 THEN <<>>
          ELSE LET toDelete == Len(sections) - Effective(max)
               IN  IF toDelete > 0
                   THEN SubSeq(sections, toDelete + 1, Len(sections))
                   ELSE sections
    /\ cfg' = [cfg EXCEPT !.max_reboot_entries = max]
    /\ trimFails' = 0
    /\ UNCHANGED <<world, lock, pc, retry, op, clock, registered, died, torn,
                   taken, crashes>>

RemoveAllReboots ==
    /\ served
    /\ sections # <<>>
    /\ sections' = <<>>
    /\ taken' = (taken \/ Named(op.name) # {})
    /\ UNCHANGED <<cfg, world, lock, pc, retry, op, clock, registered, died,
                   torn, trimFails, crashes>>

RemoveReboot(i) ==
    /\ served
    /\ sections' = SubSeq(sections, 1, i - 1)
                     \o SubSeq(sections, i + 1, Len(sections))
    /\ taken' = (taken \/ sections[i].name = op.name)
    /\ UNCHANGED <<cfg, world, lock, pc, retry, op, clock, registered, died,
                   torn, trimFails, crashes>>

-----------------------------------------------------------------------------
(***************************************************************************)
(* _exec_reboot: the child forked by Activate() and AutoActivate            *)
(***************************************************************************)
ExecReboot ==
    /\ exec = "none"
    /\ \/ "remote" \in Disturbances /\ pc = "done"
       \/ "early" \in Disturbances /\ pc = "wait"
    /\ exec' = "forked"
    /\ UNCHANGED <<store, lock, file, pc, retry, op, served, clock, boot, hist>>

\* The child gets to run: it commits the cause, wherever the daemon is by then,
\* sleeps, and calls the reboot.
ExecRebootCommits ==
    /\ exec = "forked"
    /\ cfg' = [cfg EXCEPT !.last_reboot_cause = "RemoteReboot"]
    /\ exec' = "waiting"
    /\ UNCHANGED <<sections, lock, file, pc, retry, op, served, clock, boot,
                   hist>>

\* Mutant: the cause is not taken back when the reboot has failed.
CauseLeftBehind ==
    /\ exec = "waiting"
    /\ exec' = "none"
    /\ UNCHANGED <<store, lock, file, pc, retry, op, served, clock, boot, hist>>

\* Both reboot calls are over and the device still runs: the child takes the
\* cause back.  With "slow" the reboot is merely late.
ExecRebootFails ==
    /\ exec = "waiting"
    /\ cfg' = [cfg EXCEPT !.last_reboot_cause = Unset]
    /\ \/ exec' = "none"
       \/ "slow" \in Disturbances /\ exec' = "late"
    /\ UNCHANGED <<sections, lock, file, pc, retry, op, served, clock, boot,
                   hist>>

-----------------------------------------------------------------------------
(***************************************************************************)
(* The environment                                                         *)
(***************************************************************************)
\* The boot scripts publish the cause of this boot; nothing says when, if at
\* all, and the reason line may be missing.
WriteResetReason ==
    /\ ~file.exists
    /\ file' = [exists |-> TRUE, trigger |-> boot.trigger,
                reason |-> boot.reason]
    /\ UNCHANGED <<store, lock, pc, retry, op, exec, served, clock, boot, hist>>

\* What is lost of a registration that does not reach its lock file.
Abandon ==
    /\ died' = died + (IF pc \in Registering \ {"boot_count"} THEN 1 ELSE 0)
    /\ torn' = IF pc = "version" /\ op.trigger = "defaultreset"
               THEN 1 ELSE torn

\* The process dies and is respawned by Start; files and children survive.
Crash ==
    /\ pc # "down"
    /\ crashes < MaxCrashes
    /\ crashes' = crashes + 1
    /\ Abandon
    /\ pc' = "down"
    /\ retry' = 0
    /\ op' = NoOp
    /\ UNCHANGED <<store, world, lock, clock, registered, taken, trimFails>>

\* The device goes down and comes up: /tmp and /var are gone.  A factory
\* reset may also wipe the configuration.
Reboot(trigger, reason) ==
    /\ boot.no < MaxBoots
    /\ lock \/ "power_cut" \in Disturbances
    /\ boot' = [no |-> boot.no + 1, trigger |-> trigger, reason |-> reason,
                remotes |-> boot.remotes \cup
                   (IF exec \in {"none", "forked"} THEN {} ELSE {boot.no + 1})]
    /\ \/ Abandon
          /\ UNCHANGED <<store, registered, trimFails>>
       \/ /\ trigger = "defaultreset"
          /\ cfg' = FreshCfg
          /\ sections' = <<>>
          /\ registered' = 0 /\ died' = 0 /\ torn' = 0 /\ trimFails' = 0
    /\ lock' = FALSE
    /\ file' = NoFile
    /\ pc' = "down"
    /\ retry' = 0
    /\ op' = NoOp
    /\ exec' = "none"
    /\ served' = FALSE
    /\ UNCHANGED <<clock, taken, crashes>>

Daemon == Start \/ RebootCheckTimer \/ SkipRegistered \/ WaitForReason
            \/ RegisterBootAction \/ Register

Controller ==
    \/ \E max \in EntryValues : SetMaxRebootEntries(max)
    \/ RemoveAllReboots
    \/ \E i \in DOMAIN sections : RemoveReboot(i)
    \/ ExecReboot

Next ==
    \/ Daemon
    \/ Controller
    \/ ExecRebootCommits
    \/ ExecRebootFails
    \/ WriteResetReason
    \/ Crash
    \/ \E t \in Triggers, r \in Reasons : Reboot(t, r)

Spec == Init /\ [][Next]_vars

\* The daemon is respawned, runs, and its timer fires; nothing else must.
FairSpec == Spec /\ WF_vars(Daemon)

-----------------------------------------------------------------------------
(***************************************************************************)
(* Properties                                                              *)
(***************************************************************************)
Causes == {Unset, "LocalReboot", "RemoteReboot", "FactoryReset"}
Messages == {BootReasonMessage(t, r) : t \in Triggers, r \in Reasons}

Cfg == [boot_count : Nat, curr_version_boot_count : Nat,
        watchdog_boot_count : Nat, cold_boot_count : Nat,
        warm_boot_count : Nat, last_reboot_cause : {Unset, "RemoteReboot"},
        max_reboot_entries : EntryValues \cup {DefaultEntries}]

Section == [name : Nat, time_stamp : Nat,
            firmware_updated : {Unset, "0", "1"}, cause : Causes,
            reason : Messages \cup {Unset}]

\* The types of the configuration, of the locals of reboots.c and of the
\* ghosts; g_retry_count never passes its limit (reboots.c:268).
TypeOK ==
    /\ cfg \in Cfg
    /\ sections \in Seq(Section)
    /\ lock \in BOOLEAN
    /\ file \in [exists : BOOLEAN, trigger : Triggers, reason : Reasons]
    /\ pc \in {"down", "init"} \cup Idle \cup Registering
    /\ retry \in 0..REBOOT_MAX_RETRIES
    /\ op \in [trigger : Triggers, reason : Reasons, name : Nat]
    /\ exec \in {"none", "forked", "waiting", "late"}
    /\ served \in BOOLEAN
    /\ clock \in Nat
    /\ boot \in [no : Nat, trigger : Triggers, reason : Reasons,
                 remotes : SUBSET Nat]
    /\ registered \in Nat /\ died \in Nat /\ torn \in {0, 1}
    /\ taken \in BOOLEAN /\ trimFails \in Nat /\ crashes \in Nat

\* The list of records never outgrows max_reboot_entries by more than the
\* deletions that failed since the last one that worked: the "+ 1" of
\* delete_excess_reboot_sections makes room for the record of this boot, and
\* lowering MaxRebootEntries deletes down to the new limit.
Limit == IF cfg.max_reboot_entries = 0 THEN 0
         ELSE Effective(cfg.max_reboot_entries)

SectionsBounded == Len(sections) <= Limit + trimFails

\* BootCount is the number of boots registered since the last factory reset,
\* plus one for every registration that died after it had counted: never a
\* boot twice without a death, never a boot not at all.
CountedThisBoot == IF pc \in Registering \ {"boot_count"} THEN 1 ELSE 0

BootsCountedOnce ==
    cfg.boot_count = registered + died + CountedThisBoot

\* CurrentVersionBootCount cannot exceed BootCount, unless a factory reset
\* was registered halfway: boot_count is committed first (reboots.c:196-202),
\* so only the order of the two increments keeps this across a crash.
VersionWithinBoot ==
    \/ cfg.curr_version_boot_count <= cfg.boot_count
    \/ torn = 1
    \/ pc = "version" /\ op.trigger = "defaultreset"

\* Once the lock file exists the counters do not move until the next boot,
\* however often the daemon is restarted and whatever /var/reset_reason says.
CountersOf(c) == <<c.boot_count, c.curr_version_boot_count,
                   c.watchdog_boot_count, c.cold_boot_count,
                   c.warm_boot_count>>

NeverRecounted ==
    [][lock /\ lock' => CountersOf(cfg') = CountersOf(cfg)]_vars

\* The records are in the order of the boots they describe, so that deleting
\* the first ones deletes the oldest; it needs a clock that survives a boot.
OldestFirst ==
    \A i, j \in DOMAIN sections :
        i < j /\ sections[j].time_stamp # 0
            => sections[i].time_stamp <= sections[j].time_stamp

\* When a boot is registered and records are wanted, a finished record of
\* this boot is in the list and it is the newest; unless a command, which may
\* run between any two of the commits, has taken that very record away, and
\* then no part of it is left (reboots.c:155-180, 429-443).
Finished(s) == Unset \notin {s.firmware_updated, s.cause, s.reason}

RegisteredBootHasRecord ==
    [][~lock /\ lock' /\ cfg.max_reboot_entries # 0 =>
          IF taken THEN Named(op.name) = {}
          ELSE /\ sections' # <<>>
               /\ LET last == sections'[Len(sections')]
                  IN  last.time_stamp = boot.no /\ Finished(last)]_vars

\* No record claims a remote reboot of a boot that was not one, and unless the
\* daemon has died every finished record of a remote reboot says so, but that
\* of a factory reset: "Set last_reboot_cause to 'RemoteReboot' because the
\* upcoming reboot will be initiated by USP Operate" (fw_images.c:138).
ClaimsHold ==
    \A i \in DOMAIN sections :
        sections[i].cause = "RemoteReboot"
            => sections[i].time_stamp \in boot.remotes

RemotesTold ==
    \A i \in DOMAIN sections :
        LET s == sections[i]
        IN  Finished(s) /\ s.cause # "FactoryReset"
                /\ s.time_stamp \in boot.remotes => s.cause = "RemoteReboot"

CauseHonest == ClaimsHold /\ (crashes = 0 => RemotesTold)

\* Every boot is registered, with or without a reset reason file, unless the
\* device goes down first: the retries end and a respawned daemon resumes.
EventuallyRegistered ==
    \A n \in 1..MaxBoots : boot.no = n ~> lock \/ boot.no > n

=============================================================================
