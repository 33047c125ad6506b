----------------------------- MODULE Activation -----------------------------
(***************************************************************************)
(* The bank to boot from: BootFirmwareImage, Available and Activate() of   *)
(* src/src/fw_images.c, and the handler script that cron runs for each     *)
(* time window (files/usr/share/bbfdm/scripts/bbf_activate_handler.sh).    *)
(*                                                                         *)
(* Activate() with time windows appends one line per window to the         *)
(* crontab, from which nothing is ever removed.  The script knows nothing  *)
(* of the other windows: it checks whether the device is idle, sleeps,     *)
(* checks again, and in the end of the last window forces the activation.  *)
(* The data model changes the boot bank through a task of fwbank.c, behind *)
(* its caller's back, and reads it from a dump that may be older.          *)
(*                                                                         *)
(* Time is counted in ticks, MINUTE of them to a minute.  Windows and the  *)
(* script's sleep are ticks, the crontab and cron know minutes only.  A    *)
(* step of the script takes no tick, only its sleep does.                  *)
(***************************************************************************)
EXTENDS Integers, Sequences, SequencesExt

CONSTANTS
    Banks,            \* the firmware banks
    InitialBank,      \* the one the device runs from at first
    MINUTE,           \* ticks of a minute
    RETRY_TIME,       \* of the script, in ticks
    MAX_TIME_WINDOW,  \* windows of one Activate()
    Menu,             \* sequences of windows that will be asked for
    Disturbances,     \* what may go wrong, see below
    MaxLines,         \* bound: lines of the crontab
    MaxRequests,      \* bound: calls of clients
    MaxTime           \* bound: ticks

(***************************************************************************)
(* "fails":     a call of the fwbank script, or of the reboot, may fail    *)
(* "slow_cron": cron may take longer than a tick to restart                *)
(* "slow_idle": the idle test may take longer than a tick                  *)
(* "impatient": clients do not wait for the dump to show what they did,    *)
(*              nor a reboot for a change of the boot bank                 *)
(* "power_cut": the device may lose power                                  *)
(***************************************************************************)
Modes == {"AnyTime", "Immediately", "WhenIdle", "ConfirmationNeeded"}
Window == [start : Nat, end : Nat, mode : Modes]

ASSUME ActivationAssumption ==
    /\ InitialBank \in Banks
    /\ MINUTE \in Nat \ {0} /\ RETRY_TIME \in Nat \ {0}
    /\ MAX_TIME_WINDOW \in Nat \ {0}
    /\ Menu \subseteq Seq(Window)
    /\ Disturbances \subseteq {"fails", "slow_cron", "slow_idle", "impatient",
                               "power_cut"}
    /\ MaxLines \in Nat /\ MaxRequests \in Nat /\ MaxTime \in Nat

VARIABLES
    now,        \* the clock
    boot,       \* the bank the device will boot from
    active,     \* the bank it runs from
    shown,      \* boot and active bank in the cached dump
    setters,    \* banks that tasks of the daemon are about to make boot bank
    available,  \* "available" of each bank in dmmap
    keepConfig, \* sysmngr.globals.keep_config
    count,      \* lines of the crontab
    line,       \* the lines
    loaded,     \* lines cron knows of
    pc,         \* where the handler of each line is
    wake,       \* when its sleep is over
    diff,       \* $diff: time since its start, when last looked at
    keepArg,    \* ${keep_config} of activate_and_reboot_device
    asked,      \* a reboot was asked for
    byActivate, \* ghost: the boot bank was chosen by Activate()
    requests    \* calls of clients

script == <<pc, wake, diff, keepArg>>
cron == <<count, line, loaded>>
vars == <<now, boot, active, shown, setters, available, keepConfig,
          cron, script, asked, byActivate, requests>>

Slots == 1..MaxLines
\* A line, and of which Activate() it is, when that was and the start asked
\* for (ghosts).
Line == [call : Nat, at : Nat, start : Nat, due : Nat, mode : Modes,
         bank : Banks, span : Nat, force : BOOLEAN, keep : BOOLEAN]
NoLine(b) == [call |-> 0, at |-> 0, start |-> 0, due |-> 0,
              mode |-> "AnyTime", bank |-> b, span |-> 0, force |-> FALSE,
              keep |-> FALSE]
Dump == [boot : Banks, active : Banks]

Init ==
    /\ now = 0
    /\ boot = InitialBank /\ active = InitialBank
    /\ shown = [boot |-> boot, active |-> active]
    /\ setters = {}
    /\ available = [b \in Banks |-> TRUE]
    /\ keepConfig = TRUE
    /\ count = 0 /\ loaded = 0
    /\ line = [i \in Slots |-> NoLine(boot)]
    /\ pc = [i \in Slots |-> "free"]
    /\ wake = [i \in Slots |-> 0]
    /\ diff = [i \in Slots |-> 0]
    /\ keepArg = [i \in Slots |-> FALSE]
    /\ asked = FALSE
    /\ byActivate = FALSE
    /\ requests = 0

-----------------------------------------------------------------------------
(***************************************************************************)
(* The data model                                                          *)
(***************************************************************************)
DumpFresh == shown = [boot |-> boot, active |-> active]

Client ==
    /\ ~asked
    /\ requests < MaxRequests
    /\ requests' = requests + 1
    /\ "impatient" \in Disturbances \/ (setters = {} /\ DumpFresh)

\* Mutant: an image that is not available is taken as well.
SetUnavailable(b) ==
    /\ Client
    /\ setters' = setters \cup {[bank |-> b, activate |-> FALSE]}
    /\ UNCHANGED <<now, boot, active, shown, available, keepConfig, cron,
                   script, asked, byActivate>>

\* set_device_boot_fwimage: a missing flag reads as available.
SetBootFirmwareImage(b) ==
    /\ Client
    /\ available[b]
    /\ setters' = setters \cup {[bank |-> b, activate |-> FALSE]}
    /\ UNCHANGED <<now, boot, active, shown, available, keepConfig, cron,
                   script, asked, byActivate>>

\* set_DeviceInfoFirmwareImage_Available
SetAvailable(b, value) ==
    /\ Client
    /\ value \/ b \notin {shown.boot, shown.active}
    /\ available' = [available EXCEPT ![b] = value]
    /\ UNCHANGED <<now, boot, active, shown, setters, keepConfig, cron,
                   script, asked, byActivate>>

\* set_deviceinfo_keep_config
SetKeepConfig(value) ==
    /\ Client
    /\ keepConfig' = value
    /\ UNCHANGED <<now, boot, active, shown, setters, available, cron, script,
                   asked, byActivate>>

\* Activate() without windows: the child that reboots is Reboots!ExecReboot.
ActivateNow(b) ==
    /\ Client
    /\ setters' = setters \cup {[bank |-> b, activate |-> TRUE]}
    /\ asked' = TRUE
    /\ UNCHANGED <<now, boot, active, shown, available, keepConfig, cron,
                   script, byActivate>>

-----------------------------------------------------------------------------
(***************************************************************************)
(* Activate() with time windows                                            *)
(***************************************************************************)
\* Mutant: windows are compared with themselves only.
EachValid(windows) ==
    \A i \in DOMAIN windows : windows[i].start <= windows[i].end

\* What is refused with USP_FAULT_INVALID_ARGUMENT is not Valid.
Valid(windows) ==
    /\ \A i \in DOMAIN windows : windows[i].start <= windows[i].end
    /\ \A i \in DOMAIN windows \ {1} : windows[i - 1].end <= windows[i].start

\* The windows that are read: those after MAX_TIME_WINDOW are ignored.
Taken(windows) ==
    SubSeq(windows, 1, IF Len(windows) < MAX_TIME_WINDOW THEN Len(windows)
                       ELSE MAX_TIME_WINDOW)

\* A job is asked for one minute from now at the earliest, and the line says
\* the minute it is in: the seconds of localtime() are dropped.
Postponed(start) == IF start > MINUTE THEN start ELSE MINUTE
Due(start) == ((now + Postponed(start)) \div MINUTE) * MINUTE

LineOf(windows, i, b) ==
    [call |-> count, at |-> now, start |-> windows[i].start,
     due |-> Due(windows[i].start), mode |-> windows[i].mode, bank |-> b,
     span |-> windows[i].end - windows[i].start,
     force |-> (i = Len(windows)), keep |-> keepConfig]

ActivateLater(b, asks) ==
    LET windows == Taken(asks)
        added == count + 1 .. count + Len(windows)
    IN  /\ Client
        /\ windows # <<>> /\ Valid(windows)
        /\ count + Len(windows) <= MaxLines
        /\ \A w \in ToSet(windows) : Due(w.start) + w.end - w.start < MaxTime
        /\ count' = count + Len(windows)
        /\ line' = [i \in Slots |->
              IF i \in added THEN LineOf(windows, i - count, b) ELSE line[i]]
        /\ pc' = [i \in Slots |-> IF i \in added THEN "scheduled" ELSE pc[i]]
        /\ UNCHANGED <<now, boot, active, shown, setters, available, keepConfig,
                       loaded, wake, diff, keepArg, asked, byActivate>>

\* Cron runs the jobs of minutes that begin while it runs.
Late(i, time) == pc[i] = "scheduled" /\ line[i].due <= time

\* "/etc/init.d/cron restart", which nobody waits for.
CronRestart ==
    /\ loaded < count
    /\ loaded' = count
    /\ pc' = [i \in Slots |->
          IF i > loaded /\ Late(i, now) THEN "missed" ELSE pc[i]]
    /\ UNCHANGED <<now, boot, active, shown, setters, available, keepConfig,
                   count, line, wake, diff, keepArg, asked, byActivate,
                   requests>>

-----------------------------------------------------------------------------
(***************************************************************************)
(* The handler script                                                      *)
(***************************************************************************)
Goto(i, place) == pc' = [pc EXCEPT ![i] = place]
Here == <<now, active, available, keepConfig, cron, requests>>
Checking == UNCHANGED <<Here, boot, shown, setters, asked, byActivate>>

\* activate_and_reboot_device "${bank_id}" "${keep_config}"
Activate(i, keep) ==
    /\ Goto(i, "activate")
    /\ keepArg' = [keepArg EXCEPT ![i] = keep]
    /\ UNCHANGED <<wake, diff>>

\* Lines that cron runs now.
Fires(i) == i <= loaded /\ pc[i] = "scheduled" /\ line[i].due = now

CronRuns(i) ==
    /\ Fires(i)
    /\ CASE line[i].mode \in {"AnyTime", "Immediately"} ->
              Activate(i, line[i].keep)
         [] line[i].mode = "WhenIdle" ->
              Goto(i, "first") /\ UNCHANGED <<wake, diff, keepArg>>
         [] line[i].mode = "ConfirmationNeeded" ->
              Goto(i, "ended") /\ UNCHANGED <<wake, diff, keepArg>>
    /\ Checking

\* The device is busy: sleep if the window lasts longer than that.
Doze(i, elapsed, otherwise) ==
    /\ IF line[i].span > elapsed + RETRY_TIME
       THEN /\ Goto(i, "asleep")
            /\ wake' = [wake EXCEPT ![i] = now + RETRY_TIME]
       ELSE Goto(i, otherwise) /\ UNCHANGED wake
    /\ UNCHANGED <<diff, keepArg>>

\* handle_whenidle_mode before its loop: an idle device, or one without the
\* idle script, is activated at once, with no ${keep_config}.
FirstCheck(i) ==
    /\ pc[i] = "first"
    /\ Activate(i, FALSE) \/ Doze(i, 0, "measure")
    /\ Checking

\* Mutant: the difference is taken the other way round.
MeasureBackwards(i) ==
    /\ pc[i] = "measure" \/ (pc[i] = "asleep" /\ wake[i] <= now)
    /\ diff' = [diff EXCEPT ![i] = line[i].due - now]
    /\ Goto(i, "loop")
    /\ UNCHANGED <<wake, keepArg>>
    /\ Checking

\* diff=$(($(date +%s) - START_TIME))
Measure(i) ==
    /\ pc[i] = "measure" \/ (pc[i] = "asleep" /\ wake[i] <= now)
    /\ diff' = [diff EXCEPT ![i] = now - line[i].due]
    /\ Goto(i, "loop")
    /\ UNCHANGED <<wake, keepArg>>
    /\ Checking

\* Mutant: a device that is busy to the end of the window ends the script.
LoopGivesUp(i) ==
    /\ pc[i] = "loop"
    /\ IF line[i].span > diff[i]
       THEN Activate(i, FALSE) \/ Doze(i, diff[i], "ended")
       ELSE Goto(i, "ended") /\ UNCHANGED <<wake, diff, keepArg>>
    /\ Checking

\* while [ "${end_time}" -gt "${diff}" ]
Loop(i) ==
    /\ pc[i] = "loop"
    /\ IF line[i].span > diff[i]
       THEN Activate(i, FALSE) \/ Doze(i, diff[i], "force")
       ELSE Goto(i, "force") /\ UNCHANGED <<wake, diff, keepArg>>
    /\ Checking

\* Mutant: every window is forced in the end.
ForceAlways(i) ==
    /\ pc[i] = "force"
    /\ Activate(i, line[i].keep)
    /\ Checking

\* [ "${force_activation}" = "1" ]
LastResort(i) ==
    /\ pc[i] = "force"
    /\ IF line[i].force THEN Activate(i, line[i].keep)
       ELSE Goto(i, "ended") /\ UNCHANGED <<wake, diff, keepArg>>
    /\ Checking

\* The script waits for the answer of set_bootbank.
SetBootbank(i) ==
    /\ pc[i] = "activate"
    /\ \/ /\ boot' = line[i].bank /\ byActivate' = TRUE
          /\ Goto(i, IF keepArg[i] THEN "copy" ELSE "reboot")
       \/ /\ "fails" \in Disturbances
          /\ Goto(i, "ended") /\ UNCHANGED <<boot, byActivate>>
    /\ UNCHANGED <<Here, shown, setters, asked, wake, diff, keepArg>>

\* A configuration that cannot be copied ends the script, the boot bank stays.
CopyConfig(i) ==
    /\ pc[i] = "copy"
    /\ Goto(i, "reboot") \/ ("fails" \in Disturbances /\ Goto(i, "ended"))
    /\ UNCHANGED <<Here, boot, shown, setters, asked, byActivate, wake, diff,
                   keepArg>>

AskReboot(i) ==
    /\ pc[i] = "reboot"
    /\ asked' = TRUE \/ ("fails" \in Disturbances /\ UNCHANGED asked)
    /\ Goto(i, "ended")
    /\ UNCHANGED <<Here, boot, shown, setters, byActivate, wake, diff,
                   keepArg>>

-----------------------------------------------------------------------------
(***************************************************************************)
(* The daemon's tasks, time and reboots                                    *)
(***************************************************************************)
\* A task of the daemon ends: FwBank!Script and its finish callback.
SetterEnds(s) ==
    /\ s \in setters
    /\ setters' = setters \ {s}
    /\ \/ boot' = s.bank /\ byActivate' = s.activate
       \/ "fails" \in Disturbances /\ UNCHANGED <<boot, byActivate>>
    /\ UNCHANGED <<Here, shown, script, asked>>

\* The refreshed dump arrives: FwBank!FreshWhenQuiet.
Refresh ==
    /\ ~DumpFresh
    /\ shown' = [boot |-> boot, active |-> active]
    /\ UNCHANGED <<Here, boot, setters, script, asked, byActivate>>

\* Places of the script that it leaves in the same tick.
Checks == {"first", "measure", "loop"}
Busy(i) ==
    \/ pc[i] \in {"force", "activate", "copy", "reboot"}
    \/ pc[i] \in Checks /\ "slow_idle" \notin Disturbances
    \/ pc[i] = "asleep" /\ wake[i] <= now

Tick ==
    /\ now < MaxTime
    /\ ~asked
    /\ loaded = count \/ "slow_cron" \in Disturbances
    /\ \A i \in Slots : ~Busy(i) /\ ~Fires(i)
    /\ now' = now + 1
    /\ UNCHANGED <<boot, active, shown, setters, available, keepConfig,
                   cron, script, asked, byActivate, requests>>

Live == {"first", "measure", "loop", "asleep", "force", "activate", "copy",
         "reboot"}

\* The device starts again: handlers and tasks are gone, /etc stays, and cron
\* runs nothing of the one or two minutes in between.
Restart ==
    /\ active' = boot
    /\ shown' = [boot |-> boot, active |-> boot]
    /\ setters' = {}
    /\ asked' = FALSE
    /\ loaded' = count
    /\ \E ticks \in 1 .. 2 * MINUTE :
          now' = IF now + ticks > MaxTime THEN MaxTime ELSE now + ticks
    /\ pc' = [i \in Slots |->
          IF pc[i] \in Live THEN "killed"
          ELSE IF Late(i, now') THEN "missed"
          ELSE pc[i]]
    /\ UNCHANGED <<boot, available, keepConfig, count, line, wake, diff,
                   keepArg, byActivate, requests>>

Reboot ==
    /\ asked
    /\ setters = {} \/ "impatient" \in Disturbances
    /\ Restart

PowerCut == "power_cut" \in Disturbances /\ now < MaxTime /\ Restart

Handler(i) ==
    \/ CronRuns(i) \/ FirstCheck(i) \/ Measure(i) \/ Loop(i) \/ LastResort(i)
    \/ SetBootbank(i) \/ CopyConfig(i) \/ AskReboot(i)

Next ==
    \/ \E b \in Banks :
          \/ SetBootFirmwareImage(b) \/ ActivateNow(b)
          \/ \E value \in BOOLEAN : SetAvailable(b, value)
          \/ \E windows \in Menu : ActivateLater(b, windows)
    \/ \E value \in BOOLEAN : SetKeepConfig(value)
    \/ CronRestart
    \/ \E i \in Slots : Handler(i)
    \/ \E s \in setters : SetterEnds(s)
    \/ Refresh \/ Tick \/ Reboot \/ PowerCut

Spec == Init /\ [][Next]_vars

\* Time goes on, and what was started runs.
FairSpec ==
    /\ Spec
    /\ WF_vars(CronRestart) /\ WF_vars(Tick) /\ WF_vars(Reboot)
    /\ \A i \in Slots : WF_vars(Handler(i))
    /\ WF_vars(\E s \in setters : SetterEnds(s))

-----------------------------------------------------------------------------
(***************************************************************************)
(* Properties                                                              *)
(***************************************************************************)
\* The types of the banks, of the crontab and of the script's variables.
TypeOK ==
    /\ now \in 0..MaxTime
    /\ boot \in Banks /\ active \in Banks /\ shown \in Dump
    /\ setters \subseteq [bank : Banks, activate : BOOLEAN]
    /\ available \in [Banks -> BOOLEAN]
    /\ keepConfig \in BOOLEAN
    /\ count \in 0..MaxLines /\ loaded \in 0..count
    /\ line \in [Slots -> Line]
    /\ pc \in [Slots -> Live \cup {"free", "scheduled", "ended", "killed",
                                   "missed"}]
    /\ wake \in [Slots -> Nat]
    /\ diff \in [Slots -> Nat]
    /\ keepArg \in [Slots -> BOOLEAN]
    /\ asked \in BOOLEAN /\ byActivate \in BOOLEAN
    /\ requests \in 0..MaxRequests

\* The script decides to activate less than a minute before its window begins
\* and never after its end, the window counted from the request and put off to
\* the next minute if cron could not start it sooner (fw_images.c:675-684),
\* however often it sleeps; and it forces the activation only in the last
\* window and only when another sleep would not fit in
\* (bbf_activate_handler.sh:59-85).
Opens(i) == line[i].at + Postponed(line[i].start)
WindowEnd(i) == line[i].due + line[i].span
Decides(i) == pc[i] # "activate" /\ pc'[i] = "activate"

ActivatesInWindow ==
    [][\A i \in Slots : Decides(i) =>
          /\ Opens(i) < now + MINUTE
          /\ now <= Opens(i) + line[i].span
          /\ pc[i] = "force" =>
                line[i].force /\ WindowEnd(i) <= now + RETRY_TIME]_vars

\* Violated: nothing is activated before its window begins, "the required
\* firmware image will be immediately activated at start time"
\* (docs/guide/libbbfdm_DeviceInfo_FirmwareImage.md:72).
NotBeforeStart ==
    [][\A i \in Slots : Decides(i) => line[i].at + line[i].start <= now]_vars

\* Windows of one Activate() that overlap are refused (fw_images.c:653-657),
\* but on the device their handlers may be at work together: for less than a
\* minute, by which the crontab may start the later one early, and for as long
\* as the earlier one was put off because it started too soon for cron
\* (fw_images.c:675-684).
OneAtATime ==
    \A i, j \in Slots :
        (/\ i < j /\ line[i].call = line[j].call
         /\ pc[i] \in Live /\ pc[j] \in Live)
        => now < line[j].due + MINUTE
                 + Postponed(line[i].start) - line[i].start

\* An image that is not available is never the one to boot from, unless by
\* Activate(), which does not look at the flag (fw_images.c:397, 498).
BootIsAvailable == available[boot] \/ byActivate

\* The last window of an Activate() ends in an attempt to activate the image,
\* idle or not (fw_images.c:691, bbf_activate_handler.sh:83), unless the device
\* restarted in it, or cron was not running at its start because of a restart
\* of the device or of its own.  The guide says both: note 4 that the latest
\* window forces the device, note 6 that nothing is activated
\* (docs/guide/libbbfdm_DeviceInfo_FirmwareImage.md:89, 93).
Scheduled(i) ==
    pc[i] = "scheduled" /\ line[i].force /\ line[i].mode # "ConfirmationNeeded"

LastWindowActivates ==
    \A i \in Slots : Scheduled(i) ~> pc[i] \in {"activate", "killed", "missed"}

=============================================================================
