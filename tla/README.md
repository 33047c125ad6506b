# A verification model of sysmngr

`sysmngr` is the daemon behind the `Device.DeviceInfo.` subtree of an iopsys
device: it registers reboots, runs the firmware bank script, watches memory and
CPU, and serves all that to `bbfdm` over ubus. This directory holds TLA+
modules translated from `src/src/*.c`, TLC configurations that check them on
small instances, and proofs checked by TLAPS. File names below are relative to
`src/src/` of the repository.

Checking a run: `tlc -config MCReboots_records.cfg MCReboots`. Checking proofs:
`tlapm RebootsProofs.tla`. `PROJECT.json` lists every run with its properties,
the lines of C each definition stands for, a mutant that breaks each property,
the hazards of the code and the disagreements found.

## The system

One process, one `uloop` event loop. Every handler, timer and event callback
runs to completion; nothing in the process is preempted. What makes it hard is
everything around the loop: forked children, scripts that outlive them, UCI
files that are committed option by option, a daemon that procd restarts, a
device that loses power, and controllers that change the configuration in
between.

| component | state | operations | hard behaviour |
|---|---|---|---|
| boot registration (`reboots.c`) | counters and list of records in UCI, lock file in `/tmp`, retry counter | registration once per boot; setters and `RemoveAllReboots`, `Remove` | a death between any two commits; reset reason file that comes late or never; a cause left by another process |
| firmware banks (`fwbank.c`) | cached dump, retry counter, forked tasks with pipe and timer, deferred requests, registration for `sysupgrade` | `dump`, `set_bootbank`, `upgrade`, `listen` timer, retry timer | overlapping tasks, inherited pipe ends, a blocking `read`, events before registration |
| firmware image operations (`fw_images.c`) | temporary file and wait of each `Download`, `available` flags, `keep_config`, boot bank, crontab | `Download`, `Activate`, setters | downloads of which each receives the events of all; a cached dump; a child process that writes UCI; windows |
| memory monitor (`memory.c`) | thresholds, stamps in UCI and in memory, timer | poll, reload, setters | stamps as the only record of the state; wall clock; crash between stamp and event |
| CPU monitor (`processes.c`) | the same, and four rings of samples | poll, reload, setters | ring boundary, resize by reload |
| process list (`processes.c`) | list, number the events are relative to, timer, asynchronous request | refresh, browse | failed scans, an answer that may not come |
| main loop (`sysmngr.c`) | none of its own | start, `sysmngr.reload` | a reload in any state |
| vendor configuration (`configs.c`) | files, numbered dmmap sections, two fixed paths in `/tmp` | walk through the list, `Backup`, `Restore` | commands in processes of their own that share a path; failure of any check |
| activation script (`bbf_activate_handler.sh`) | start, elapsed time | one run per window and mode: idle test, sleep, forced activation | windows that know nothing of each other; the end of the window between two sleeps; restarts |
| others (`deviceinfo.c`, `network.c`, `temperature.c`, `supported_dm.c`) | none | getters | none |

They interact through UCI (every component), through `last_reboot_cause` (the
`Reboot`/`Activate` child writes it, the next boot registration consumes it),
through the cached dump (`fw_images.c` reads what `fwbank.c` refreshes),
through the `sysupgrade` event (which the daemon and every waiting `Download`
receive), through the crontab (`Activate` writes it, cron starts the script),
and through the `sysmngr.reload` event (which restarts both monitors, and
nothing else).

What makes each correct: a boot is counted once and leaves one honest record;
a deferred ubus request is answered exactly once and the cached dump ends up
showing the banks; a critical state is announced once and its end is noticed;
the average is that of the latest samples; bbfdm's instances are those of the
table; a transfer applies the file it has checked, reports a success that is
one, and leaves nothing behind; an activation happens in its window, once at a
time, and in the last window at the latest; the device boots from an available
bank. The code does not keep all of it: "What the runs show" says where.

## The modules

`Reboots.tla`. One action per commit of `sysmngr_register_boot_action`, in
their order, so that `Crash` (the process) and `Reboot` (the device) may come
between any two, and so may `RemoveAllReboots` and `RemoveReboot`, which are
asynchronous commands in processes of their own; an option that is committed to
a section they have deleted is dropped, as UCI does. `pc` is the place in the
registration, `cfg` and `sections` are UCI, `lock` is the lock file and goes
with `/tmp` at a boot. `exec` is the child that `fw_images.c` forks: from the
fork on it runs beside the daemon, commits the cause whenever it gets to run
(`ExecRebootCommits`), and takes it back after a reboot that failed or is late.
Time is the order of readings of `time(NULL)`. Ghosts: what really caused a
boot, boots registered, registrations that died, a record that a command took
while it was written.

`FwBank.tla`. `tasks` is the sequence of forked tasks; each knows its request,
its timer, its child, its script, and the pipes of earlier tasks it inherited
(`holds`). `reading` is the task whose finish callback sits in `read()`: while
it does, the loop serves nothing. A dump carries the state of the banks (`hw`)
the script saw. The `sysupgrade` events are a queue that drops what is sent
while no handler is registered. A call is a request that is deferred, or one
the daemon's own data model makes, which is not (`SetBootFirmwareImage`); an
upgrade may name no bank, which the daemon takes for bank 0. `Activate` without
windows runs in a process of its own, which has its own `g_fwbank_dump`: the
task it forks is one of that process and refreshes nothing in the daemon.

`BankService.tla`. What clients and readers are promised, without tasks, timers
and pipes: a request is refused or deferred, runs its script at most once, and
ends once, with an answer only if its script has run; the banks change by
scripts and by what an upgrade installs; the dump shows a state they were in,
not always a later one. `FwBank` implements it (`Served`) with `ran` as the set
of requests with a task whose script has begun its work (`Ran`).

`Alarm.tla`. The abstract specification of a monitor: reach a critical state,
announce it at most once, end it.

`CriticalState.tla`. The machinery `memory.c` and `processes.c` share line by
line. A poll is cut at its commits and at what is seen outside (stamp, log,
event, stamp, log, timer). `conf` is UCI, `ctx` what the daemon read from it.
Mapped to the lines of `memory.c`; those of `processes.c` are the same but for
the names.

`MemoryMonitor.tla`, `CpuMonitor.tla`. The machinery driven by a utilisation
read at once (and polled on every reload), and by the average of a ring (and
polled one interval after a reload).

`ProcessList.tla`. The list as a number of entries, `process_num`, the timer,
the requests to `tr069` under way, and `view`, what bbfdm knows: it reads the
table once (`BbfdmReads`) and then follows the events, of which there is none
from a scan that finds `process_num` 0.

`Transfers.tla`. `Download`, `Backup` and `Restore`, each operation in a process
of its own, cut at every call that looks at or changes what others see: the
file in `/tmp`, the fwbank service, the event. A file is the set of operations
that have written to it and whether the last has finished, so that two commands
on one path are told from one. A failed check goes to `end` with `fault_msg`
set, as the `goto end` of the code. The list of configuration files (`files`,
`vcf`) is walked to any length, as `browse` may be stopped anywhere. What a
configuration contains is its operation.

`Activation.tla`. The setters of `BootFirmwareImage`, `Available` and
`KeepConfig`, `Activate` with and without windows, and one handler script per
line of the crontab, in the order of its checks. Time is counted in ticks,
`MINUTE` of them to a minute. A line is due at the tick its window starts,
cut to the minute (`Due`), as `localtime()` gives the hour and minute to the
crontab and the seconds to nobody; cron runs it at that minute, or not at all
if it is restarted in between. `span` and `force` are arguments of the line,
and `diff` is the script's `$diff`. The daemon's task that sets the boot bank is
`setters`, the cached dump `shown`: what `FwBank` says of them is an action of
the environment here. A restart ends all handlers and keeps the crontab.

`*Proofs.tla`. The theorems about the module of that name; about the machinery
of the monitors in `CriticalStateProofs`.

Every `MC*.tla` only names constants; the bounds are in the `.cfg` files.
Definitions marked "Mutant" are not used by any specification.

## What the runs show

Passing runs:

| run | question | bounds, and why they are enough |
|---|---|---|
| `reboot_records` | is the list bounded and ordered, does a registered boot have its record? | 4 boots with limits -1, 0, 1: the list is filled, overflows, is lowered, and removed from, also between two commits of a registration; power cuts; one failing deletion |
| `reboot_counters` | what are the counters worth, is each boot registered in the end? | 2 boots, either of them a factory reset; one crash between any two commits, power cuts, remote reboots early or late, a lost clock, a limit set to 0; one retry, so that the reason file may come before, during or never |
| `reboot_cause` | does a record that claims a remote reboot tell the truth, and is none left out? | 4 boots and a list of 2: a remote boot before, between and after local ones, and trimmed away; a reboot that fails; a daemon that dies once, anywhere, and up to then leaves out none |
| `fwbank_faults` | is each deferred request served once, does the daemon implement `BankService`? | 2 symmetric clients, an upgrade of the bank or of none, 3 tasks: two requests that overlap with the first dump, or with a refresh when the first fork fails; invalid and late answers, failing forks, early events; events that name the status first |
| `fwbank_live` | does a failing dump go on being attempted, does the cache show the banks when all is over, is each request completed? | one client, an upgrade of the bank or of none, 4 tasks: a dump, its retry, a request and its refresh; scripts that answer nothing, nonsense or too late but end; events that name the status first |
| `memory` | reload, restart, stamps, announcements, ends | loads below, between and above the thresholds, which a controller may swap; two paths; one crash anywhere; the clock is read up to six times |
| `cpu` | the same, and is the average that of the latest samples? | rings of 1, 2 and 3 samples over more than one lap; failed allocations; one crash |
| `process` | do events and table agree, do refreshes stay one at a time, does the table come to show the processes? | 3 processes, 3 changes of them or of the TR-069 client, 2 failed scans, 2 requests of which any may be lost, one crash; bbfdm reads the table after a complete scan |
| `transfers` | is a wait that an event ends as a success the success of the awaited bank, is nothing left behind, does the list follow the directory, does each command end? | any two of 7 calls at once, on one path and one bank too: two downloads to different banks, one of them restarting the device, uploads, a restore from a copy and one in place, refused commands; every check may fail; 3 names of which one is hidden, one file comes or goes; upgrades slower than the wait |
| `activation` | is there an activation only in its window or less than a minute early, do handlers overlap no longer than that, is there one in the last window in the end; is the boot bank available? | 2 banks, 2 calls, 3 lines, 12 ticks of half a minute with a sleep of 4: a window for two sleeps, windows that meet, overlap, start at once or within a minute, or are one too many; every call may fail; power cuts; a restart of cron that comes too late |

A counter that only counts up is cut by a guard named as a bound in the
module. Where a run has liveness properties the bounds leave room for the steps
they wait for: enough forks for the refresh of every request, readings of the
clock that only a new rise uses up. All the checked quantities are compared,
never computed with beyond +1, except the ring average, whose arithmetic is
integer division of small sums.

Violated on purpose. Each of these runs checks one statement of a comment or of
the guide and finds a behaviour of the code against it:

| run | what happens |
|---|---|
| `reboot_early` | `Activate()` before the boot is registered: its cause, committed before or in the middle of the registration, is recorded for the boot that already happened, and lost for the one it is meant for |
| `fwbank_hang` | a script that never ends blocks `read()` in the loop, and with it the timeout that should end it |

The passing runs leave some of the code's behaviours out because a property
they check does not hold of them, and some properties that one may expect hold
in no run. Each can be seen by a parameter of a module; where a configuration
is named it shows the violation as it stands, without being one of the runs:

* `RightBank` of `FwBank` (`MCFwBank_order.cfg`): with the status before the
  bank, as in the comment of `fwbank.c:601`, the end of another bank's upgrade
  ends the wait (`fwbank.c:407`). It holds only of events that name the bank
  first; the runs of `FwBank` have the other order.
* `SuccessIsReal` of `Transfers` (`MCTransfers_order.cfg`): for the same reason
  a download whose own event came too early takes the status of another bank's
  for its own, and reports a success (`fw_images.c:175`). What is left, and is
  checked in either order, is `OwnBankTells`.
* `AppliedAsChecked` of `Transfers` (`MCTransfers_shared.cfg`): of two restores
  on their fixed path one imports what the other has put into the file after
  the check (`configs.c:14`).
* `FreshWhenQuiet` with `upgrades` and two banks (`MCFwBank_rivals.cfg`): the
  bank of a second upgrade replaces that of the first, whose end is then not
  shown. With `early` (`MCFwBank_early.cfg`): an upgrade ends before its event
  is listened for. With `concurrent` (`MCFwBank_overlap.cfg`): of two dumps that
  overlap the older finishes last and stays in the cache. With
  `StatusFirst = FALSE` and `no_bank`: an upgrade without a bank waits for bank
  0, which no event names (`fwbank.c:693`).
* `InstancesMatch` with `early_read` (`MCProcessList_early.cfg`): bbfdm has read
  the table of a failed first scan, and the next scan sends no event
  (`processes.c:214`).
* `NotBeforeStart` of `Activation` (`MCActivation_early.cfg`): an image is
  activated half a minute before its window begins, because the crontab has no
  seconds (`fw_images.c:681`).
* `CauseHonest` with 0 in `EntryValues` of `reboot_cause`: while
  `MaxRebootEntries` is 0 the cause is not consumed, and a later boot claims it
  (`reboots.c:217`). With `power_cut`: a power cut before a remote boot is
  registered leaves its cause to the boot after it (`reboots.c:176`). Both
  violate `ClaimsHold` too. With `slow`, a remote reboot that comes after its
  child has given up is recorded as a local one (`fw_images.c:151`). A daemon
  that dies after it has cleared the cause registers the boot again, as a local
  one: from the first death on `CauseHonest` asks for `ClaimsHold` alone.
* `Announced` and `EndNoticed` with `clock_back` in `memory`: a clock set back
  hides that a state is critical, so that it is announced again or its end is
  not recorded (`memory.c:130`, `memory.c:149`).
* `EndsCleanly` with `remove`: a restore whose copy cannot be removed returns a
  failure after it has sent a success (`configs.c:139`).
* `BootIsAvailable` with `impatient` in `activation`: `Available` is set to
  false for a bank that a task is about to make the boot bank, since the setter
  reads the cached dump (`fw_images.c:397`).
* `ActivatesInWindow` and `OneAtATime` with `slow_idle`: an idle test that
  takes a minute carries the script over the end of its window, since `$diff`
  is not measured again after it (`bbf_activate_handler.sh:59`).

Some properties name what they cannot exclude, and hold with it in the run.
`Converges` excuses an interval with a lost answer, after which nothing
refreshes the table again (`processes.c:378`), and, without an interval, a
table that nobody walks any more or that is walked so often that the refresh is
put off for ever (`processes.c:638`). `EndsCleanly` allows a command to fail
after a success was sent if another on its path removed the file first.
`OneAtATime` allows two handlers of one call to overlap by less than a minute,
and by as long as the earlier one was put off. `LastWindowActivates` excuses a
window that cron missed because its restart came late (`fw_images.c:699`), and
one in which the device restarted.

Stated in a module but checked by no run: `LogTellsState` of `CriticalState`
does not hold. The end of a critical state is logged with `false`, the null
pointer, for `"false"` (`utils.c:180`); adding it to `memory` shows this.

More disagreements are visible in the modules without a run. The documented
marker `WATCHDOG` is not recognised, the code looks for lower case
(`reboots.c:204`, `HasWatchdog`). The first boot of a new firmware does not
restart `CurrentVersionBootCount`, as the guide has it (`reboots.c:201`,
`CountVersion`). A poll between a new `FilePath` and the reload writes the old
path, which the setter has renamed away (`memory.c:432`, `SetFilePath`). A
`Download` of a `file://` URL leaves the file that `mkstemp` made
(`fw_images.c:296`, `Cleanup`). `X_IOWRT_EU_KeepConfig` is documented as an
input of `Activate` and is not one. An activation by the idle test does not
pass `keep_config` on, so that the configuration is not copied
(`bbf_activate_handler.sh:52`, `57`, `69`; `FirstCheck`, `Loop`). `MaxRetries`
is written to the crontab and not looked at by the script. Windows after the
fifth are silently ignored (`Taken`). Lines of the crontab are never removed,
so that a later window activates, or forces, again what an earlier one has
activated (`fw_images.c:694`). The guide's notes 4 and 6 contradict each other:
a last window that is never idle forces the activation, as the script does, or
is left without one. `Activate` does not look at `Available`. A window that
starts within the first minute is put off by up to a minute and not shortened, and may then
overlap the next one (`fw_images.c:676`, `Due`). A configuration that cannot be
copied ends the script with the boot bank already switched (`CopyConfig`).
`Activate` without windows asks for the reboot without waiting for the task
that sets the boot bank (`fw_images.c:707`; `Reboot` with `impatient`).

`MCFwBank` and the monitors run without deadlock checking: a daemon with no
request left, or whose monitor is disabled, really waits for ever, and so does
one at a bound. So does `reboot_counters`, which ends with the last boot
registered, and `process`, where nothing moves any more once an answer is lost.
`transfers` ends with both operations over, `activation` with the last tick.

## Fairness

* `Reboots`: weak fairness of the daemon's steps: the loop runs, procd respawns.
  None of the environment's.
* `FwBank`: the loop serves ready timers and exited children (strong fairness,
  because a callback blocked in `read()` disables all of them and they become
  ready again); scripts end only in `FairSpec`, not in `HangSpec`.
* `MemoryMonitor`: weak fairness of the daemon, and strong fairness of the
  reload: `uloop` looks at its descriptors in every turn, so that polls, however
  frequent, do not keep the event from being served.
* `CpuMonitor`: weak fairness of the daemon, and strong fairness of the timer,
  because each reload puts it off by one interval: reloads for ever less than
  one interval apart would starve it. The code leaves that to the controller.
* `ProcessList`: weak fairness of the daemon's start, of time (`Elapse`), of a
  timer that is due, of answers and of bbfdm's reading. Nothing is assumed of
  who walks the table; an answer may be lost, and then never comes.
* `Transfers`: a process that was started runs (weak fairness of its step), and
  the fwbank service ends what it began (weak fairness of `JobEnds`). `slow`
  lets the deadline of the wait come first.
* `Activation`: weak fairness of cron's restart, of time, of each handler, of
  the reboot that was asked for and of the daemon's tasks. None of clients,
  refreshes or power cuts.

## What is proved

For every value of the constants that satisfies the named assumptions of the
modules:

* `RebootsProofs`: type correctness; `SectionsBounded`; `BootsCountedOnce`;
  `VersionWithinBoot`; `NeverRecounted`. The invariant `IInv` adds to them what
  one step needs to know of the one before: that after a trim there is room for
  the record to be created (`RoomToCreate`), which counters are ahead in the
  middle of a registration (`BootAhead`), and that a registration runs only
  without a lock file (`NotRegisteredYet`). With a clock that survives a boot
  (no `clock_lost` among the disturbances) also `OldestFirst` and
  `RegisteredBootHasRecord`, by `LInv`: the sections are named in the order of
  their creation, so that the last one and no other is this boot's, and it
  grows option by option until the lock file is written, or was taken by a
  command and stays away. `ClaimsHold` is proved for a daemon that is
  `Undisturbed`: no remote reboot before a boot is registered, no power cut, no
  lost clock, no factory reset and no limit of 0; it may die anywhere and a
  reboot be late. `CInv`: until it is recorded, `last_reboot_cause` is about
  this boot, and from then on about the next. Until the daemon has died the
  cause is also there for each boot that was asked for (`Exact`), so that
  `CauseHonest` follows if no reboot is late.
* `CriticalStateProofs`: lemmas per action of the machinery. The invariant
  `AlarmInv`: no stamp is ahead of the clock, the stamps in memory are those in
  UCI while the daemon runs, an announcement that is due belongs to a critical
  state not yet announced. From them:
  * `MemoryMonitorProofs`: `StampsPersisted`, `EndNoticed`, and that the memory
    monitor implements `Alarm` (refinement: `critical` is the order of the
    stamps); type correctness and `ConfigApplied` whatever the clock does;
  * `CpuMonitorProofs`: the same refinement for the CPU monitor, and
    `RingApplied`, by an invariant in which a length other than the configured
    one implies a reload to come; `ConfigApplied`, which no run checks for it;
    type correctness; and `AverageOfLatest`, by an invariant that says in which
    slot each of the latest samples is (`Slot`). It rests on what a sum over a
    set of slots is: that it does not depend on the order of the slots nor on
    their names (`SumReindexed`).

  The theorems about `Alarm`, `StampsPersisted` and `EndNoticed` assume
  `ClockAdvances`: the clock is neither set back nor gives two rises the same
  second.
* `ProcessListProofs`: `InstancesMatch`, by an invariant about `process_num`
  (a failed scan takes the list away from it, so that the list alone carries no
  induction), with the set arithmetic of the events for every number of
  processes, if bbfdm reads the table after a complete scan (no `early_read`);
  `OneChain` (`RefreshesNeverPileUp`) and type correctness, of which neither
  assumes anything.
* `FwBankProofs`: type correctness, `DeferredIsServed`, `DumpKept`,
  `ListenerHasDeadline`, `DumpAttempted`, and that `FwBank` implements
  `BankService`. The invariant is `Ledger`: a task is for a dump and serves
  nobody, or serves one request that no other task serves, and that request is
  deferred as long as the task is not finished; and `Sound`: a task has no
  result before its script has acted, and a good dump shows a state of the
  banks. The lemmas say what the three things that happen to the sequence of
  tasks, fork, change and end, do to it.
  `DumpAttempted` counts: at least as many tasks for a dump have ended as the
  retry counter says (`Tried`), and without a dump one is due, at work, or there
  have been more than the retries allow (`Attempted`). The refinement adds to
  `Ledger` that a request whose script is still to run has not been answered,
  that no dump is ahead of the banks, and that an upgrade goes on only after a
  script has run (`ServiceInv`); a step is one of the service or hidden from it
  (`ServiceStep`), and most are hidden because no task's script begins in them
  (`Alike`). It assumes nothing of clients or faults.
* `TransfersProofs`: `EndsCleanly`, from an invariant about the control (at
  each place, what there can be in `/tmp` and in `fault_msg`), about the owner
  of each file and about who has met whom on a path (`EInv`), if files can be
  removed (`Removes`); `OwnBankTells`, from what the step that wakes a wait has
  done (`Told`). This, type correctness and `ListFollowsDirectory` need no
  assumption; the invariant of the list is that its numbers ascend, with the
  sections that have none at the end (`Before`), so that 1 + the largest number
  given so far is a new one, and that no hidden file is in it (`Directory`).
* `ActivationProofs`: type correctness; `ActivatesInWindow`, from an invariant
  that places each handler between the start and the end of its line
  (`Placed`); and `OneAtATime`, for which the order of the windows is an
  induction over them that rests on every set of numbers having a least one,
  and cutting both starts to the minute costs less than one (`Due`). `Quick`
  names what they assume: that the idle test is quick.

What a fold of the community modules yields is proved where it is needed, for
the sum of the samples and for the three passes over the list of configuration
files. Induction is done without the library's induction theorems, which take
an operator: the order of the naturals is well founded, so that a set of
numbers has a least one (`Least`), what fails for some number fails for a first
one (`Upwards`), and a finite set for some of whose parts something fails has a
smallest such part (`Smallest`).

Every invariant and action property of the passing runs is a theorem but for
`FreshWhenQuiet` and `BootIsAvailable`. They hold only for clients that wait for
one request to end before the next, and are left to the runs; what happens
otherwise is told above. Only
model-checked too, and out of the prover's reach, is the liveness:
`EventuallyRegistered`, `RequestCompleted`, `Recovers`, `Converges`, `Finishes`
and `LastWindowActivates` (TLAPS proves no properties under fairness and no
ENABLED). Where a theorem names an assumption, what happens without it is told
by the runs and the hazards in `PROJECT.json`.

## Assumptions about what is not in the repository

* `BBFDM_UCI_SET` writes and commits one option; a setter's value is committed
  with the request, and the commit of `sysmngr` sends `sysmngr.reload`.
* procd respawns the daemon; `/tmp` and `/var` are empty after a boot.
* ubusd delivers an event only to handlers registered when it is sent, and an
  asynchronous request has no deadline.
* `bbfdm` reads the whole table by its own mechanism once after the daemon has
  registered it, as `processes.c:213` says, and follows the events afterwards.
* A killed child's script goes on: it was started with `popen()`.
* bbfdm runs each asynchronous command in a process of its own, the commands
  of the reboot list included; its setters run in the daemon's loop.
* `download_file` copies to the path it is given, and reads a `file://` URL in
  its place. An upgrade whose file is removed has read it before.
* cron runs a line when its minute begins if it knows the line by then, and
  nothing it slept through; the device is down for up to two minutes.
* The steps of the script take no time, its sleeps do; with `slow_idle` the
  idle test does too.

## Not modelled

Getters without state, and with them `deviceinfo.c`, `network.c`,
`temperature.c` and `supported_dm.c`, which keep none and only print or store
single options; aliases; the contents of dumps, records, configurations and
process entries; `switch_bank` and the copied configuration, which no modelled
code reads; durations but for the script's (a timer may fire at any time after
it was set); unsigned wrap-around of jiffy differences; the length of a
script's answer against the 1024-byte buffer; descriptors leaked on error
paths.

## What is left

1. `Activation` over `FwBank` itself instead of its promise, with tasks that
   overlap, and `Reboots` over the reboots `Activation` asks for.
