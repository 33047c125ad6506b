------------------------------- MODULE FwBank -------------------------------
(***************************************************************************)
(* The firmware banks of sysmngr (src/src/fwbank.c).  The daemon never     *)
(* touches a bank itself: it forks a task that runs the fwbank script      *)
(* ("dump", "set_bootbank" or "upgrade"), defers the ubus request it       *)
(* serves, and reads the task's pipe when the child has exited.  The last  *)
(* good dump is cached and answers every reader of the banks.              *)
(*                                                                         *)
(* Tasks are numbered in the order they were forked.  A child, and the     *)
(* script it runs, inherit the pipes of the tasks that were running when   *)
(* it was forked, so read() in a finish callback, which waits for the last *)
(* writer to close, may wait for tasks forked later: the event loop is     *)
(* then `reading' and serves nothing else, timers included.                *)
(***************************************************************************)
EXTENDS Integers, Sequences, FiniteSets

CONSTANTS
    Banks,                    \* the firmware banks
    Requests,                 \* the calls clients will make
    FWBANK_DUMP_MAX_RETRIES,  \* failed dumps that are retried, in total
    StatusFirst,              \* attributes of "sysupgrade": status, bank_id
    Disturbances,             \* what may go wrong, see below
    MaxForks                  \* bound: tasks forked by the daemon

(***************************************************************************)
(* "bad":        a script may print what is not a valid answer             *)
(* "slow":       a script may outlive the timeout of its task              *)
(* "fork":       pipe() or fork() may fail                                 *)
(* "early":      an upgrade may end before the daemon listens for its end  *)
(* "concurrent": clients do not wait for the end of each other's calls     *)
(* "upgrades":   a client does not wait for the end of another's upgrade   *)
(* "no_bank":    a client may ask for an upgrade without naming a bank     *)
(***************************************************************************)
NoReq == "no_request"

ASSUME FwBankAssumption ==
    /\ FWBANK_DUMP_MAX_RETRIES \in Nat
    /\ StatusFirst \in BOOLEAN
    /\ Disturbances \subseteq {"bad", "slow", "fork", "early", "concurrent",
                               "upgrades", "no_bank"}
    /\ Banks \subseteq Nat \ {0} /\ MaxForks \in Nat
    /\ NoReq \notin Requests

VARIABLES
    hw,         \* how often the banks have changed: their present state
    jobs,       \* upgrades going on in the background: bank and phase
    dump,       \* g_fwbank_dump.output: the state it shows, 0 when empty
    retry,      \* g_retry_count
    dumpTimer,  \* g_fwbank_dump.tm is pending
    tasks,      \* the forked tasks, in the order they were forked
    reading,    \* the task whose finish callback is in read(), 0 if none
    ev,         \* g_fwbank_event_data: registered, timer pending, bank
    inbox,      \* "sysupgrade" events on their way to the daemon
    reqs,       \* the calls: ubus requests, or of the data model
    up,         \* main() has run sysmngr_init_fwbank_dump
    failed      \* ghost: a task failed, was killed or could not be forked

vars == <<hw, jobs, dump, retry, dumpTimer, tasks, reading, ev, inbox, reqs,
          up, failed>>
banks == <<hw, jobs>>
cache == <<dump, retry, dumpTimer>>
listener == <<ev, inbox>>
Ids == DOMAIN tasks

\* A task whose finish callback has not returned: the daemon owns its pipe.
Owned(t) == t.proc # "done"
\* A process of the task is running and has the descriptors it inherited.
Running(t) == t.proc = "live" \/ t.script # "over"
\* The children that keep the pipe of task id open, besides its own.
Holders(id) == {j \in Ids : id \in tasks[j].holds /\ Running(tasks[j])}

NewTask(ts, kind, bank, req) ==
    [kind |-> kind, bank |-> bank, req |-> req, proc |-> "live",
     timer |-> TRUE, script |-> "todo", result |-> "none", snap |-> 0,
     holds |-> {j \in DOMAIN ts : Owned(ts[j])}]

\* sysmngr_task_fork: the tasks afterwards.  Beyond MaxForks it fails.
TaskFork(ts, kind, bank, req) ==
    (IF Len(ts) < MaxForks THEN {Append(ts, NewTask(ts, kind, bank, req))}
     ELSE {})
    \cup (IF Len(ts) >= MaxForks \/ "fork" \in Disturbances THEN {ts} ELSE {})

\* The refresh of the dump: nobody looks at the result of the fork.
InitGlobalFwbankDump(ts) ==
    \E after \in TaskFork(ts, "dump", 0, NoReq) :
        /\ tasks' = after
        /\ failed' = (failed \/ after = ts)

Init ==
    /\ hw = 1
    /\ jobs = {}
    /\ dump = 0
    /\ retry = 0
    /\ dumpTimer = FALSE
    /\ tasks = <<>>
    /\ reading = 0
    /\ ev = [reg |-> FALSE, timer |-> FALSE, bank |-> 0]
    /\ inbox = <<>>
    /\ reqs = [r \in Requests |-> "new"]
    /\ up = FALSE
    /\ failed = FALSE

-----------------------------------------------------------------------------
(***************************************************************************)
(* Requests and timers, served by the event loop                           *)
(***************************************************************************)
Loop == up /\ reading = 0

\* Without "concurrent", clients wait until everything has settled; upgrades
\* may come while others go on in the background with "upgrades".
Working == dumpTimer \/ \E id \in Ids : Owned(tasks[id])
Settled == ~Working /\ ~ev.reg /\ jobs = {}

Calls(kind, r) ==
    /\ Loop
    /\ reqs[r] = "new"
    /\ \/ "concurrent" \in Disturbances \/ Settled
       \/ kind = "upgrade" /\ "upgrades" \in Disturbances /\ ~Working

\* main(): the script is there, so the first dump is forked.
InitFwbankDump ==
    /\ ~up
    /\ up' = TRUE
    /\ InitGlobalFwbankDump(tasks)
    /\ UNCHANGED <<banks, cache, reading, listener, reqs>>

\* set_bootbank_handler and upgrade_handler: the request is deferred, or
\* refused at once when the task cannot be forked.
Handle(kind, r, bank) ==
    /\ Calls(kind, r)
    /\ \E after \in TaskFork(tasks, kind, bank, r) :
          /\ tasks' = after
          /\ reqs' = [reqs EXCEPT ![r] =
                        IF after = tasks THEN "refused" ELSE "deferred"]
    /\ UNCHANGED <<banks, cache, reading, listener, up, failed>>

SetBootbankHandler(r) == Handle("set_bootbank", r, 0)
\* The request names a bank, or none: then the daemon's is 0.
Named == Banks \cup (IF "no_bank" \in Disturbances THEN {0} ELSE {})
UpgradeHandler(r, bank) == Handle("upgrade", r, bank)

\* The data model of the daemon sets the boot bank: a task like that of a
\* request, but there is none to be deferred.
SetBootFirmwareImage(r) ==
    /\ Calls("set_bootbank", r)
    /\ tasks' \in TaskFork(tasks, "set_bootbank", 0, NoReq)
    /\ reqs' = [reqs EXCEPT ![r] = "called"]
    /\ UNCHANGED <<banks, cache, reading, listener, up, failed>>

\* The timer of the retries.
FwbankDumpTimer ==
    /\ Loop
    /\ dumpTimer
    /\ dumpTimer' = FALSE
    /\ InitGlobalFwbankDump(tasks)
    /\ UNCHANGED <<banks, dump, retry, reading, listener, reqs, up>>

\* timeout_callback: SIGKILL to the child, whose buffered output is lost; the
\* script it started with popen() goes on.
TaskTimeout(id) ==
    /\ Loop
    /\ "slow" \in Disturbances
    /\ tasks[id].timer
    /\ tasks' = [tasks EXCEPT ![id] =
                   IF @.proc = "live"
                   THEN [@ EXCEPT !.timer = FALSE, !.proc = "exited",
                                  !.result = "none"]
                   ELSE [@ EXCEPT !.timer = FALSE]]
    /\ failed' = (failed \/ tasks[id].proc = "live")
    /\ UNCHANGED <<banks, cache, reading, listener, reqs, up>>

-----------------------------------------------------------------------------
(***************************************************************************)
(* The end of a task                                                       *)
(***************************************************************************)
\* The child is reaped: the timer is cancelled and read() begins.
TaskFinish(id) ==
    /\ Loop
    /\ tasks[id].proc = "exited"
    /\ reading' = id
    /\ tasks' = [tasks EXCEPT ![id].timer = FALSE]
    /\ UNCHANGED <<banks, cache, listener, reqs, up, failed>>

\* read() returns 0 when nobody else holds the pipe; the callback then ends.
EndOfFile(id, kind) ==
    /\ id # 0 /\ reading = id
    /\ tasks[id].kind = kind
    /\ Holders(id) = {}
    /\ reading' = 0

Closed(id) == [tasks EXCEPT ![id].proc = "done", ![id].holds =
                  IF tasks[id].script = "over" THEN {} ELSE @]

\* ubus_complete_deferred_request, with or without an answer sent before it.
Complete(id, answer) ==
    LET r == tasks[id].req
    IN  reqs' = IF r = NoReq THEN reqs ELSE [reqs EXCEPT ![r] = answer]

\* A valid dump replaces the cached one, whatever its age.
DumpFinish(id) ==
    /\ EndOfFile(id, "dump")
    /\ tasks[id].result = "ok"
    /\ dump' = tasks[id].snap
    /\ tasks' = Closed(id)
    /\ UNCHANGED <<banks, retry, dumpTimer, listener, reqs, up, failed>>

\* Mutants: one retry too many; a retry that is counted but not scheduled; the
\* old dump is freed before the answer is known to be good.
DumpRetryOnceMore(id) ==
    /\ EndOfFile(id, "dump")
    /\ tasks[id].result # "ok"
    /\ IF retry <= FWBANK_DUMP_MAX_RETRIES
       THEN retry' = retry + 1 /\ dumpTimer' = TRUE
       ELSE UNCHANGED <<retry, dumpTimer>>
    /\ tasks' = Closed(id)
    /\ failed' = TRUE
    /\ UNCHANGED <<banks, dump, listener, reqs, up>>

DumpRetryUnscheduled(id) ==
    /\ EndOfFile(id, "dump")
    /\ tasks[id].result # "ok"
    /\ retry' = IF retry < FWBANK_DUMP_MAX_RETRIES THEN retry + 1 ELSE retry
    /\ tasks' = Closed(id)
    /\ failed' = TRUE
    /\ UNCHANGED <<banks, dump, dumpTimer, listener, reqs, up>>

DumpRetryFreed(id) ==
    /\ EndOfFile(id, "dump")
    /\ tasks[id].result # "ok"
    /\ dump' = 0
    /\ IF retry < FWBANK_DUMP_MAX_RETRIES
       THEN retry' = retry + 1 /\ dumpTimer' = TRUE
       ELSE UNCHANGED <<retry, dumpTimer>>
    /\ tasks' = Closed(id)
    /\ failed' = TRUE
    /\ UNCHANGED <<banks, listener, reqs, up>>

\* Anything else leaves the cache alone and is retried, a limited number of
\* times in the life of the daemon.
DumpRetry(id) ==
    /\ EndOfFile(id, "dump")
    /\ tasks[id].result # "ok"
    /\ IF retry < FWBANK_DUMP_MAX_RETRIES
       THEN retry' = retry + 1 /\ dumpTimer' = TRUE
       ELSE UNCHANGED <<retry, dumpTimer>>
    /\ tasks' = Closed(id)
    /\ failed' = TRUE
    /\ UNCHANGED <<banks, dump, listener, reqs, up>>

\* Mutant: without an answer the request is left deferred.
NoAnswerForgets(id, kind) ==
    /\ EndOfFile(id, kind)
    /\ tasks[id].result \in {"none", "bad"}
    /\ tasks' = Closed(id)
    /\ UNCHANGED <<banks, cache, listener, reqs, up, failed>>

\* No JSON (the child was killed, or printed something else): the request is
\* completed without an answer.
NoAnswer(id, kind) ==
    /\ EndOfFile(id, kind)
    /\ tasks[id].result \in {"none", "bad"}
    /\ Complete(id, "unanswered")
    /\ tasks' = Closed(id)
    /\ UNCHANGED <<banks, cache, listener, up, failed>>

Refusal(id, kind) ==
    /\ EndOfFile(id, kind)
    /\ tasks[id].result = "no"
    /\ Complete(id, "answered")
    /\ tasks' = Closed(id)
    /\ UNCHANGED <<banks, cache, listener, up, failed>>

\* Mutant: the dump is not refreshed.
SetBootbankFinishStale(id) ==
    /\ EndOfFile(id, "set_bootbank")
    /\ tasks[id].result = "ok"
    /\ Complete(id, "answered")
    /\ tasks' = Closed(id)
    /\ UNCHANGED <<banks, cache, listener, up, failed>>

\* The boot bank has been set: answer, and refresh the dump.
SetBootbankFinish(id) ==
    /\ EndOfFile(id, "set_bootbank")
    /\ tasks[id].result = "ok"
    /\ Complete(id, "answered")
    /\ InitGlobalFwbankDump(Closed(id))
    /\ UNCHANGED <<banks, cache, listener, up>>

\* The upgrade has started: answer, and wait for its end, for this bank only.
UpgradeFinish(id) ==
    /\ EndOfFile(id, "upgrade")
    /\ tasks[id].result = "ok"
    /\ Complete(id, "answered")
    /\ ev' = [reg |-> TRUE, timer |-> TRUE, bank |-> tasks[id].bank]
    /\ tasks' = Closed(id)
    /\ UNCHANGED <<banks, cache, inbox, up, failed>>

FinishCallback(id) ==
    \/ DumpFinish(id) \/ DumpRetry(id)
    \/ \E kind \in {"set_bootbank", "upgrade"} :
          NoAnswer(id, kind) \/ Refusal(id, kind)
    \/ SetBootbankFinish(id) \/ UpgradeFinish(id)

-----------------------------------------------------------------------------
(***************************************************************************)
(* The end of an upgrade                                                   *)
(***************************************************************************)
Unregister ==
    /\ ev' = [ev EXCEPT !.reg = FALSE, !.timer = FALSE]
    /\ inbox' = <<>>

\* The attributes are examined in the order they were sent.
Mismatch(e) == e.bank # ev.bank
Ignored(e) ==
    IF StatusFirst
    THEN e.status = "Downloading" \/ (e.status # "Available" /\ Mismatch(e))
    ELSE Mismatch(e) \/ e.status = "Downloading"

IgnoreSysupgrade ==
    /\ Loop /\ inbox # <<>>
    /\ Ignored(Head(inbox))
    /\ inbox' = Tail(inbox)
    /\ UNCHANGED <<banks, cache, tasks, reading, ev, reqs, up, failed>>

\* Available refreshes the dump; any other end only ends the wait.
ReceiveAvailable ==
    /\ Loop /\ inbox # <<>>
    /\ ~Ignored(Head(inbox)) /\ Head(inbox).status = "Available"
    /\ InitGlobalFwbankDump(tasks)
    /\ Unregister
    /\ UNCHANGED <<banks, cache, reading, reqs, up>>

ReceiveOther ==
    /\ Loop /\ inbox # <<>>
    /\ ~Ignored(Head(inbox)) /\ Head(inbox).status # "Available"
    /\ Unregister
    /\ UNCHANGED <<banks, cache, tasks, reading, reqs, up, failed>>

\* The upgrade took too long, or its event never came: nobody listens any more.
FwbankListenTimeout ==
    /\ Loop /\ ev.timer
    /\ "slow" \in Disturbances \/ (jobs = {} /\ inbox = <<>>)
    /\ Unregister
    /\ failed' = (failed \/ jobs # {} \/ inbox # <<>>)
    /\ UNCHANGED <<banks, cache, tasks, reading, reqs, up>>

-----------------------------------------------------------------------------
(***************************************************************************)
(* The processes outside the daemon                                        *)
(***************************************************************************)
\* The script does its work and prints its answer.
ScriptResult(id, result, snap) ==
    tasks' = [tasks EXCEPT ![id] = [@ EXCEPT !.script = "acted",
        !.result = IF tasks[id].proc = "live" THEN result
                   ELSE tasks[id].result,
        !.snap = snap]]

ScriptDump(id) ==
    /\ tasks[id].kind = "dump" /\ tasks[id].script = "todo"
    /\ ScriptResult(id, "ok", hw)
    /\ UNCHANGED banks

ScriptSetBootbank(id) ==
    /\ tasks[id].kind = "set_bootbank" /\ tasks[id].script = "todo"
    /\ ScriptResult(id, "ok", 0)
    /\ hw' = hw + 1
    /\ UNCHANGED jobs

ScriptUpgrade(id) ==
    /\ tasks[id].kind = "upgrade" /\ tasks[id].script = "todo"
    /\ ScriptResult(id, "ok", 0)
    /\ \E bank \in Banks :
          /\ tasks[id].bank \in {0, bank}
          /\ jobs' = jobs \cup {[bank |-> bank, phase |-> "started"]}
    /\ UNCHANGED hw

ScriptFails(id) ==
    /\ "bad" \in Disturbances
    /\ tasks[id].script = "todo"
    /\ \E result \in {"no", "bad"} :
          /\ tasks[id].kind = "dump" => result = "bad"
          /\ ScriptResult(id, result, 0)
    /\ UNCHANGED banks

ScriptEnds(id) ==
    /\ tasks[id].script = "acted"
    /\ tasks' = [tasks EXCEPT ![id].script = "over", ![id].holds =
                    IF tasks[id].proc = "done" THEN {} ELSE @]
    /\ UNCHANGED banks

\* task_callback: the child copies the answer and exits after its script; what
\* is left of a killed child's answer never reaches the pipe.
ChildExits(id) ==
    /\ tasks[id].proc = "live" /\ tasks[id].script = "over"
    /\ tasks' = [tasks EXCEPT ![id].proc = "exited"]
    /\ UNCHANGED banks

Script(id) ==
    /\ \/ ScriptDump(id) \/ ScriptSetBootbank(id) \/ ScriptUpgrade(id)
       \/ ScriptFails(id) \/ ScriptEnds(id) \/ ChildExits(id)
    /\ UNCHANGED <<cache, reading, listener, reqs, up, failed>>

\* An upgrade reports on ubus; an event nobody is registered for is gone.
Emit(status, bank) ==
    inbox' = IF ev.reg
             THEN Append(inbox, [status |-> status, bank |-> bank])
             ELSE inbox

JobDownloads(j) ==
    /\ j.phase = "started"
    /\ jobs' = (jobs \ {j}) \cup {[j EXCEPT !.phase = "downloading"]}
    /\ Emit("Downloading", j.bank)
    /\ UNCHANGED hw

JobEnds(j) ==
    /\ "early" \in Disturbances \/ ev.reg
    /\ jobs' = jobs \ {j}
    /\ \/ Emit("Available", j.bank) /\ hw' = hw + 1
       \/ Emit("Failed", j.bank) /\ UNCHANGED hw

Job(j) ==
    /\ JobDownloads(j) \/ JobEnds(j)
    /\ UNCHANGED <<cache, tasks, reading, ev, reqs, up, failed>>

-----------------------------------------------------------------------------
Client ==
    \E r \in Requests :
        \/ SetBootbankHandler(r) \/ SetBootFirmwareImage(r)
        \/ \E bank \in Named : UpgradeHandler(r, bank)

Daemon ==
    \/ InitFwbankDump
    \/ FwbankDumpTimer
    \/ \E id \in Ids : TaskTimeout(id) \/ TaskFinish(id) \/ FinishCallback(id)
    \/ IgnoreSysupgrade \/ ReceiveAvailable \/ ReceiveOther
    \/ FwbankListenTimeout

Next ==
    \/ Client
    \/ Daemon
    \/ \E id \in Ids : Script(id)
    \/ \E j \in jobs : Job(j)

Spec == Init /\ [][Next]_vars

\* The event loop serves what is ready: timers, exited children, events.
LoopFairness ==
    /\ WF_vars(InitFwbankDump)
    /\ SF_vars(FwbankDumpTimer)
    /\ \A id \in 1..MaxForks :
          /\ SF_vars(id \in Ids /\ TaskTimeout(id))
          /\ SF_vars(id \in Ids /\ TaskFinish(id))
          /\ WF_vars(id \in Ids /\ FinishCallback(id))

\* The scripts end and the children exit.
ScriptFairness == \A id \in 1..MaxForks : WF_vars(id \in Ids /\ Script(id))

HangSpec == Spec /\ LoopFairness
FairSpec == HangSpec /\ ScriptFairness

-----------------------------------------------------------------------------
(***************************************************************************)
(* Properties                                                              *)
(***************************************************************************)
Task == [kind : {"dump", "set_bootbank", "upgrade"}, bank : Banks \cup {0},
         req : Requests \cup {NoReq}, proc : {"live", "exited", "done"},
         timer : BOOLEAN, script : {"todo", "acted", "over"},
         result : {"none", "ok", "no", "bad"}, snap : Nat,
         holds : SUBSET Nat]

\* The types of the daemon's globals, of its tasks and of their environment.
TypeOK ==
    /\ hw \in Nat \ {0}
    /\ jobs \subseteq [bank : Banks, phase : {"started", "downloading"}]
    /\ dump \in Nat
    /\ retry \in 0..FWBANK_DUMP_MAX_RETRIES
    /\ dumpTimer \in BOOLEAN
    /\ tasks \in Seq(Task)
    /\ reading \in {0} \cup Ids
    /\ ev \in [reg : BOOLEAN, timer : BOOLEAN, bank : Banks \cup {0}]
    /\ inbox \in Seq([status : {"Downloading", "Available", "Failed"},
                      bank : Banks])
    /\ reqs \in [Requests -> {"new", "deferred", "refused", "answered",
                              "unanswered", "called"}]
    /\ up \in BOOLEAN
    /\ failed \in BOOLEAN

\* A deferred request has exactly one task that will complete it, and a task
\* that is not finished has a request still deferred: none is forgotten on an
\* error path, none completed twice (fwbank.c:96-98, 190-192).
Serving(r) == {id \in Ids : tasks[id].req = r /\ Owned(tasks[id])}

DeferredIsServed ==
    \A r \in Requests :
        /\ reqs[r] = "deferred" => Cardinality(Serving(r)) = 1
        /\ reqs[r] # "deferred" => Serving(r) = {}

\* The registration for "sysupgrade" and its timer come and go together: the
\* daemon cannot listen for ever, nor can a late timer end the next wait.
ListenerHasDeadline == ev.reg <=> ev.timer

\* The service clients and readers see: a request runs its script at most once
\* and gets an answer only after that, and one end (fwbank.c:96-98, 190-192,
\* 507-541); the cached dump shows a state the banks were in, and once there
\* is one a failing refresh never takes it away (fwbank.c:288-324).
Ran == {r \in Requests :
           \E id \in Ids : tasks[id].req = r /\ tasks[id].script # "todo"}

Service == INSTANCE BankService WITH ran <- Ran
Served == Service!Spec

\* Once there is a dump nothing takes it away again: Served says so too
\* (fwbank.c:288-324).
DumpKept == [][dump # 0 => dump' # 0]_vars

\* As long as there is no dump at all, one more attempt is under way or
\* scheduled: the daemon gives up only after the first attempt and all the
\* retries have failed, unless a fork failed (fwbank.c:326-334).
DumpTasks == {id \in Ids : tasks[id].kind = "dump"}

DumpAttempted ==
    up /\ dump = 0 /\ "fork" \notin Disturbances /\ Len(tasks) < MaxForks
       => \/ dumpTimer
          \/ \E id \in DumpTasks : Owned(tasks[id])
          \/ Cardinality(DumpTasks) > FWBANK_DUMP_MAX_RETRIES

\* When nothing is under way any more and no task failed, the cached dump
\* shows the banks as they are: "Update fwbank dump output" (fwbank.c:533,
\* 600).  Violated when clients do not wait for each other or an upgrade ends
\* too early: a dump forked before a change may be the last to be read, the
\* end of an upgrade may be of a bank that is not waited for any more, or come
\* before the daemon listens.
Quiet == up /\ Settled /\ inbox = <<>> /\ ~failed
FreshWhenQuiet == Quiet /\ reading = 0 => dump = hw

\* Violated: only the end of the upgrade that is waited for ends the wait with
\* a refresh: "Mismatched bank_id" (fwbank.c:394), of an event like that of
\* fwbank.c:601.
RightBank ==
    [][ev.reg /\ ~ev'.reg /\ Len(tasks') > Len(tasks) =>
          Head(inbox).bank = ev.bank]_vars

\* Every deferred request is completed: its task ends or is killed by the
\* "Timeout for the task" (fwbank.c:54).
RequestCompleted ==
    \A r \in Requests : reqs[r] = "deferred" ~> reqs[r] # "deferred"

=============================================================================
