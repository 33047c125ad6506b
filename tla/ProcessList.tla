----------------------------- MODULE ProcessList -----------------------------
(***************************************************************************)
(* The table Device.DeviceInfo.ProcessStatus.Process. (src/src/processes.c)*)
(* The list of the processes is built anew when the daemon starts, and     *)
(* then by a timer that first asks the TR-069 client whether a session is  *)
(* open: the answer, which comes when it is not, triggers the refresh.     *)
(* bbfdm keeps the set of instances that exist, here `view`: it reads the  *)
(* table once after the daemon has registered it, at a time of its own,    *)
(* and then follows the events AddObj and DelObj.                          *)
(*                                                                         *)
(* Entries are counted, not told apart.                                    *)
(***************************************************************************)
EXTENDS Integers

CONSTANTS
    Intervals,     \* values of instance_refresh_interval
    Disturbances,  \* what may go wrong, see below
    MaxProcs,      \* bound: processes of the device
    MaxChanges,    \* bound: changes of their number
    MaxFailures,   \* bound: scans that fail
    MaxRequests,   \* bound: requests to tr069 that will be answered
    MaxCrashes     \* bound: deaths of the daemon

(***************************************************************************)
(* "scan_fails":   a scan of /proc may fail                                *)
(* "answer_lost":  tr069 may go away with a request unanswered             *)
(* "early_read":   bbfdm may read a table that a failed scan has left      *)
(***************************************************************************)
ASSUME ProcessListAssumption ==
    /\ Intervals \subseteq Int
    /\ Disturbances \subseteq {"scan_fails", "answer_lost", "early_read"}
    /\ MaxProcs \in Nat \ {0}
    /\ MaxChanges \in Nat /\ MaxFailures \in Nat
    /\ MaxRequests \in Nat /\ MaxCrashes \in Nat

VARIABLES
    procs,             \* the processes of the device
    tr069,             \* the object tr069 is on the bus
    up,                \* the daemon runs
    list,              \* the length of g_process_ctx.list
    process_num,       \* the number the next events are relative to
    refresh_interval,  \* read when the daemon starts
    timer,             \* instance_timer: "off", "set", or "due" to fire
    requests,          \* asynchronous requests that will be answered
    orphans,           \* asynchronous requests that will not
    view,              \* the instances bbfdm knows
    known,             \* bbfdm has read the table since it was registered
    complete,          \* ghost: the last scan did not fail
    changes, failures, crashes  \* ghost: against their bounds

device == <<procs, tr069, changes>>
daemon == <<up, refresh_interval, crashes>>
table == <<list, process_num, view, complete, failures>>
vars == <<device, daemon, table, known, timer, requests, orphans>>

Init ==
    /\ procs \in 1..MaxProcs
    /\ tr069 \in BOOLEAN
    /\ up = FALSE
    /\ list = 0 /\ process_num = 0
    /\ refresh_interval \in Intervals
    /\ timer = "off"
    /\ requests = 0 /\ orphans = 0
    /\ view = {} /\ known = FALSE
    /\ complete = FALSE
    /\ changes = 0 /\ failures = 0 /\ crashes = 0

-----------------------------------------------------------------------------
(***************************************************************************)
(* One refresh                                                             *)
(***************************************************************************)
\* Mutant: the instances to be added are counted from the last existing one.
InstancesFromLast(diff) ==
    IF diff > 0 THEN {process_num + i : i \in 0..(diff - 1)}
    ELSE {process_num - i : i \in 0..(-diff - 1)}

\* The instances an event names: appended to the table, or cut off its end.
Instances(diff) ==
    IF diff > 0 THEN {process_num + i + 1 : i \in 0..(diff - 1)}
    ELSE {process_num - i : i \in 0..(-diff - 1)}

\* No event on the first run, nor on any other that finds process_num 0.
BroadcastAddDelEvent(diff) ==
    view' = IF process_num = 0 THEN view
            ELSE IF diff > 0 THEN view \cup Instances(diff)
            ELSE view \ Instances(diff)

\* Mutant: the list is not freed.
ScannedOnTop ==
    /\ list' = list + procs
    /\ BroadcastAddDelEvent(procs - process_num)
    /\ process_num' = procs
    /\ complete' = TRUE
    /\ UNCHANGED failures

\* The whole of /proc was read.
Scanned ==
    /\ list' = procs
    /\ BroadcastAddDelEvent(procs - process_num)
    /\ process_num' = procs
    /\ complete' = TRUE
    /\ UNCHANGED failures

\* opendir() failed, or calloc() somewhere on the way: the old list is gone
\* and no event says so.
ScanFails ==
    /\ failures < MaxFailures
    /\ failures' = failures + 1
    /\ list' \in 0..(procs - 1)
    /\ complete' = FALSE
    /\ UNCHANGED <<process_num, view>>

InitProcessList ==
    Scanned \/ ("scan_fails" \in Disturbances /\ ScanFails)

\* Mutant: the timer is only set again after a scan that succeeded.
RefreshGivesUp(pending) ==
    /\ InitProcessList
    /\ timer' = IF refresh_interval > 0 /\ complete' THEN "set" ELSE pending

\* `pending`: what the timer is without the new interval.
RunRefreshProcessList(pending) ==
    /\ InitProcessList
    /\ timer' = IF refresh_interval > 0 THEN "set" ELSE pending

-----------------------------------------------------------------------------
(***************************************************************************)
(* The daemon                                                              *)
(***************************************************************************)
\* The object is registered with bbfdm right after the first scan.
ProcessInit ==
    /\ ~up
    /\ up' = TRUE
    /\ RunRefreshProcessList("off")
    /\ UNCHANGED <<device, refresh_interval, crashes, known, requests,
                   orphans>>

Elapse ==
    /\ up /\ timer = "set"
    /\ timer' = "due"
    /\ UNCHANGED <<device, daemon, table, known, requests, orphans>>

\* Mutant: the next interval starts while tr069 is asked.
RefreshInstanceTimerAgain ==
    /\ up /\ timer = "due"
    /\ IF tr069
       THEN /\ requests < MaxRequests
            /\ requests' = requests + 1
            /\ timer' = IF refresh_interval > 0 THEN "set" ELSE "off"
            /\ UNCHANGED table
       ELSE RunRefreshProcessList("off") /\ UNCHANGED requests
    /\ UNCHANGED <<device, daemon, known, orphans>>

RefreshInstanceTimer ==
    /\ up /\ timer = "due"
    /\ IF tr069
       THEN /\ requests < MaxRequests
            /\ requests' = requests + 1
            /\ timer' = "off"
            /\ UNCHANGED table
       ELSE RunRefreshProcessList("off") /\ UNCHANGED requests
    /\ UNCHANGED <<device, daemon, known, orphans>>

\* The answer of tr069.
UbusCallComplete ==
    /\ up /\ requests > 0
    /\ requests' = requests - 1
    /\ RunRefreshProcessList(timer)
    /\ UNCHANGED <<device, daemon, known, orphans>>

\* A data-model request that walks the table; without an interval it asks
\* for a refresh two seconds later, anew if it was asked for already.
BrowseProcessEntries ==
    /\ up
    /\ refresh_interval <= 0
    /\ timer' = "set"
    /\ UNCHANGED <<device, daemon, table, known, requests, orphans>>

-----------------------------------------------------------------------------
(***************************************************************************)
(* The environment                                                         *)
(***************************************************************************)
ProcessesChange ==
    /\ changes < MaxChanges
    /\ changes' = changes + 1
    /\ procs' \in (1..MaxProcs) \ {procs}
    /\ UNCHANGED <<daemon, table, known, tr069, timer, requests, orphans>>

\* bbfdm reads the table that was registered after the first scan.
BbfdmReads ==
    /\ up /\ ~known
    /\ complete \/ "early_read" \in Disturbances
    /\ known' = TRUE
    /\ view' = 1..list
    /\ UNCHANGED <<device, daemon, list, process_num, complete, failures,
                   timer, requests, orphans>>

\* The client leaves the bus, answering what it was asked or not.
Tr069Leaves ==
    /\ tr069
    /\ changes < MaxChanges
    /\ changes' = changes + 1
    /\ tr069' = FALSE
    /\ \/ UNCHANGED <<requests, orphans>>
       \/ /\ "answer_lost" \in Disturbances
          /\ requests > 0
          /\ requests' = 0
          /\ orphans' = orphans + requests
    /\ UNCHANGED <<daemon, table, known, procs, timer>>

Tr069Comes ==
    /\ ~tr069
    /\ changes < MaxChanges
    /\ changes' = changes + 1
    /\ tr069' = TRUE
    /\ UNCHANGED <<daemon, table, known, procs, timer, requests, orphans>>

\* The daemon dies; bbfdm drops what it registered.
Crash ==
    /\ up
    /\ crashes < MaxCrashes
    /\ crashes' = crashes + 1
    /\ up' = FALSE
    /\ refresh_interval' \in Intervals
    /\ list' = 0 /\ process_num' = 0 /\ view' = {} /\ known' = FALSE
    /\ complete' = FALSE
    /\ timer' = "off"
    /\ requests' = 0 /\ orphans' = 0
    /\ UNCHANGED <<device, failures>>

Daemon == ProcessInit \/ Elapse \/ RefreshInstanceTimer \/ UbusCallComplete
Environment ==
    ProcessesChange \/ BbfdmReads \/ Tr069Leaves \/ Tr069Comes \/ Crash

Next == Daemon \/ BrowseProcessEntries \/ Environment

Spec == Init /\ [][Next]_vars

\* The event loop runs, time passes, sessions end and bbfdm reads the table;
\* nothing is assumed of the controllers that walk it.
FairSpec ==
    /\ Spec
    /\ WF_vars(ProcessInit) /\ WF_vars(Elapse)
    /\ WF_vars(RefreshInstanceTimer) /\ WF_vars(UbusCallComplete)
    /\ WF_vars(BbfdmReads)

-----------------------------------------------------------------------------
\* The types of g_process_ctx and of the environment.
TypeOK ==
    /\ procs \in 1..MaxProcs /\ tr069 \in BOOLEAN /\ up \in BOOLEAN
    /\ list \in 0..MaxProcs /\ process_num \in 0..MaxProcs
    /\ refresh_interval \in Intervals
    /\ timer \in {"off", "set", "due"}
    /\ requests \in 0..MaxRequests /\ orphans \in Nat
    /\ view \subseteq Nat /\ known \in BOOLEAN
    /\ complete \in BOOLEAN
    /\ changes \in 0..MaxChanges /\ failures \in 0..MaxFailures
    /\ crashes \in 0..MaxCrashes

\* Once bbfdm has read the table, the events, each relative to the one before,
\* keep its instances equal to the table after every complete scan, whatever
\* scans fail in between.  "On the first run, add and delete events are managed
\* by the instance refresh mechanism defined in bbfdm" (processes.c:213).
InstancesMatch == known /\ complete => view = 1..list

\* With an interval there are never two next refreshes: a timer and an answer
\* that is awaited, or two answers, would double from then on.  There is none
\* only if an answer was lost: then the table is never refreshed again.
OneChain ==
    up /\ refresh_interval > 0 =>
        /\ requests <= 1
        /\ timer # "off" => requests = 0
        /\ timer = "off" /\ requests = 0 => orphans > 0

\* "Process list will be updated after 'tr069' ubus session completes": when
\* the processes stay the same, the table and bbfdm come to show them, except
\* in three cases: with an interval an answer was lost; without one nobody
\* walks the table any more, or walks put the refresh off again and again.
Shown == list = procs /\ view = 1..procs
PutOff == timer = "due" /\ timer' = "set"

Converges ==
    \/ <>[]Shown
    \/ <>[](refresh_interval > 0 /\ orphans > 0)
    \/ <>[](refresh_interval <= 0 /\ timer = "off")
    \/ []<><<PutOff>>_vars

=============================================================================
