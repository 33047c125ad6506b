-------------------------- MODULE ProcessListProofs --------------------------
(***************************************************************************)
(* Proofs about ProcessList, for any number of processes and any interval. *)
(***************************************************************************)
EXTENDS ProcessList, TLAPS

(***************************************************************************)
(* The inductive invariant of the instances.  A failed scan leaves a list  *)
(* that no longer matches process_num, so that `complete` cannot carry the *)
(* induction: the instances follow process_num once bbfdm has read the     *)
(* table of a complete scan, and the list does when the last scan was one. *)
(***************************************************************************)
NumInv ==
    /\ procs \in Nat \ {0}
    /\ process_num \in Nat
    /\ known => process_num > 0 /\ view = 1..process_num
    /\ complete => process_num > 0 /\ list = process_num

\* Whatever the difference, the events take the instances 1..process_num to
\* 1..procs.
LEMMA EventsFollow ==
    ASSUME NEW n \in Nat \ {0}, NumInv, known,
           BroadcastAddDelEvent(n - process_num)
    PROVE  view' = 1..n
  <1> DEFINE d == n - process_num
  <1>0. d \in Int /\ n = process_num + d
    BY DEF NumInv
  <1>1. process_num # 0
    BY DEF NumInv
  <1>2. CASE process_num > 0 /\ d > 0
    <2>0. view' = (1..process_num) \cup Instances(d)
      BY <1>2 DEF BroadcastAddDelEvent, NumInv
    <2>1. view' = (1..process_num) \cup {process_num + i + 1 : i \in 0..(d - 1)}
      BY <1>2, <2>0 DEF Instances
    <2>2. {process_num + i + 1 : i \in 0..(d - 1)} = (process_num + 1)..n
      <3>1. ASSUME NEW x \in (process_num + 1)..n
            PROVE  \E i \in 0..(d - 1) : x = process_num + i + 1
        <4>1. x - process_num - 1 \in 0..(d - 1)
              /\ x = process_num + (x - process_num - 1) + 1
          BY <1>0, <1>2, <3>1 DEF NumInv
        <4> QED BY <4>1
      <3>2. ASSUME NEW i \in 0..(d - 1)
            PROVE  process_num + i + 1 \in (process_num + 1)..n
        BY <1>0, <1>2, <3>2 DEF NumInv
      <3> QED BY <3>1, <3>2
    <2>3. (1..process_num) \cup ((process_num + 1)..n) = 1..n
      BY <1>0, <1>2 DEF NumInv
    <2> QED BY <2>1, <2>2, <2>3
  <1>3. CASE process_num > 0 /\ ~(d > 0)
    <2>0. view' = (1..process_num) \ Instances(d)
      BY <1>3 DEF BroadcastAddDelEvent, NumInv
    <2>1. view' = (1..process_num) \ {process_num - i : i \in 0..(-d - 1)}
      BY <1>3, <2>0 DEF Instances
    <2>2. {process_num - i : i \in 0..(-d - 1)} = (n + 1)..process_num
      <3>1. ASSUME NEW x \in (n + 1)..process_num
            PROVE  \E i \in 0..(-d - 1) : x = process_num - i
        <4>1. process_num - x \in 0..(-d - 1)
              /\ x = process_num - (process_num - x)
          BY <1>0, <1>3, <3>1 DEF NumInv
        <4> QED BY <4>1
      <3>2. ASSUME NEW i \in 0..(-d - 1)
            PROVE  process_num - i \in (n + 1)..process_num
        BY <1>0, <1>3, <3>2 DEF NumInv
      <3> QED BY <3>1, <3>2
    <2>3. (1..process_num) \ ((n + 1)..process_num) = 1..n
      BY <1>0, <1>3 DEF NumInv
    <2> QED BY <2>1, <2>2, <2>3
  <1> QED BY <1>1, <1>2, <1>3 DEF NumInv

\* One scan, complete or not.
LEMMA ScanKeeps ==
    ASSUME NumInv, InitProcessList, procs' = procs, known' = known
    PROVE  NumInv'
  <1>1. CASE Scanned
    <2>1. /\ list' = procs /\ process_num' = procs
          /\ BroadcastAddDelEvent(procs - process_num)
      BY <1>1 DEF Scanned
    <2>2. known => view' = 1..procs
      BY <2>1, EventsFollow DEF NumInv
    <2> QED BY <2>1, <2>2 DEF NumInv
  <1>2. CASE ScanFails
    <2>1. /\ complete' = FALSE
          /\ UNCHANGED <<process_num, view>>
      BY <1>2 DEF ScanFails
    <2> QED BY <2>1 DEF NumInv
  <1> QED BY <1>1, <1>2 DEF InitProcessList

LEMMA NumStep ==
    ASSUME NumInv, [Next]_vars, "early_read" \notin Disturbances
    PROVE  NumInv'
  <1>1. CASE ProcessInit
    BY <1>1, ScanKeeps DEF ProcessInit, RunRefreshProcessList, device
  <1>2. CASE RefreshInstanceTimer
    <2>1. procs' = procs /\ known' = known
      BY <1>2 DEF RefreshInstanceTimer, device
    <2>2. CASE UNCHANGED table
      BY <2>1, <2>2 DEF NumInv, table
    <2>3. CASE RunRefreshProcessList("off")
      BY <2>1, <2>3, ScanKeeps DEF RunRefreshProcessList
    <2> QED BY <1>2, <2>2, <2>3 DEF RefreshInstanceTimer
  <1>3. CASE UbusCallComplete
    BY <1>3, ScanKeeps DEF UbusCallComplete, RunRefreshProcessList, device
  <1>4. CASE BrowseProcessEntries \/ Elapse
    BY <1>4 DEF BrowseProcessEntries, Elapse, device, table, NumInv
  <1>5. CASE ProcessesChange
    BY <1>5, ProcessListAssumption DEF ProcessesChange, table, NumInv
  <1>6. CASE Tr069Leaves \/ Tr069Comes
    BY <1>6 DEF Tr069Leaves, Tr069Comes, table, NumInv
  <1>7. CASE Crash
    <2>1. /\ process_num' = 0 /\ complete' = FALSE /\ procs' = procs
          /\ known' = FALSE
      BY <1>7 DEF Crash, device
    <2> QED BY <2>1 DEF NumInv
  <1>8. CASE UNCHANGED vars
    BY <1>8 DEF vars, device, table, NumInv
  <1>9. CASE BbfdmReads
    <2>1. /\ complete /\ view' = 1..list
          /\ UNCHANGED <<procs, list, process_num, complete>>
      BY <1>9 DEF BbfdmReads, device
    <2> QED BY <2>1 DEF NumInv
  <1> QED BY <1>1, <1>2, <1>3, <1>4, <1>5, <1>6, <1>7, <1>8, <1>9
          DEF Next, Daemon, Environment

(***************************************************************************)
(* init_process_list and broadcast_add_del_event: each event is relative   *)
(* to the one before, and however the number of processes moves and        *)
(* whatever scans fail, the first one included, after a complete scan the  *)
(* instances of bbfdm are those of the table, unless bbfdm has read the    *)
(* table as a failed scan had left it (process_num 0, processes.c:214).    *)
(***************************************************************************)
THEOREM EventsMatchTable ==
    ASSUME "early_read" \notin Disturbances
    PROVE  Spec => []InstancesMatch
  <1>1. Init => NumInv
    BY ProcessListAssumption DEF Init, NumInv
  <1>2. NumInv /\ [Next]_vars => NumInv'
    BY NumStep
  <1>3. NumInv => InstancesMatch
    BY DEF NumInv, InstancesMatch
  <1> QED BY <1>1, <1>2, <1>3, PTL DEF Spec

-----------------------------------------------------------------------------
(***************************************************************************)
(* The inductive invariant of the refresh: a daemon that is down has       *)
(* neither a timer nor a request, and with an interval exactly one of the  *)
(* timer, an answer that will come and one that will not is under way.     *)
(***************************************************************************)
OneCause ==
    up /\ refresh_interval > 0 =>
        \/ timer # "off" /\ requests + orphans = 0
        \/ timer = "off" /\ requests + orphans = 1

ChainInv ==
    /\ requests \in Nat /\ orphans \in Nat
    /\ refresh_interval \in Int
    /\ up \in BOOLEAN /\ timer \in {"off", "set", "due"}
    /\ up = FALSE => timer = "off" /\ requests + orphans = 0
    /\ OneCause

\* A step that neither starts nor ends the wait for a refresh.
LEMMA ChainKept ==
    ASSUME ChainInv, UNCHANGED <<up, refresh_interval, timer, requests, orphans>>
    PROVE  ChainInv'
  BY DEF ChainInv, OneCause

LEMMA ChainStep ==
    ASSUME ChainInv, [Next]_vars
    PROVE  ChainInv'
  <1>1. CASE ProcessInit
    <2>1. /\ ~up /\ up' = TRUE
          /\ timer' = IF refresh_interval > 0 THEN "set" ELSE "off"
          /\ UNCHANGED <<refresh_interval, requests, orphans>>
      BY <1>1 DEF ProcessInit, RunRefreshProcessList
    <2>2. up = FALSE
      BY <2>1 DEF ChainInv
    <2>3. requests + orphans = 0
      BY <2>2 DEF ChainInv
    <2>4. /\ timer' \in {"off", "set", "due"}
          /\ refresh_interval > 0 => timer' # "off"
      BY <2>1 DEF ChainInv
    <2>5. OneCause'
      BY <2>1, <2>3, <2>4 DEF OneCause
    <2> QED BY <2>1, <2>4, <2>5 DEF ChainInv
  <1>2. CASE RefreshInstanceTimer
    <2>1. /\ up /\ timer = "due"
          /\ UNCHANGED <<up, refresh_interval, orphans>>
      BY <1>2 DEF RefreshInstanceTimer, daemon
    <2>2. CASE tr069
      <3>1. requests' = requests + 1 /\ timer' = "off"
        BY <1>2, <2>2 DEF RefreshInstanceTimer
      <3>2. refresh_interval > 0 => requests' + orphans' = 1
        BY <2>1, <3>1 DEF ChainInv, OneCause
      <3>3. OneCause'
        BY <2>1, <3>1, <3>2 DEF OneCause
      <3>4. up = TRUE /\ requests' \in Nat
        BY <2>1, <3>1 DEF ChainInv
      <3> QED BY <2>1, <3>1, <3>3, <3>4 DEF ChainInv
    <2>3. CASE ~tr069
      <3>1. /\ timer' = (IF refresh_interval > 0 THEN "set" ELSE "off")
            /\ requests' = requests
        BY <1>2, <2>3 DEF RefreshInstanceTimer, RunRefreshProcessList
      <3> QED BY <2>1, <3>1 DEF ChainInv, OneCause
    <2> QED BY <2>2, <2>3
  <1>3. CASE UbusCallComplete
    <2>1. /\ up /\ requests > 0
          /\ requests' = requests - 1
          /\ timer' = IF refresh_interval > 0 THEN "set" ELSE timer
          /\ UNCHANGED <<up, refresh_interval, orphans>>
      BY <1>3 DEF UbusCallComplete, RunRefreshProcessList, daemon
    <2>2. /\ timer' \in {"off", "set", "due"}
          /\ refresh_interval > 0 => timer' # "off"
      BY <2>1 DEF ChainInv
    <2>3. up = TRUE /\ requests' \in Nat
      BY <2>1 DEF ChainInv
    <2>4. refresh_interval > 0 => requests' + orphans' = 0
      BY <2>1 DEF ChainInv, OneCause
    <2>5. OneCause'
      BY <2>1, <2>2, <2>4 DEF OneCause
    <2> QED BY <2>1, <2>2, <2>3, <2>5 DEF ChainInv
  <1>4. CASE BrowseProcessEntries
    <2>1. /\ up /\ timer' = "set" /\ refresh_interval <= 0
          /\ UNCHANGED <<up, refresh_interval, requests, orphans>>
      BY <1>4 DEF BrowseProcessEntries, daemon
    <2> QED BY <2>1 DEF ChainInv, OneCause
  <1>5. CASE ProcessesChange \/ Tr069Comes \/ BbfdmReads
    BY <1>5, ChainKept DEF ProcessesChange, Tr069Comes, BbfdmReads, daemon
  <1>6. CASE Tr069Leaves
    <2>1. UNCHANGED <<up, refresh_interval, timer>>
      BY <1>6 DEF Tr069Leaves, daemon
    <2>2. \/ UNCHANGED <<requests, orphans>>
          \/ requests' = 0 /\ orphans' = orphans + requests
      BY <1>6 DEF Tr069Leaves
    <2> QED BY <2>1, <2>2 DEF ChainInv, OneCause
  <1>7. CASE Crash
    <2>1. /\ up' = FALSE /\ refresh_interval' \in Intervals
          /\ timer' = "off" /\ requests' = 0 /\ orphans' = 0
      BY <1>7 DEF Crash
    <2>2. OneCause'
      BY <2>1 DEF OneCause
    <2>3. refresh_interval' \in Int /\ requests' + orphans' = 0
      BY <2>1, ProcessListAssumption
    <2> QED BY <2>1, <2>2, <2>3 DEF ChainInv
  <1>8. CASE UNCHANGED vars
    BY <1>8, ChainKept DEF vars, daemon
  <1>9. CASE Elapse
    <2>1. /\ timer = "set" /\ timer' = "due"
          /\ UNCHANGED <<up, refresh_interval, requests, orphans>>
      BY <1>9 DEF Elapse, daemon
    <2> QED BY <2>1 DEF ChainInv, OneCause
  <1> QED BY <1>1, <1>2, <1>3, <1>4, <1>5, <1>6, <1>7, <1>8, <1>9
          DEF Next, Daemon, Environment

(***************************************************************************)
(* run_refresh_process_list and its two callbacks: with an interval, the   *)
(* next refresh never has two causes, so that refreshes do not pile up,    *)
(* and has one, the timer or an answer that will come, unless an answer of *)
(* tr069 was lost.                                                         *)
(***************************************************************************)
THEOREM RefreshesNeverPileUp == Spec => []OneChain
  <1>1. Init => ChainInv
    <2> SUFFICES ASSUME Init PROVE ChainInv
      OBVIOUS
    <2>1. OneCause
      BY DEF Init, OneCause
    <2>2. refresh_interval \in Int /\ requests + orphans = 0
      BY ProcessListAssumption DEF Init
    <2> QED BY <2>1, <2>2 DEF Init, ChainInv
  <1>2. ChainInv /\ [Next]_vars => ChainInv'
    BY ChainStep
  <1>3. ChainInv => OneChain
    BY DEF ChainInv, OneCause, OneChain
  <1> QED BY <1>1, <1>2, <1>3, PTL DEF Spec

-----------------------------------------------------------------------------
(***************************************************************************)
(* Type correctness                                                        *)
(***************************************************************************)
Timers == {"off", "set", "due"}

\* What a refresh changes, whatever becomes of the scan.
TableTyped ==
    /\ list \in 0..MaxProcs /\ process_num \in 0..MaxProcs
    /\ view \subseteq Nat
    /\ complete \in BOOLEAN
    /\ failures \in 0..MaxFailures

LEMMA RefreshTyped ==
    ASSUME TypeOK, NEW pending \in Timers, RunRefreshProcessList(pending)
    PROVE  TableTyped' /\ timer' \in Timers
  <1>0. /\ MaxProcs \in Nat /\ MaxFailures \in Nat /\ procs \in 1..MaxProcs
        /\ refresh_interval \in Int /\ TableTyped
    BY ProcessListAssumption DEF TypeOK, TableTyped
  <1>1. timer' \in Timers
    BY <1>0 DEF RunRefreshProcessList, Timers
  <1>2. CASE Scanned
    <2>1. /\ list' = procs /\ process_num' = procs /\ complete' = TRUE
          /\ failures' = failures
          /\ BroadcastAddDelEvent(procs - process_num)
      BY <1>2 DEF Scanned
    <2>2. \/ view' = view
          \/ /\ procs - process_num > 0
             /\ view' = view \cup Instances(procs - process_num)
          \/ view' = view \ Instances(procs - process_num)
      BY <2>1 DEF BroadcastAddDelEvent
    <2>3. procs - process_num > 0
             => Instances(procs - process_num) \subseteq Nat
      BY <1>0 DEF Instances, TableTyped
    <2>4. view \subseteq Nat /\ procs - process_num \in Int
      BY <1>0 DEF TableTyped
    <2>5. view' \subseteq Nat
      <3>1. CASE view' = view
        BY <2>4, <3>1
      <3>2. CASE /\ procs - process_num > 0
                 /\ view' = view \cup Instances(procs - process_num)
        BY <2>3, <2>4, <3>2
      <3>3. CASE view' = view \ Instances(procs - process_num)
        BY <2>4, <3>3
      <3> QED BY <2>2, <3>1, <3>2, <3>3
    <2>6. procs \in 0..MaxProcs
      BY <1>0
    <2> QED BY <1>0, <1>1, <2>1, <2>5, <2>6 DEF TableTyped
  <1>3. CASE ScanFails
    <2>1. /\ failures < MaxFailures /\ failures' = failures + 1
          /\ list' \in 0..(procs - 1) /\ complete' = FALSE
          /\ process_num' = process_num /\ view' = view
      BY <1>3 DEF ScanFails
    <2>2. list' \in 0..MaxProcs
      BY <1>0, <2>1
    <2>3. failures' \in 0..MaxFailures
      <3>1. failures \in 0..MaxFailures
        BY <1>0 DEF TableTyped
      <3> QED BY <1>0, <2>1, <3>1
    <2> QED BY <1>0, <1>1, <2>1, <2>2, <2>3 DEF TableTyped
  <1> QED BY <1>2, <1>3 DEF RunRefreshProcessList, InitProcessList

LEMMA TypeStep ==
    ASSUME TypeOK, [Next]_vars
    PROVE  TypeOK'
  <1>0. /\ MaxProcs \in Nat /\ MaxChanges \in Nat /\ MaxFailures \in Nat
        /\ MaxRequests \in Nat /\ MaxCrashes \in Nat
    BY ProcessListAssumption
  <1>1. CASE ProcessInit
    <2>1. TableTyped' /\ timer' \in Timers
      BY <1>1, RefreshTyped DEF ProcessInit, Timers
    <2> QED BY <1>1, <2>1 DEF ProcessInit, device, TypeOK, TableTyped,
                        Timers
  <1>2. CASE RefreshInstanceTimer
    <2>1. CASE tr069
      <3>1. /\ requests' = requests + 1 /\ orphans' = orphans
            /\ requests < MaxRequests
            /\ timer' = "off"
            /\ UNCHANGED <<device, daemon, table, known>>
        BY <1>2, <2>1 DEF RefreshInstanceTimer
      <3>2. requests \in 0..MaxRequests /\ orphans \in Nat
        BY DEF TypeOK
      <3>3. requests' \in 0..MaxRequests /\ orphans' \in Nat
        BY <1>0, <3>1, <3>2
      <3> QED BY <3>1, <3>2, <3>3 DEF device, daemon, table, TypeOK
    <2>2. CASE ~tr069
      <3>1. TableTyped' /\ timer' \in Timers
        BY <1>2, <2>2, RefreshTyped DEF RefreshInstanceTimer, Timers
      <3> QED BY <1>2, <2>2, <3>1 DEF RefreshInstanceTimer, device, daemon,
              TypeOK, TableTyped, Timers
    <2> QED BY <2>1, <2>2
  <1>3. CASE UbusCallComplete
    <2>1. TableTyped' /\ timer' \in Timers
      BY <1>3, RefreshTyped DEF UbusCallComplete, TypeOK, Timers
    <2>2. requests' \in 0..MaxRequests
      BY <1>0, <1>3 DEF UbusCallComplete, TypeOK
    <2> QED BY <1>3, <2>1, <2>2 DEF UbusCallComplete, device, daemon, TypeOK,
            TableTyped, Timers
  <1>4. CASE BrowseProcessEntries \/ Elapse
    <2>1. timer' \in Timers
      BY <1>4 DEF BrowseProcessEntries, Elapse, Timers
    <2> QED BY <1>4, <2>1 DEF BrowseProcessEntries, Elapse, device, daemon,
            table, TypeOK, Timers
  <1>5. CASE ProcessesChange
    BY <1>0, <1>5 DEF ProcessesChange, daemon, table, TypeOK
  <1>6. CASE Tr069Leaves
    <2>1. /\ changes < MaxChanges /\ changes' = changes + 1
          /\ tr069' = FALSE
          /\ \/ UNCHANGED <<requests, orphans>>
             \/ requests' = 0 /\ orphans' = orphans + requests
          /\ UNCHANGED <<daemon, table, known, procs, timer>>
      BY <1>6 DEF Tr069Leaves
    <2>2. /\ requests \in 0..MaxRequests /\ orphans \in Nat
          /\ changes \in 0..MaxChanges
      BY DEF TypeOK
    <2>3. changes' \in 0..MaxChanges
      BY <1>0, <2>1, <2>2
    <2>4. requests' \in 0..MaxRequests /\ orphans' \in Nat
      BY <1>0, <2>1, <2>2
    <2> QED BY <2>1, <2>3, <2>4 DEF daemon, table, TypeOK
  <1>7. CASE Tr069Comes
    BY <1>0, <1>7 DEF Tr069Comes, daemon, table, TypeOK
  <1>8. CASE Crash
    <2>1. crashes' \in 0..MaxCrashes
      <3>1. /\ crashes \in 0..MaxCrashes
            /\ crashes < MaxCrashes /\ crashes' = crashes + 1
        BY <1>8 DEF Crash, TypeOK
      <3> QED BY <1>0, <3>1
    <2>2. /\ list' = 0 /\ process_num' = 0 /\ view' = {}
          /\ requests' = 0 /\ orphans' = 0
          /\ up' = FALSE /\ timer' = "off" /\ complete' = FALSE
          /\ known' = FALSE
          /\ refresh_interval' \in Intervals
          /\ UNCHANGED <<procs, tr069, changes, failures>>
      BY <1>8 DEF Crash, device
    <2>3. 0 \in 0..MaxProcs /\ 0 \in 0..MaxRequests
      BY <1>0
    <2> QED BY <2>1, <2>2, <2>3 DEF TypeOK
  <1>9. CASE UNCHANGED vars
    BY <1>9 DEF vars, device, daemon, table, TypeOK
  <1>10. CASE BbfdmReads
    <2>1. /\ view' = 1..list /\ known' = TRUE
          /\ UNCHANGED <<device, daemon, list, process_num, complete,
                         failures, timer, requests, orphans>>
      BY <1>10 DEF BbfdmReads
    <2>2. view' \subseteq Nat
      BY <1>0, <2>1 DEF TypeOK
    <2> QED BY <2>1, <2>2 DEF device, daemon, TypeOK
  <1> QED BY <1>1, <1>2, <1>3, <1>4, <1>5, <1>6, <1>7, <1>8, <1>9, <1>10
          DEF Next, Daemon, Environment

(***************************************************************************)
(* The lists, the timer, the requests and the instances bbfdm knows of     *)
(* (g_process_ctx, processes.c) stay what their types say: no event gives  *)
(* an instance a number that is not one.                                   *)
(***************************************************************************)
THEOREM ProcessListTypes == Spec => []TypeOK
  <1>1. Init => TypeOK
    <2> SUFFICES ASSUME Init PROVE TypeOK
      OBVIOUS
    <2>1. /\ 0 \in 0..MaxProcs /\ 0 \in 0..MaxRequests /\ 0 \in 0..MaxChanges
          /\ 0 \in 0..MaxFailures /\ 0 \in 0..MaxCrashes
      BY ProcessListAssumption
    <2> QED BY <2>1 DEF Init, TypeOK
  <1>2. TypeOK /\ [Next]_vars => TypeOK'
    BY TypeStep
  <1> QED BY <1>1, <1>2, PTL DEF Spec

=============================================================================
