------------------------------ MODULE Transfers ------------------------------
(***************************************************************************)
(* The file transfers of the data model: Download() of a firmware image    *)
(* (src/src/fw_images.c), Backup() and Restore() of vendor configuration   *)
(* files, and the list of these files (src/src/configs.c), with the checks *)
(* and the TransferComplete! event they share (src/src/utils.c).           *)
(*                                                                         *)
(* The commands are asynchronous: each runs in a process of its own, so    *)
(* that any two may overlap at any step.  They meet in /tmp, where every   *)
(* Backup() uses one path and every Restore() another, while a Download()  *)
(* makes a name of its own; in the fwbank service, which installs images   *)
(* in the background; and in its "sysupgrade" events, which every waiting  *)
(* Download() receives.                                                    *)
(***************************************************************************)
EXTENDS Integers, Sequences, FiniteSets, SequencesExt, FiniteSetsExt

CONSTANTS
    Ops,           \* the operations that will be called
    Calls,         \* the arguments they may be called with, see Call
    Names,         \* names of configuration files
    Hidden,        \* those that begin with a dot
    InitialFiles,  \* those that are there from the start
    StatusFirst,   \* attributes of "sysupgrade": status, bank_id
    Disturbances,  \* what may go wrong, see below
    MaxFileEvents  \* bound: configuration files that come or go

NoName == "no_name"

(***************************************************************************)
(* "concurrent": operations on the same path of /tmp or bank overlap       *)
(* "slow":       an upgrade outlasts those who wait for it                 *)
(* "remove":     remove() of an existing file may fail                     *)
(***************************************************************************)
Kinds == {"Download", "Backup", "Restore"}
Schemes == {"missing", "http", "file", "unsupported"}
Checksums == {"none", "known", "unknown"}

\* The input of an operate command; fields of other kinds are ignored.
Call == [kind : Kinds, url : Schemes, sum : Checksums, bank : Nat,
         auto : BOOLEAN]

ASSUME TransfersAssumption ==
    /\ Calls \subseteq Call
    /\ Hidden \subseteq Names /\ InitialFiles \subseteq Names
    /\ IsFiniteSet(Names) /\ NoName \notin Names
    /\ StatusFirst \in BOOLEAN
    /\ Disturbances \subseteq {"concurrent", "slow", "remove"}
    /\ MaxFileEvents \in Nat
    /\ Ops \cap {"backup", "restore"} = {}

VARIABLES
    pc,        \* where each operation is
    call,      \* what it was called with
    subject,   \* the configuration file a Backup() is about
    fault,     \* fault_msg is not empty
    tmp,       \* the files in /tmp, by path
    waitOk,    \* ev_data.status of a waiting Download()
    reports,   \* TransferComplete! events each operation has sent
    result,    \* what the command returned
    effect,    \* what was uploaded, imported or installed for each operation
    jobs,      \* upgrades going on in the background: operation and bank
    reboots,   \* the operations that had the device rebooted
    files,     \* the files in /etc/config
    vcf,       \* the "vcf" sections of dmmap, with their instance numbers
    fresh,     \* ghost: no file came or went since the last walk
    changes    \* configuration files that came or went

vars == <<pc, call, subject, fault, tmp, waitOk, reports, result, effect,
          jobs, reboots, files, vcf, fresh, changes>>
list == <<files, vcf, fresh, changes>>
service == <<waitOk, jobs, reboots>>
request == <<call, subject>>

-----------------------------------------------------------------------------
(***************************************************************************)
(* Files.  A file is the operations that have written to it, and whether   *)
(* the last of them has finished: only if it was the only one is the file  *)
(* the whole of what that operation was to write.                          *)
(***************************************************************************)
Absent == [by |-> {}, done |-> FALSE]
Begun(p) == [by |-> {p}, done |-> FALSE]
Whole(p) == [by |-> {p}, done |-> TRUE]
File == [by : SUBSET Ops, done : BOOLEAN]
Paths == Ops \cup {"backup", "restore"}

Path(p) ==
    CASE call[p].kind = "Download" -> p
      [] call[p].kind = "Backup"   -> "backup"
      [] call[p].kind = "Restore"  -> "restore"

\* With a file:// URL download_file() has the operation read the file in its
\* place, which is then not its to remove.
Local(p) == call[p].url = "file" /\ call[p].kind # "Backup"
Read(p) == IF Local(p) THEN Whole(p) ELSE tmp[Path(p)]

Running(p) == pc[p] \notin {"idle", "done"}

Init ==
    /\ pc = [p \in Ops |-> "idle"]
    /\ call \in [Ops -> Calls]
    /\ subject = [p \in Ops |-> NoName]
    /\ fault = [p \in Ops |-> FALSE]
    /\ tmp = [f \in Paths |-> Absent]
    /\ waitOk = [p \in Ops |-> FALSE]
    /\ reports = [p \in Ops |-> 0]
    /\ result = [p \in Ops |-> "none"]
    /\ effect = [p \in Ops |-> Absent]
    /\ jobs = {}
    /\ reboots = {}
    /\ files = InitialFiles
    /\ vcf = <<>>
    /\ fresh = FALSE
    /\ changes = 0

\* The operation goes on; a failed check writes fault_msg and goes to "end".
Goto(p, next) == pc' = [pc EXCEPT ![p] = next] /\ UNCHANGED fault
Fail(p) ==
    /\ pc' = [pc EXCEPT ![p] = "end"]
    /\ fault' = [fault EXCEPT ![p] = TRUE]

-----------------------------------------------------------------------------
(***************************************************************************)
(* The list of configuration files                                         *)
(***************************************************************************)
Visible == files \ Hidden
Section == [name : Names, inst : Nat]

\* handle_instance: a new section has the number after the largest.
Numbered(sections, name) ==
    [name |-> name,
     inst |-> 1 + Max({0} \cup {sections[i].inst : i \in DOMAIN sections})]

IsListed(sections, name) ==
    \E i \in DOMAIN sections : sections[i].name = name

\* dmmap_synchronizeVcfInst: files that are not listed are added, in the order
\* of the directory, then the sections whose file is gone are deleted.
Added(order) ==
    LET add(sections, name) ==
            IF IsListed(sections, name) THEN sections
            ELSE Append(sections, [name |-> name, inst |-> 0])
    IN  FoldLeft(add, vcf, order)

Kept(sections) ==
    LET keep(kept, s) ==
            IF s.name \in files THEN Append(kept, s) ELSE kept
    IN  FoldLeft(keep, <<>>, sections)

\* Mutant: nothing is deleted.
NothingDeleted(order) == Added(order)

SynchronizeVcfInst(order) == Kept(Added(order))

\* browseVcfInst: sections without a number get one as the list is walked
\* through, as far as the requested instance.
Numbering(sections, last) ==
    LET number(done, i) ==
            Append(done, IF sections[i].inst = 0 /\ i <= last
                         THEN Numbered(done, sections[i].name)
                         ELSE sections[i])
    IN  FoldLeft(number, <<>>, [i \in DOMAIN sections |-> i])

BrowseVcfInst ==
    /\ \E order \in SetToSeqs(Visible) :
          LET sections == SynchronizeVcfInst(order)
          IN  \E last \in DOMAIN sections \cup {Len(sections)} :
                 vcf' = Numbering(sections, last)
    /\ fresh' = TRUE
    /\ UNCHANGED <<pc, fault, request, tmp, service, reports, result, effect,
                   files, changes>>

\* A package is installed, or removed, with its configuration file.
FileEvent(name) ==
    /\ changes < MaxFileEvents
    /\ changes' = changes + 1
    /\ fresh' = FALSE
    /\ files' = IF name \in files THEN files \ {name} ELSE files \cup {name}
    /\ UNCHANGED <<pc, fault, request, tmp, service, reports, result, effect,
                   vcf>>

-----------------------------------------------------------------------------
(***************************************************************************)
(* The start of an operation                                               *)
(***************************************************************************)
\* The commands and upgrades going on that share a path or a bank with this.
Rivals(p) ==
    {q \in Ops \ {p} :
        /\ Running(q) \/ q \in jobs
        /\ call[q].kind = call[p].kind
        /\ call[p].kind = "Download" => call[q].bank = call[p].bank}

\* Without a URL the command is refused; nothing is transferred or reported.
Refuse(p) ==
    /\ pc[p] = "idle" /\ call[p].url = "missing"
    /\ pc' = [pc EXCEPT ![p] = "done"]
    /\ result' = [result EXCEPT ![p] = "failure"]
    /\ UNCHANGED <<request, fault, tmp, service, reports, effect, list>>

\* Backup() is called on an instance of the list as it was last browsed.
Operate(p) ==
    /\ pc[p] = "idle" /\ call[p].url # "missing"
    /\ "concurrent" \in Disturbances \/ Rivals(p) = {}
    /\ IF call[p].kind = "Backup"
       THEN \E i \in {j \in DOMAIN vcf : vcf[j].inst > 0} :
               subject' = [subject EXCEPT ![p] = vcf[i].name]
       ELSE UNCHANGED subject
    /\ Goto(p, IF call[p].kind = "Backup" THEN "export" ELSE "size")
    /\ UNCHANGED <<call, tmp, service, reports, result, effect, list>>

-----------------------------------------------------------------------------
(***************************************************************************)
(* The transfer and its checks.  Each of them may fail; what the operation *)
(* reads in a file is what is in it at that time.                          *)
(***************************************************************************)
Untouched == UNCHANGED <<request, service, reports, result, list>>

\* validate_file_system_size: is there room for FileSize in /tmp?
CheckSize(p) ==
    /\ pc[p] = "size"
    /\ \/ Goto(p, IF call[p].kind = "Download" THEN "mkstemp" ELSE "fetch")
       \/ Fail(p)
    /\ UNCHANGED <<tmp, effect>> /\ Untouched

MakeTemp(p) ==
    /\ pc[p] = "mkstemp"
    /\ \/ /\ Goto(p, "fetch")
          /\ tmp' = [tmp EXCEPT ![Path(p)] = Begun(p)]
       \/ Fail(p) /\ UNCHANGED tmp
    /\ UNCHANGED effect /\ Untouched

\* download_file truncates the file, of which others may be writers still.
FetchBegin(p) ==
    /\ pc[p] = "fetch"
    /\ Goto(p, "fetching")
    /\ LET writers == {q \in tmp[Path(p)].by : pc[q] = "fetching"}
       IN  tmp' = IF Local(p) THEN tmp ELSE [tmp EXCEPT ![Path(p)] =
                     [by |-> {p} \cup writers, done |-> FALSE]]
    /\ UNCHANGED effect /\ Untouched

\* validate_server_response_code: the scheme is known and the code is the one
\* of success; it may be, and the file be incomplete all the same.
FetchEnd(p) ==
    /\ pc[p] = "fetching"
    /\ IF call[p].url = "unsupported" THEN Fail(p)
       ELSE Goto(p, "checksum") \/ Fail(p)
    /\ \/ /\ p \in tmp[Path(p)].by /\ ~Local(p)
          /\ tmp' = [tmp EXCEPT ![Path(p)].done = TRUE]
       \/ UNCHANGED tmp
    /\ UNCHANGED effect /\ Untouched

\* validate_checksum_value
ChecksumOk(p) ==
    \/ call[p].sum = "none"
    \/ call[p].sum = "known" /\ Read(p) = Whole(p)

Checksum(p) ==
    /\ pc[p] = "checksum"
    /\ IF ChecksumOk(p)
       THEN Goto(p, IF call[p].kind = "Download" THEN "validate" ELSE "import")
       ELSE Fail(p)
    /\ UNCHANGED <<tmp, effect>> /\ Untouched

\* dmuci_import: anything but nothing may be read as a configuration.
Import(p) ==
    /\ pc[p] = "import"
    /\ \/ /\ Read(p) # Absent
          /\ Goto(p, "end")
          /\ effect' = [effect EXCEPT ![p] = Read(p)]
       \/ Fail(p) /\ UNCHANGED effect
    /\ UNCHANGED tmp /\ Untouched

\* dmuci_export_package, of a configuration that may be gone since.
Export(p) ==
    /\ pc[p] = "export"
    /\ \/ /\ subject[p] \in files
          /\ Goto(p, "upload")
          /\ tmp' = [tmp EXCEPT ![Path(p)] = Whole(p)]
       \/ Fail(p) /\ UNCHANGED tmp
    /\ UNCHANGED effect /\ Untouched

\* upload_file: what it reads, if there is anything, reaches the server.
Upload(p) ==
    /\ pc[p] = "upload"
    /\ \/ /\ tmp[Path(p)] # Absent
          /\ effect' = [effect EXCEPT ![p] = tmp[Path(p)]]
          /\ IF call[p].url = "unsupported" THEN Fail(p) ELSE Goto(p, "end")
       \/ Fail(p) /\ UNCHANGED effect
    /\ UNCHANGED tmp /\ Untouched

-----------------------------------------------------------------------------
(***************************************************************************)
(* Download(): the fwbank service installs the image                       *)
(***************************************************************************)
\* "system" "validate_firmware_image": no answer, or a verdict.
Validate(p) ==
    /\ pc[p] = "validate"
    /\ \/ Read(p) = Whole(p) /\ Goto(p, "upgrade")
       \/ Fail(p)
    /\ UNCHANGED <<tmp, effect>> /\ Untouched

\* Mutant: the jobs are told apart by their banks.
UpgradeByBank(p) ==
    /\ pc[p] = "upgrade"
    /\ jobs' = jobs \cup {call[p].bank}
    /\ Goto(p, "register")
    /\ UNCHANGED <<request, tmp, waitOk, reboots, reports, result, effect, list>>

\* fwbank_upgrade: the service takes the image, or does not answer "ok" (in
\* time, in which case it may have taken it).
Upgrade(p) ==
    /\ pc[p] = "upgrade"
    /\ \/ /\ jobs' = jobs \cup {p}
          /\ Goto(p, "register") \/ ("slow" \in Disturbances /\ Fail(p))
       \/ Fail(p) /\ UNCHANGED jobs
    /\ UNCHANGED <<request, tmp, waitOk, reboots, reports, result, effect, list>>

\* dmubus_wait_for_event: events sent before this are lost.
Register(p) ==
    /\ pc[p] = "register"
    /\ Goto(p, "waiting")
    /\ waitOk' = [waitOk EXCEPT ![p] = FALSE]
    /\ UNCHANGED <<request, tmp, jobs, reboots, reports, result, effect, list>>

\* dmubus_receive_sysupgrade, in every process that waits: the attributes are
\* looked at in the order they were sent, and a bank that is not the awaited
\* one ends the search and not the wait.
Matches(p, bank) == call[p].bank = bank

\* Mutant: a status that is not Available does not reset an earlier one.
StatusKept(status, bank) ==
    /\ waitOk' = [p \in Ops |->
          IF pc[p] = "waiting" /\ (StatusFirst \/ Matches(p, bank))
          THEN waitOk[p] \/ status = "Available" ELSE waitOk[p]]
    /\ pc' = [p \in Ops |->
          IF pc[p] = "waiting" /\ Matches(p, bank) THEN "woken" ELSE pc[p]]

ReceiveSysupgrade(status, bank) ==
    /\ waitOk' = [p \in Ops |->
          IF pc[p] = "waiting" /\ (StatusFirst \/ Matches(p, bank))
          THEN status = "Available" ELSE waitOk[p]]
    /\ pc' = [p \in Ops |->
          IF pc[p] = "waiting" /\ Matches(p, bank) THEN "woken" ELSE pc[p]]

\* What a job installs: if the file is gone, it was read before.
Image(p) == IF Read(p) = Absent THEN Whole(p) ELSE Read(p)

\* A "Downloading" event ends neither the wait nor the job.  At its end the
\* job has installed the image, or failed.
JobEnds(p) ==
    /\ p \in jobs
    /\ jobs' = jobs \ {p}
    /\ \/ /\ effect' = [effect EXCEPT ![p] = Image(p)]
          /\ ReceiveSysupgrade("Available", call[p].bank)
       \/ /\ UNCHANGED effect
          /\ ReceiveSysupgrade("Failed", call[p].bank)
    /\ UNCHANGED <<fault, request, tmp, reboots, reports, result, list>>

\* Mutant: the timer is armed by an event.
TimeoutAfterEvent(p) ==
    /\ pc[p] = "waiting" /\ waitOk[p]
    /\ Goto(p, "expired")
    /\ UNCHANGED <<tmp, effect>> /\ Untouched

\* The 120 seconds are over.
WaitTimeout(p) ==
    /\ pc[p] = "waiting"
    /\ "slow" \in Disturbances \/ p \notin jobs
    /\ Goto(p, "expired")
    /\ UNCHANGED <<tmp, effect>> /\ Untouched

\* An event or the time has ended the wait: was it a success, as far as the
\* events say?  With AutoActivate a child
\* (Reboots!ExecReboot) restarts the device.
Woken(p) ==
    /\ pc[p] \in {"woken", "expired"}
    /\ IF waitOk[p] THEN Goto(p, "end") ELSE Fail(p)
    /\ reboots' = IF waitOk[p] /\ call[p].auto THEN reboots \cup {p}
                  ELSE reboots
    /\ UNCHANGED <<request, tmp, waitOk, jobs, reports, result, effect, list>>

-----------------------------------------------------------------------------
(***************************************************************************)
(* The end of an operation                                                 *)
(***************************************************************************)
\* send_transfer_complete_event: the fault code is 0 if fault_msg is empty.
TransferComplete(p) ==
    /\ pc[p] = "end"
    /\ Goto(p, "cleanup")
    /\ reports' = [reports EXCEPT ![p] = @ + 1]
    /\ UNCHANGED <<request, tmp, service, result, effect, list>>

Removable(p) == tmp[Path(p)] # Absent /\ ~Local(p)
Returned(p, ok) == result' = [result EXCEPT ![p] = IF ok THEN "ok" ELSE "failure"]

\* Mutant: nothing is removed after a fault.
CleanupOnSuccess(p) ==
    /\ pc[p] = "cleanup"
    /\ Goto(p, "done")
    /\ tmp' = IF fault[p] THEN tmp ELSE [tmp EXCEPT ![Path(p)] = Absent]
    /\ Returned(p, ~fault[p])
    /\ UNCHANGED <<request, service, reports, effect, list>>

\* The file is there, but another command that ends may remove it first.
Raced(p) ==
    \E q \in Ops \ {p} : pc[q] = "cleanup" /\ Path(q) = Path(p) /\ ~Local(q)

\* The temporary file is removed; a failure of that fails the command, but for
\* a Download(), although the event has been sent.
Cleanup(p) ==
    /\ pc[p] = "cleanup"
    /\ Goto(p, "done")
    /\ \/ /\ tmp' = IF Removable(p) THEN [tmp EXCEPT ![Path(p)] = Absent]
                    ELSE tmp
          /\ Returned(p, ~fault[p])
       \/ /\ "remove" \in Disturbances \/ Raced(p)
          /\ Removable(p)
          /\ Returned(p, call[p].kind = "Download" /\ ~fault[p])
          /\ UNCHANGED tmp
    /\ UNCHANGED <<request, service, reports, effect, list>>

-----------------------------------------------------------------------------
Step(p) ==
    \/ CheckSize(p) \/ MakeTemp(p) \/ FetchBegin(p) \/ FetchEnd(p)
    \/ Checksum(p) \/ Import(p) \/ Export(p) \/ Upload(p)
    \/ Validate(p) \/ Upgrade(p) \/ Register(p) \/ WaitTimeout(p) \/ Woken(p)
    \/ TransferComplete(p) \/ Cleanup(p)

Next ==
    \/ BrowseVcfInst
    \/ \E name \in Names : FileEvent(name)
    \/ \E p \in Ops : Refuse(p) \/ Operate(p) \/ Step(p) \/ JobEnds(p)

Spec == Init /\ [][Next]_vars

\* A process that was started runs, and the script's jobs end.
FairSpec == Spec /\ \A p \in Ops : WF_vars(Step(p)) /\ WF_vars(JobEnds(p))

-----------------------------------------------------------------------------
(***************************************************************************)
(* Properties                                                              *)
(***************************************************************************)
Places == {"idle", "size", "mkstemp", "fetch", "fetching", "checksum",
           "import", "export", "upload", "validate", "upgrade", "register",
           "waiting", "woken", "expired", "end", "cleanup", "done"}

\* The types of the operations, of /tmp and of the list.
TypeOK ==
    /\ pc \in [Ops -> Places]
    /\ call \in [Ops -> Calls]
    /\ subject \in [Ops -> Names \cup {NoName}]
    /\ fault \in [Ops -> BOOLEAN]
    /\ tmp \in [Paths -> File]
    /\ waitOk \in [Ops -> BOOLEAN]
    /\ reports \in [Ops -> Nat]
    /\ result \in [Ops -> {"none", "ok", "failure"}]
    /\ effect \in [Ops -> File]
    /\ jobs \subseteq Ops
    /\ reboots \subseteq Ops
    /\ files \subseteq Names
    /\ vcf \in Seq(Section)
    /\ fresh \in BOOLEAN
    /\ changes \in 0..MaxFileEvents

\* Violated when commands on the fixed path overlap: what is imported is what
\* was checked, "Validate the CheckSum value" and then "Apply config file"
\* (configs.c:122, 129), and what is uploaded was exported by a Backup() of
\* the same file (configs.c:63, 70).
SameSubject(p, f) ==
    /\ f.done
    /\ \A q \in f.by : call[q].kind = "Backup" /\ subject[q] = subject[p]

AppliedAsChecked ==
    \A p \in Ops : effect[p] # Absent =>
        \/ effect[p] = Whole(p)
        \/ call[p].kind = "Backup" /\ SameSubject(p, effect[p])
        \/ call[p].kind = "Restore" /\ call[p].sum = "none"

\* Violated with the attributes in the order of fwbank.c:601: a Download()
\* that reports no fault, or has the device rebooted, has its image on its
\* bank; else it "Failed to apply the downloaded image file"
\* (fw_images.c:282).
SuccessIsReal ==
    \A p \in Ops :
        (reports[p] > 0 /\ ~fault[p]) \/ p \in reboots => effect[p] # Absent

\* A wait that an event has ended counts as a success only if an upgrade of
\* the awaited bank has installed its image, whatever the events of other
\* banks said before and wherever the bank comes in an event
\* (fw_images.c:171-188).
OwnBankTells ==
    \A p \in Ops : pc[p] = "woken" /\ waitOk[p] =>
        \E q \in Ops : /\ call[q].kind = "Download" /\ effect[q] # Absent
                       /\ call[q].bank = call[p].bank

\* A command that has returned has sent one TransferComplete! event, unless it
\* was refused, and has left nothing in /tmp but for a file:// URL; it has not
\* failed after an event without a fault, unless another command on its path
\* removed the file first: on every path through the checks
\* (fw_images.c:291-299, configs.c:80-88, 135-143).
EndsCleanly ==
    \A p \in Ops : pc[p] = "done" =>
        /\ reports[p] = IF call[p].url = "missing" THEN 0 ELSE 1
        /\ result[p] = "ok" => ~fault[p]
        /\ result[p] = "failure" /\ call[p].url # "missing" =>
              fault[p] \/ \E q \in Ops \ {p} : pc[q] # "idle"
                                             /\ Path(q) = Path(p)
        /\ \/ tmp[Path(p)] = Absent
           \/ Local(p)
           \/ \E q \in Ops : Running(q) /\ Path(q) = Path(p)

\* Whenever the list is walked through it shows exactly the visible files,
\* each once, under numbers of their own, and a file that stays keeps its
\* number (configs.c:19-51, 142-157).
SameName(s, t) == s.name = t.name
SameNumber(s, t) == s.inst > 0 /\ s.inst = t.inst

ListFollowsDirectory ==
    [][BrowseVcfInst =>
         /\ {vcf'[i].name : i \in DOMAIN vcf'} = Visible
         /\ \A i, j \in DOMAIN vcf' : i # j =>
               ~SameName(vcf'[i], vcf'[j]) /\ ~SameNumber(vcf'[i], vcf'[j])
         /\ \A i \in DOMAIN vcf, j \in DOMAIN vcf' :
               vcf[i].inst > 0 /\ SameName(vcf[i], vcf'[j])
                  => vcf[i].inst = vcf'[j].inst]_vars

\* Every operation that is started ends: no answer, event or file that does
\* not come holds it for ever (fw_images.c:279).
Finishes == \A p \in Ops : Running(p) ~> pc[p] = "done"

=============================================================================
