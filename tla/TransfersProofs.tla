-------------------------- MODULE TransfersProofs --------------------------
(***************************************************************************)
(* Proofs about Transfers, for any number of operations, any calls, and    *)
(* any configuration files.                                                *)
(***************************************************************************)
EXTENDS Transfers, FiniteSetTheorems, SequenceTheorems, WellFoundedInduction,
        TLAPS

-----------------------------------------------------------------------------
(***************************************************************************)
(* Where an operation may be, by its kind.                                 *)
(***************************************************************************)
Typed ==
    /\ pc \in [Ops -> Places]
    /\ call \in [Ops -> Calls]
    /\ fault \in [Ops -> BOOLEAN]
    /\ tmp \in [Paths -> File]
    /\ waitOk \in [Ops -> BOOLEAN]
    /\ reports \in [Ops -> Nat]
    /\ result \in [Ops -> {"none", "ok", "failure"}]
    /\ effect \in [Ops -> File]
    /\ jobs \subseteq Ops
    /\ reboots \subseteq Ops

Installs == {"upgrade", "register", "waiting", "woken", "expired"}

Placed(p) ==
    /\ pc[p] \in {"mkstemp", "validate"} \cup Installs \/ p \in jobs
          => call[p].kind = "Download"
    /\ pc[p] = "import" => call[p].kind = "Restore"
    /\ pc[p] \in {"export", "upload"} => call[p].kind = "Backup"
    /\ pc[p] \in {"size", "fetch", "fetching", "checksum"}
          => call[p].kind # "Backup"
    /\ Running(p) => call[p].url # "missing"
    /\ p \in jobs => pc[p] \in (Installs \ {"upgrade"})
                                  \cup {"end", "cleanup", "done"}

CInv == Typed /\ \A p \in Ops : Placed(p)

LEMMA CallType ==
    ASSUME Typed, NEW p \in Ops
    PROVE  /\ call[p] \in Call /\ call[p].kind \in Kinds
           /\ call[p].url \in Schemes /\ call[p].sum \in Checksums
           /\ call[p].bank \in Nat /\ call[p].auto \in BOOLEAN
           /\ call[p].kind \in {"Download", "Backup", "Restore"}
  BY TransfersAssumption DEF Typed, Call, Kinds

\* A download has a path of its own.
LEMMA PathType ==
    ASSUME Typed, NEW p \in Ops
    PROVE  /\ Path(p) \in Paths
           /\ tmp[Path(p)] \in File
           /\ Read(p) \in File
           /\ \A q \in Ops : Path(p) = Path(q) <=>
                 /\ call[p].kind = call[q].kind
                 /\ call[p].kind = "Download" => p = q
  <1>1. p # "backup" /\ p # "restore"
    BY TransfersAssumption
  <1>2. \A q \in Ops : q # "backup" /\ q # "restore"
    BY TransfersAssumption
  <1>3. \/ call[p].kind = "Download" /\ Path(p) = p
        \/ call[p].kind = "Backup" /\ Path(p) = "backup"
        \/ call[p].kind = "Restore" /\ Path(p) = "restore"
    BY CallType DEF Path
  <1>4. ASSUME NEW q \in Ops
        PROVE  \/ call[q].kind = "Download" /\ Path(q) = q
               \/ call[q].kind = "Backup" /\ Path(q) = "backup"
               \/ call[q].kind = "Restore" /\ Path(q) = "restore"
    BY CallType DEF Path
  <1>5. Path(p) \in Paths
    BY <1>3 DEF Paths
  <1>6. tmp[Path(p)] \in File
    BY <1>5 DEF Typed
  <1>7. Whole(p) \in File
    BY DEF Whole, File
  <1> QED BY <1>1, <1>2, <1>3, <1>4, <1>5, <1>6, <1>7 DEF Read

LEMMA Written ==
    ASSUME NEW p \in Ops
    PROVE  /\ Begun(p) \in File /\ Whole(p) \in File /\ Absent \in File
           /\ Begun(p) # Absent /\ Whole(p) # Absent /\ Begun(p) # Whole(p)
  <1>1. Begun(p).by = {p} /\ Whole(p).by = {p} /\ Absent.by = {}
        /\ Begun(p).done = FALSE /\ Whole(p).done = TRUE
    BY DEF Begun, Whole, Absent
  <1>2. {p} # {}
    OBVIOUS
  <1>3. Begun(p) \in File /\ Whole(p) \in File /\ Absent \in File
    BY DEF Begun, Whole, Absent, File
  <1> QED BY <1>1, <1>2, <1>3

LEMMA Finished == \A f \in File : [f EXCEPT !.done = TRUE] \in File
  BY DEF File

\* What a step of one operation leaves alone.
Moves(p) ==
    /\ UNCHANGED call
    /\ \E place \in Places \ {"idle"} : pc' = [pc EXCEPT ![p] = place]
    /\ \E b \in BOOLEAN : fault' = [fault EXCEPT ![p] = b]
    /\ \E f \in File : tmp' = [tmp EXCEPT ![Path(p)] = f]
    /\ \E b \in BOOLEAN : waitOk' = [waitOk EXCEPT ![p] = b]
    /\ \E n \in Nat : reports' = [reports EXCEPT ![p] = n]
    /\ \E r \in {"none", "ok", "failure"} : result' = [result EXCEPT ![p] = r]
    /\ \E f \in File : effect' = [effect EXCEPT ![p] = f]
    /\ jobs' \in {jobs, jobs \cup {p}}
    /\ reboots' \in {reboots, reboots \cup {p}}

\* The same for a step that does not change a variable.
LEMMA Unmoved ==
    ASSUME Typed, NEW p \in Ops
    PROVE  /\ UNCHANGED fault
                 => \E b \in BOOLEAN : fault' = [fault EXCEPT ![p] = b]
           /\ UNCHANGED tmp
                 => \E f \in File : tmp' = [tmp EXCEPT ![Path(p)] = f]
           /\ UNCHANGED waitOk
                 => \E b \in BOOLEAN : waitOk' = [waitOk EXCEPT ![p] = b]
           /\ UNCHANGED reports
                 => \E n \in Nat : reports' = [reports EXCEPT ![p] = n]
           /\ UNCHANGED result
                 => \E r \in {"none", "ok", "failure"} :
                       result' = [result EXCEPT ![p] = r]
           /\ UNCHANGED effect
                 => \E f \in File : effect' = [effect EXCEPT ![p] = f]
  <1>1. Path(p) \in Paths
    BY PathType
  <1>2. fault = [fault EXCEPT ![p] = fault[p]] /\ fault[p] \in BOOLEAN
    BY DEF Typed
  <1>3. tmp = [tmp EXCEPT ![Path(p)] = tmp[Path(p)]] /\ tmp[Path(p)] \in File
    BY <1>1 DEF Typed
  <1>4. waitOk = [waitOk EXCEPT ![p] = waitOk[p]] /\ waitOk[p] \in BOOLEAN
    BY DEF Typed
  <1>5. reports = [reports EXCEPT ![p] = reports[p]] /\ reports[p] \in Nat
    BY DEF Typed
  <1>6. result = [result EXCEPT ![p] = result[p]]
        /\ result[p] \in {"none", "ok", "failure"}
    BY DEF Typed
  <1>7. effect = [effect EXCEPT ![p] = effect[p]] /\ effect[p] \in File
    BY DEF Typed
  <1> QED BY <1>2, <1>3, <1>4, <1>5, <1>6, <1>7

LEMMA StepMoves ==
    ASSUME Typed, NEW p \in Ops, Step(p) \/ Refuse(p) \/ Operate(p)
    PROVE  Moves(p)
  <1> DEFINE Place == \E place \in Places \ {"idle"} :
                         pc' = [pc EXCEPT ![p] = place]
             Faulty == \E b \in BOOLEAN : fault' = [fault EXCEPT ![p] = b]
             Stored == \E f \in File : tmp' = [tmp EXCEPT ![Path(p)] = f]
             Applied == \E f \in File : effect' = [effect EXCEPT ![p] = f]
  <1> USE Unmoved, PathType, CallType, Written
  <1>g. ASSUME NEW place \in Places \ {"idle"}, Goto(p, place)
        PROVE  Place /\ Faulty
    BY <1>g DEF Goto
  <1>f. ASSUME Fail(p)
        PROVE  Place /\ Faulty
    BY <1>f DEF Fail, Places
  <1>u. ASSUME Untouched
        PROVE  /\ UNCHANGED <<call, jobs, reboots>>
               /\ UNCHANGED waitOk /\ UNCHANGED reports /\ UNCHANGED result
    BY <1>u DEF Untouched, request, service
  <1>s. ASSUME NEW f \in File, tmp' = [tmp EXCEPT ![Path(p)] = f]
        PROVE  Stored
    BY <1>s
  <1>1. CASE CheckSize(p)
    <2>1. Place /\ Faulty
      BY <1>1, <1>g, <1>f DEF CheckSize, Places
    <2> QED BY <1>1, <1>u, <2>1 DEF CheckSize, Moves
  <1>2. CASE MakeTemp(p)
    <2>1. Place /\ Faulty
      BY <1>2, <1>g, <1>f DEF MakeTemp, Places
    <2>2. Stored
      BY <1>2 DEF MakeTemp
    <2> QED BY <1>2, <1>u, <2>1, <2>2 DEF MakeTemp, Moves
  <1>3. CASE FetchBegin(p)
    <2>1. Place /\ Faulty
      BY <1>3, <1>g DEF FetchBegin, Places
    <2>2. Stored
      <3> DEFINE f == [by |-> {p} \cup {q \in tmp[Path(p)].by :
                                           pc[q] = "fetching"},
                       done |-> FALSE]
      <3>1. f \in File
        BY DEF File
      <3> QED BY <1>3, <3>1 DEF FetchBegin
    <2> QED BY <1>3, <1>u, <2>1, <2>2 DEF FetchBegin, Moves
  <1>4. CASE FetchEnd(p)
    <2>1. Place /\ Faulty
      BY <1>4, <1>g, <1>f DEF FetchEnd, Places
    <2>2. Stored
      <3> DEFINE f == [tmp[Path(p)] EXCEPT !.done = TRUE]
      <3>1. f \in File
        BY Finished
      <3>2. [tmp EXCEPT ![Path(p)].done = TRUE] = [tmp EXCEPT ![Path(p)] = f]
        OBVIOUS
      <3> QED BY <1>4, <3>1, <3>2 DEF FetchEnd
    <2> QED BY <1>4, <1>u, <2>1, <2>2 DEF FetchEnd, Moves
  <1>5. CASE Checksum(p)
    <2>1. Place /\ Faulty
      BY <1>5, <1>g, <1>f DEF Checksum, Places
    <2> QED BY <1>5, <1>u, <2>1 DEF Checksum, Moves
  <1>6. CASE Import(p)
    <2>1. Place /\ Faulty
      BY <1>6, <1>g, <1>f DEF Import, Places
    <2>2. Applied
      BY <1>6 DEF Import
    <2> QED BY <1>6, <1>u, <2>1, <2>2 DEF Import, Moves
  <1>7. CASE Export(p)
    <2>1. Place /\ Faulty
      BY <1>7, <1>g, <1>f DEF Export, Places
    <2>2. Stored
      BY <1>7 DEF Export
    <2> QED BY <1>7, <1>u, <2>1, <2>2 DEF Export, Moves
  <1>8. CASE Upload(p)
    <2>1. Place /\ Faulty
      BY <1>8, <1>g, <1>f DEF Upload, Places
    <2>2. Applied
      BY <1>8 DEF Upload
    <2> QED BY <1>8, <1>u, <2>1, <2>2 DEF Upload, Moves
  <1>9. CASE Validate(p)
    <2>1. Place /\ Faulty
      BY <1>9, <1>g, <1>f DEF Validate, Places
    <2> QED BY <1>9, <1>u, <2>1 DEF Validate, Moves
  <1>10. CASE Upgrade(p)
    <2>1. Place /\ Faulty
      BY <1>10, <1>g, <1>f DEF Upgrade, Places
    <2> QED BY <1>10, <2>1 DEF Upgrade, Moves, request
  <1>11. CASE Register(p)
    <2>1. Place /\ Faulty
      BY <1>11, <1>g DEF Register, Places
    <2> QED BY <1>11, <2>1 DEF Register, Moves, request
  <1>12. CASE WaitTimeout(p)
    <2>1. Place /\ Faulty
      BY <1>12, <1>g DEF WaitTimeout, Places
    <2> QED BY <1>12, <1>u, <2>1 DEF WaitTimeout, Moves
  <1>13. CASE Woken(p)
    <2>1. Place /\ Faulty
      BY <1>13, <1>g, <1>f DEF Woken, Places
    <2> QED BY <1>13, <2>1 DEF Woken, Moves, request
  <1>14. CASE TransferComplete(p)
    <2>1. Place /\ Faulty
      BY <1>14, <1>g DEF TransferComplete, Places
    <2>2. \E n \in Nat : reports' = [reports EXCEPT ![p] = n]
      <3>1. reports[p] + 1 \in Nat
        BY DEF Typed
      <3> QED BY <1>14, <3>1 DEF TransferComplete
    <2> QED
      BY <1>14, <2>1, <2>2 DEF TransferComplete, Moves, request, service
  <1>15. CASE Cleanup(p)
    <2>1. Place /\ Faulty
      BY <1>15, <1>g DEF Cleanup, Places
    <2>2. Stored
      BY <1>15 DEF Cleanup
    <2>3. \E r \in {"none", "ok", "failure"} :
             result' = [result EXCEPT ![p] = r]
      BY <1>15 DEF Cleanup, Returned
    <2> QED
      BY <1>15, <2>1, <2>2, <2>3 DEF Cleanup, Moves, request, service
  <1>16. CASE Refuse(p)
    <2>1. Place
      BY <1>16 DEF Refuse, Places
    <2>2. \E r \in {"none", "ok", "failure"} :
             result' = [result EXCEPT ![p] = r]
      BY <1>16 DEF Refuse
    <2> QED BY <1>16, <2>1, <2>2 DEF Refuse, Moves, request, service
  <1>17. CASE Operate(p)
    <2>1. Place /\ Faulty
      BY <1>17, <1>g DEF Operate, Places
    <2> QED BY <1>17, <2>1 DEF Operate, Moves, service
  <1> QED
    BY <1>1, <1>2, <1>3, <1>4, <1>5, <1>6, <1>7, <1>8, <1>9, <1>10, <1>11,
       <1>12, <1>13, <1>14, <1>15, <1>16, <1>17 DEF Step

LEMMA MovesTyped ==
    ASSUME Typed, NEW p \in Ops, Moves(p)
    PROVE  Typed'
  <1>1. Path(p) \in Paths
    BY PathType
  <1>2. pc' \in [Ops -> Places] /\ fault' \in [Ops -> BOOLEAN]
        /\ waitOk' \in [Ops -> BOOLEAN]
    BY DEF Moves, Typed
  <1>3. tmp' \in [Paths -> File]
    BY <1>1 DEF Moves, Typed
  <1>4. reports' \in [Ops -> Nat] /\ effect' \in [Ops -> File]
        /\ result' \in [Ops -> {"none", "ok", "failure"}]
    BY DEF Moves, Typed
  <1>5. jobs' \subseteq Ops /\ reboots' \subseteq Ops
        /\ call' \in [Ops -> Calls]
    BY DEF Moves, Typed
  <1> QED BY <1>2, <1>3, <1>4, <1>5 DEF Typed

\* Another operation is where it was.
LEMMA MovesOthers ==
    ASSUME Typed, NEW p \in Ops, Moves(p), NEW q \in Ops, q # p
    PROVE  /\ pc'[q] = pc[q] /\ fault'[q] = fault[q] /\ waitOk'[q] = waitOk[q]
           /\ reports'[q] = reports[q] /\ result'[q] = result[q]
           /\ effect'[q] = effect[q] /\ call' = call
           /\ q \in jobs' <=> q \in jobs
           /\ q \in reboots' <=> q \in reboots
  BY DEF Moves, Typed

LEMMA StepPlaced ==
    ASSUME CInv, NEW p \in Ops, Step(p) \/ Refuse(p) \/ Operate(p)
    PROVE  Placed(p)'
  <1>1. Typed /\ Placed(p) /\ Moves(p)
    BY StepMoves DEF CInv
  <1>2. call' = call /\ jobs' \in {jobs, jobs \cup {p}}
    BY <1>1 DEF Moves
  <1> USE <1>1, <1>2, CallType
  <1>g. ASSUME NEW place, Goto(p, place)
        PROVE  pc'[p] = place
    BY <1>g DEF Goto, Typed
  <1>f. Fail(p) => pc'[p] = "end"
    BY DEF Fail, Typed
  <1>3. CASE CheckSize(p) \/ MakeTemp(p) \/ FetchBegin(p) \/ FetchEnd(p)
             \/ Checksum(p) \/ Import(p) \/ Export(p) \/ Upload(p)
             \/ Validate(p)
    <2>1. jobs' = jobs
      BY <1>3 DEF CheckSize, MakeTemp, FetchBegin, FetchEnd, Checksum, Import,
                  Export, Upload, Validate, Untouched, service
    <2>2. CASE CheckSize(p)
      BY <1>g, <1>f, <2>1, <2>2 DEF CheckSize, Placed, Running, Installs
    <2>3. CASE MakeTemp(p)
      BY <1>g, <1>f, <2>1, <2>3 DEF MakeTemp, Placed, Running, Installs
    <2>4. CASE FetchBegin(p)
      BY <1>g, <2>1, <2>4 DEF FetchBegin, Placed, Running, Installs
    <2>5. CASE FetchEnd(p)
      BY <1>g, <1>f, <2>1, <2>5 DEF FetchEnd, Placed, Running, Installs
    <2>6. CASE Checksum(p)
      BY <1>g, <1>f, <2>1, <2>6 DEF Checksum, Placed, Running, Installs
    <2>7. CASE Import(p)
      BY <1>g, <1>f, <2>1, <2>7 DEF Import, Placed, Running, Installs
    <2>8. CASE Export(p)
      BY <1>g, <1>f, <2>1, <2>8 DEF Export, Placed, Running, Installs
    <2>9. CASE Upload(p)
      BY <1>g, <1>f, <2>1, <2>9 DEF Upload, Placed, Running, Installs
    <2>10. CASE Validate(p)
      BY <1>g, <1>f, <2>1, <2>10 DEF Validate, Placed, Running, Installs
    <2> QED
      BY <1>3, <2>2, <2>3, <2>4, <2>5, <2>6, <2>7, <2>8, <2>9, <2>10
  <1>4. CASE Upgrade(p)
    BY <1>4, <1>g, <1>f DEF Upgrade, Placed, Running, Installs
  <1>5. CASE Register(p)
    BY <1>5, <1>g DEF Register, Placed, Running, Installs
  <1>6. CASE WaitTimeout(p)
    BY <1>6, <1>g
    DEF WaitTimeout, Placed, Running, Installs, Untouched, service
  <1>7. CASE Woken(p)
    BY <1>7, <1>g, <1>f DEF Woken, Placed, Running, Installs
  <1>8. CASE TransferComplete(p)
    BY <1>8, <1>g DEF TransferComplete, Placed, Running, Installs, service
  <1>9. CASE Cleanup(p)
    BY <1>9, <1>g DEF Cleanup, Placed, Running, Installs, service
  <1>10. CASE Refuse(p)
    BY <1>10 DEF Refuse, Placed, Running, Installs, service, Typed
  <1>11. CASE Operate(p)
    BY <1>11, <1>g DEF Operate, Placed, Running, Installs, service
  <1> QED
    BY <1>3, <1>4, <1>5, <1>6, <1>7, <1>8, <1>9, <1>10, <1>11 DEF Step

\* The end of a job changes its operation's effect and wakes waiting ones.
LEMMA JobShape ==
    ASSUME CInv, NEW p \in Ops, JobEnds(p)
    PROVE  /\ UNCHANGED <<call, tmp, fault, reports, result, reboots, list>>
           /\ p \in jobs /\ jobs' = jobs \ {p}
           /\ Typed'
           /\ \A q \in Ops :
                 pc'[q] # pc[q] =>
                    pc[q] = "waiting" /\ pc'[q] = "woken"
                       /\ call[q].bank = call[p].bank
           /\ \A q \in Ops : waitOk'[q] # waitOk[q] => pc[q] = "waiting"
           /\ \A q \in Ops \ {p} : effect'[q] = effect[q]
           /\ effect'[p] \in {effect[p], Image(p)}
  <1>1. Image(p) \in File
    BY PathType, Written DEF Image, CInv
  <1>2. effect' \in [Ops -> File]
    BY <1>1 DEF JobEnds, CInv, Typed
  <1>3. /\ \A q \in Ops \ {p} : effect'[q] = effect[q]
        /\ effect'[p] \in {effect[p], Image(p)}
    BY DEF JobEnds, CInv, Typed
  <1>4. \E status \in {"Available", "Failed"} :
           ReceiveSysupgrade(status, call[p].bank)
    BY DEF JobEnds
  <1>5. PICK status \in {"Available", "Failed"} :
           ReceiveSysupgrade(status, call[p].bank)
    BY <1>4
  <1>6. /\ pc' \in [Ops -> Places]
        /\ \A q \in Ops :
              pc'[q] # pc[q] =>
                 pc[q] = "waiting" /\ pc'[q] = "woken"
                    /\ call[q].bank = call[p].bank
    BY <1>5 DEF ReceiveSysupgrade, Matches, CInv, Typed, Places
  <1>7. waitOk' = [q \in Ops |->
           IF pc[q] = "waiting" /\ (StatusFirst \/ Matches(q, call[p].bank))
           THEN status = "Available" ELSE waitOk[q]]
    BY <1>5 DEF ReceiveSysupgrade
  <1>8. waitOk' \in [Ops -> BOOLEAN]
    <2>1. \A q \in Ops : waitOk[q] \in BOOLEAN
      BY DEF CInv, Typed
    <2>2. (status = "Available") \in BOOLEAN
      OBVIOUS
    <2> QED BY <1>7, <2>1, <2>2
  <1>9. \A q \in Ops : waitOk'[q] # waitOk[q] => pc[q] = "waiting"
    BY <1>7
  <1>10. /\ UNCHANGED <<call, tmp, fault, reports, result, reboots, list>>
         /\ p \in jobs /\ jobs' = jobs \ {p}
    BY DEF JobEnds, request
  <1>11. Typed'
    BY <1>2, <1>6, <1>8, <1>10 DEF CInv, Typed
  <1> QED BY <1>3, <1>6, <1>9, <1>10, <1>11

LEMMA ControlStep ==
    ASSUME CInv, [Next]_vars
    PROVE  CInv'
  <1>1. ASSUME UNCHANGED <<pc, call, fault, tmp, waitOk, reports, result,
                           effect, jobs, reboots>>
        PROVE  CInv'
    BY <1>1 DEF CInv, Typed, Placed, Running, Installs
  <1>2. ASSUME NEW p \in Ops, Step(p) \/ Refuse(p) \/ Operate(p)
        PROVE  CInv'
    <2>1. Typed /\ Moves(p)
      BY <1>2, StepMoves DEF CInv
    <2>2. ASSUME NEW q \in Ops, q # p
          PROVE  Placed(q)'
      <3>1. Placed(q)
        BY DEF CInv
      <3> QED
        BY <2>1, <2>2, <3>1, MovesOthers DEF Placed, Running
    <2> QED BY <1>2, <2>1, <2>2, StepPlaced, MovesTyped DEF CInv
  <1>3. ASSUME NEW p \in Ops, JobEnds(p)
        PROVE  CInv'
    <2>1. ASSUME NEW q \in Ops
          PROVE  Placed(q)'
      <3>1. Placed(q)
        BY DEF CInv
      <3>2. call' = call /\ (q \in jobs' => q \in jobs)
        BY <1>3, JobShape
      <3>3. CASE pc'[q] = pc[q]
        BY <3>1, <3>2, <3>3 DEF Placed, Running, Installs
      <3>4. CASE pc[q] = "waiting" /\ pc'[q] = "woken"
        BY <3>1, <3>2, <3>4 DEF Placed, Running, Installs
      <3> QED BY <1>3, <3>3, <3>4, JobShape
    <2> QED BY <1>3, <2>1, JobShape DEF CInv
  <1>4. BrowseVcfInst => UNCHANGED <<pc, call, fault, tmp, waitOk, reports,
                                     result, effect, jobs, reboots>>
    BY DEF BrowseVcfInst, request, service
  <1>5. ASSUME NEW name \in Names, FileEvent(name)
        PROVE  UNCHANGED <<pc, call, fault, tmp, waitOk, reports, result,
                           effect, jobs, reboots>>
    BY <1>5 DEF FileEvent, request, service
  <1>6. UNCHANGED vars => UNCHANGED <<pc, call, fault, tmp, waitOk, reports,
                                      result, effect, jobs, reboots>>
    BY DEF vars
  <1> QED BY <1>1, <1>2, <1>3, <1>4, <1>5, <1>6 DEF Next

LEMMA InitControl ==
    ASSUME Init
    PROVE  CInv
  <1>1. Absent \in File
    BY DEF Absent, File
  <1>2. Typed
    BY <1>1 DEF Init, Typed, Places
  <1>3. \A p \in Ops : pc[p] = "idle" /\ p \notin jobs
    BY DEF Init
  <1> QED BY <1>2, <1>3 DEF CInv, Placed, Running, Installs

-----------------------------------------------------------------------------
(***************************************************************************)
(* The end of a command                                                    *)
(***************************************************************************)
Removes == "remove" \notin Disturbances

\* Another command on the same path has been called.
Met(p) == \E q \in Ops \ {p} : pc[q] # "idle" /\ Path(q) = Path(p)

\* One event, sent with the result that the command will return.
Reported(p) ==
    /\ reports[p] = IF call[p].url # "missing" /\ pc[p] \in {"cleanup", "done"}
                    THEN 1 ELSE 0
    /\ pc[p] = "done" =>
          /\ result[p] = "ok" => ~fault[p]
          /\ result[p] = "failure" /\ call[p].url # "missing"
                => fault[p] \/ Met(p)

\* Whoever will remove a file, or the download that forgets it.
Owner(f, q) ==
    /\ Path(q) = f
    /\ \/ Running(q) /\ ~Local(q)
       \/ Local(q) /\ call[q].kind = "Download"

Owned(f) == tmp[f] # Absent => \E q \in Ops : Owner(f, q)

EInv ==
    /\ CInv
    /\ \A p \in Ops : Reported(p)
    /\ \A f \in Paths : Owned(f)

LEMMA MetStays ==
    ASSUME Typed, NEW p \in Ops, Moves(p), NEW o \in Ops, Met(o)
    PROVE  Met(o)'
  <1>1. PICK q \in Ops \ {o} : pc[q] # "idle" /\ Path(q) = Path(o)
    BY DEF Met
  <1>2. pc'[q] # "idle"
    BY <1>1 DEF Moves, Typed
  <1>3. Path(q)' = Path(o)'
    BY <1>1 DEF Moves, Path
  <1> QED BY <1>2, <1>3 DEF Met

LEMMA StepReported ==
    ASSUME Removes, CInv, NEW p \in Ops, Reported(p),
           Step(p) \/ Refuse(p) \/ Operate(p)
    PROVE  Reported(p)'
  <1>1. Typed /\ Placed(p) /\ Moves(p) /\ call' = call
    BY StepMoves DEF CInv, Moves
  <1> USE <1>1
  <1>g. ASSUME NEW place, Goto(p, place)
        PROVE  pc'[p] = place /\ fault'[p] = fault[p]
    BY <1>g DEF Goto, Typed
  <1>f. Fail(p) => pc'[p] = "end"
    BY DEF Fail, Typed
  <1>2. CASE /\ reports' = reports
             /\ pc[p] \notin {"cleanup", "done"}
             /\ pc'[p] \notin {"cleanup", "done"}
    BY <1>2 DEF Reported
  <1>3. CASE TransferComplete(p)
    <2>1. pc'[p] = "cleanup" /\ reports'[p] = reports[p] + 1 /\ pc[p] = "end"
      BY <1>3, <1>g DEF TransferComplete, Typed
    <2>2. call[p].url # "missing"
      BY <2>1 DEF Placed, Running
    <2> QED BY <2>1, <2>2 DEF Reported
  <1>4. CASE Cleanup(p)
    <2>1. /\ pc[p] = "cleanup" /\ pc'[p] = "done"
          /\ reports' = reports /\ fault'[p] = fault[p]
          /\ \/ Returned(p, ~fault[p])
             \/ Raced(p) /\ Returned(p, call[p].kind = "Download" /\ ~fault[p])
      BY <1>4, <1>g DEF Cleanup, Removes
    <2>2. Raced(p) => Met(p)'
      <3>1. Raced(p) => Met(p)
        BY DEF Raced, Met
      <3> QED BY <3>1, MetStays
    <2>3. /\ result'[p] = "ok" => ~fault[p]
          /\ result'[p] = "failure" => fault[p] \/ Raced(p)
      BY <2>1 DEF Returned, Typed
    <2> QED BY <2>1, <2>2, <2>3 DEF Reported
  <1>5. CASE Refuse(p)
    BY <1>5 DEF Refuse, Reported, Typed
  <1>6. CASE Operate(p)
    BY <1>2, <1>6, <1>g DEF Operate
  <1>7. CASE CheckSize(p) \/ MakeTemp(p) \/ FetchBegin(p) \/ FetchEnd(p)
             \/ Checksum(p) \/ Import(p) \/ Export(p) \/ Upload(p)
    BY <1>2, <1>7, <1>g, <1>f
    DEF CheckSize, MakeTemp, FetchBegin, FetchEnd, Checksum, Import, Export,
        Upload, Untouched
  <1>8. CASE Validate(p) \/ Upgrade(p) \/ Register(p) \/ WaitTimeout(p)
             \/ Woken(p)
    BY <1>2, <1>8, <1>g, <1>f
    DEF Validate, Upgrade, Register, WaitTimeout, Woken, Untouched
  <1> QED BY <1>3, <1>4, <1>5, <1>6, <1>7, <1>8 DEF Step

\* What a step does to its file.
LEMMA StepFile ==
    ASSUME Removes, CInv, NEW p \in Ops, Step(p) \/ Refuse(p) \/ Operate(p)
    PROVE  \/ tmp'[Path(p)] = tmp[Path(p)] /\ (Running(p) => Running(p)')
           \/ tmp'[Path(p)] = Absent
           \/ Owner(Path(p), p)'
           \/ tmp'[Path(p)] = tmp[Path(p)] /\ (Local(p) \/ Raced(p))
  <1>1. Typed /\ Placed(p) /\ Moves(p) /\ call' = call
    BY StepMoves DEF CInv, Moves
  <1> USE <1>1
  <1>p. Path(p) \in Paths
    BY PathType
  <1>c. Path(p)' = Path(p) /\ (Local(p)' <=> Local(p))
    BY DEF Path, Local
  <1>g. ASSUME NEW place, Goto(p, place)
        PROVE  pc'[p] = place
    BY <1>g DEF Goto, Typed
  <1>f. Fail(p) => pc'[p] = "end"
    BY DEF Fail, Typed
  <1>2. CASE /\ tmp' = tmp \/ (~Local(p) \/ call[p].kind = "Download")
             /\ pc'[p] \notin {"idle", "done"}
    BY <1>2, <1>c DEF Running, Owner
  <1>3. CASE Cleanup(p)
    <2>1. \/ tmp' = IF Removable(p) THEN [tmp EXCEPT ![Path(p)] = Absent]
                   ELSE tmp
          \/ Raced(p) /\ tmp' = tmp
      BY <1>3 DEF Cleanup, Removes
    <2>2. CASE Removable(p)
      BY <1>p, <2>1, <2>2 DEF Typed
    <2>3. CASE ~Removable(p)
      BY <2>1, <2>3 DEF Removable
    <2> QED BY <2>2, <2>3
  <1>4. CASE Refuse(p)
    BY <1>4 DEF Refuse, Running
  <1>5. CASE Operate(p)
    BY <1>2, <1>5, <1>g DEF Operate
  <1>6. CASE MakeTemp(p)
    BY <1>2, <1>6, <1>g, <1>f DEF MakeTemp, Placed
  <1>7. CASE FetchBegin(p) \/ FetchEnd(p)
    <2>1. pc'[p] \notin {"idle", "done"}
      BY <1>7, <1>g, <1>f DEF FetchBegin, FetchEnd
    <2>2. Local(p) => tmp' = tmp
      BY <1>7 DEF FetchBegin, FetchEnd
    <2> QED BY <1>2, <2>1, <2>2
  <1>8. CASE Export(p)
    <2>1. ~Local(p)
      BY <1>8 DEF Export, Placed, Local
    <2> QED BY <1>2, <1>8, <1>g, <1>f, <2>1 DEF Export
  <1>9. CASE CheckSize(p) \/ Checksum(p) \/ Import(p) \/ Upload(p)
             \/ Validate(p)
    BY <1>2, <1>9, <1>g, <1>f
    DEF CheckSize, Checksum, Import, Upload, Validate
  <1>10. CASE Upgrade(p) \/ Register(p) \/ WaitTimeout(p) \/ Woken(p)
              \/ TransferComplete(p)
    BY <1>2, <1>10, <1>g, <1>f
    DEF Upgrade, Register, WaitTimeout, Woken, TransferComplete
  <1> QED
    BY <1>3, <1>4, <1>5, <1>6, <1>7, <1>8, <1>9, <1>10 DEF Step

LEMMA EndStep ==
    ASSUME Removes, EInv, [Next]_vars
    PROVE  EInv'
  <1>0. CInv'
    BY ControlStep DEF EInv
  <1>1. ASSUME UNCHANGED <<pc, call, fault, tmp, reports, result>>
        PROVE  EInv'
    <2>1. \A q \in Ops : Path(q)' = Path(q) /\ (Local(q)' <=> Local(q))
      BY <1>1 DEF Path, Local
    <2>2. \A q \in Ops : Met(q) <=> Met(q)'
      BY <1>1, <2>1 DEF Met
    <2>3. \A q \in Ops : Reported(q) => Reported(q)'
      BY <1>1, <2>2 DEF Reported
    <2>4. \A f \in Paths : Owned(f) => Owned(f)'
      BY <1>1, <2>1 DEF Owned, Owner, Running
    <2> QED BY <1>0, <2>3, <2>4 DEF EInv
  <1>2. ASSUME NEW p \in Ops, Step(p) \/ Refuse(p) \/ Operate(p)
        PROVE  EInv'
    <2>1. Typed /\ Moves(p) /\ call' = call
      BY <1>2, StepMoves DEF EInv, CInv, Moves
    <2>2. ASSUME NEW q \in Ops
          PROVE  Reported(q)'
      <3>1. CASE q = p
        BY <1>2, <3>1, StepReported DEF EInv
      <3>2. CASE q # p
        <4>1. Met(q) => Met(q)'
          BY <2>1, MetStays
        <4> QED BY <2>1, <3>2, <4>1, MovesOthers DEF EInv, Reported
      <3> QED BY <3>1, <3>2
    <2>3. \A q \in Ops : Path(q)' = Path(q) /\ (Local(q)' <=> Local(q))
      BY <2>1 DEF Path, Local
    <2>4. ASSUME NEW f \in Paths, NEW q \in Ops, q # p, Owner(f, q)
          PROVE  Owner(f, q)'
      BY <2>1, <2>3, <2>4, MovesOthers DEF Owner, Running
    <2>5. ASSUME NEW f \in Paths, f # Path(p)
          PROVE  Owned(f)'
      <3>1. tmp'[f] = tmp[f]
        BY <2>1, <2>5 DEF Moves, Typed
      <3>2. ~Owner(f, p)
        BY <2>5 DEF Owner
      <3> QED BY <2>4, <3>1, <3>2 DEF EInv, Owned
    <2>6. Path(p) \in Paths
      BY <2>1, PathType
    <2>7. Owned(Path(p))'
      <3>1. Path(p)' = Path(p)
        BY <2>3
      <3> SUFFICES ASSUME tmp'[Path(p)] # Absent
                   PROVE  \E q \in Ops : Owner(Path(p), q)'
        BY <3>1 DEF Owned
      <3>2. CASE Owner(Path(p), p)'
        BY <3>2
      <3>3. CASE tmp'[Path(p)] = tmp[Path(p)] /\ ~Owner(Path(p), p)'
                 /\ ((Running(p) => Running(p)') \/ Local(p))
        <4>1. PICK q \in Ops : Owner(Path(p), q)
          BY <2>6, <3>3 DEF EInv, Owned
        <4>2. q # p
          BY <2>1, <2>3, <3>1, <3>3, <4>1 DEF Owner
        <4>3. Owner(Path(p), q)'
          <5>1. Running(q)' <=> Running(q)
            BY <2>1, <4>2, MovesOthers DEF Running
          <5> QED BY <2>1, <2>3, <4>1, <5>1 DEF Owner
        <4> QED BY <4>3
      <3>4. CASE Raced(p)
        <4>1. PICK q \in Ops \ {p} :
                 pc[q] = "cleanup" /\ Path(q) = Path(p) /\ ~Local(q)
          BY <3>4 DEF Raced
        <4>2. Running(q)'
          BY <2>1, <4>1, MovesOthers DEF Running
        <4> QED BY <2>3, <4>1, <4>2 DEF Owner
      <3> QED BY <1>2, <3>2, <3>3, <3>4, StepFile DEF EInv
    <2>8. \A f \in Paths : Owned(f)'
      BY <2>3, <2>5, <2>7
    <2> QED BY <1>0, <2>2, <2>8 DEF EInv
  <1>3. ASSUME NEW p \in Ops, JobEnds(p)
        PROVE  EInv'
    <2>1. /\ UNCHANGED <<call, tmp, fault, reports, result>>
          /\ \A q \in Ops : pc'[q] # pc[q] =>
                pc[q] = "waiting" /\ pc'[q] = "woken"
      BY <1>3, JobShape DEF EInv
    <2>2. \A q \in Ops : (Running(q)' <=> Running(q))
             /\ Path(q)' = Path(q) /\ (Local(q)' <=> Local(q))
      BY <2>1 DEF Running, Path, Local
    <2>3. ASSUME NEW q \in Ops
          PROVE  Reported(q)'
      <3>1. Met(q) => Met(q)'
        BY <2>1, <2>2 DEF Met
      <3> QED BY <2>1, <3>1 DEF EInv, Reported
    <2>4. \A f \in Paths, q \in Ops : Owner(f, q) => Owner(f, q)'
      BY <2>1, <2>2 DEF Owner
    <2>5. \A f \in Paths : Owned(f)'
      BY <2>1, <2>4 DEF EInv, Owned
    <2> QED BY <1>0, <2>3, <2>5 DEF EInv
  <1>4. BrowseVcfInst \/ (\E name \in Names : FileEvent(name)) \/ UNCHANGED vars
           => UNCHANGED <<pc, call, fault, tmp, reports, result>>
    BY DEF BrowseVcfInst, FileEvent, vars, request, service
  <1> QED BY <1>1, <1>2, <1>3, <1>4 DEF Next

\* Every command, however many overlap and whatever fails, sends one
\* TransferComplete! event, which agrees with its result but for a rival that
\* removed the file first, and leaves nothing in /tmp that no running command
\* will remove, unless remove() itself fails: the exits at
\* fw_images.c:291-299 and at configs.c:80-88 and 135-143 cover every path
\* through the checks.
THEOREM CommandsEndCleanly ==
    ASSUME Removes
    PROVE  Spec => []EndsCleanly
  <1>1. Init => EInv
    BY InitControl DEF Init, EInv, Reported, Owned
  <1>2. EInv /\ [Next]_vars => EInv'
    BY EndStep
  <1>3. EInv => EndsCleanly
    <2> SUFFICES ASSUME EInv, NEW p \in Ops, pc[p] = "done"
                 PROVE  /\ reports[p] = IF call[p].url = "missing" THEN 0 ELSE 1
                        /\ result[p] = "ok" => ~fault[p]
                        /\ result[p] = "failure" /\ call[p].url # "missing"
                              => \/ fault[p]
                                 \/ \E q \in Ops \ {p} :
                                       pc[q] # "idle" /\ Path(q) = Path(p)
                        /\ \/ tmp[Path(p)] = Absent
                           \/ Local(p)
                           \/ \E q \in Ops : Running(q) /\ Path(q) = Path(p)
      BY DEF EndsCleanly
    <2>1. Reported(p) /\ Typed
      BY DEF EInv, CInv
    <2>2. ASSUME tmp[Path(p)] # Absent, ~Local(p)
          PROVE  \E q \in Ops : Running(q) /\ Path(q) = Path(p)
      <3>1. Path(p) \in Paths
        BY <2>1, PathType
      <3>2. PICK q \in Ops : Owner(Path(p), q)
        BY <2>2, <3>1 DEF EInv, Owned
      <3>3. ~(Local(q) /\ call[q].kind = "Download")
        BY <2>1, <2>2, <3>2, PathType DEF Owner
      <3> QED BY <3>2, <3>3 DEF Owner
    <2> QED BY <2>1, <2>2 DEF Reported, Met
  <1> QED BY <1>1, <1>2, <1>3, PTL DEF Spec

-----------------------------------------------------------------------------
(***************************************************************************)
(* A success that an event tells                                           *)
(***************************************************************************)
\* An upgrade of the bank that p asked for has installed its image.
Installed(p) ==
    \E q \in Ops : /\ call[q].kind = "Download" /\ effect[q] # Absent
                   /\ call[q].bank = call[p].bank

Told(p) == pc[p] = "woken" /\ waitOk[p] => Installed(p)

OInv == CInv /\ \A p \in Ops : Told(p)

\* What was uploaded, imported or installed stays so, and no operation wakes
\* itself.
LEMMA StepTold ==
    ASSUME CInv, NEW p \in Ops, Step(p) \/ Refuse(p) \/ Operate(p)
    PROVE  /\ pc'[p] # "woken"
           /\ effect[p] # Absent => effect'[p] # Absent
  <1>1. Typed /\ Placed(p) /\ Moves(p)
    BY StepMoves DEF CInv
  <1> USE <1>1
  <1>g. ASSUME NEW place, Goto(p, place)
        PROVE  pc'[p] = place
    BY <1>g DEF Goto, Typed
  <1>f. Fail(p) => pc'[p] = "end"
    BY DEF Fail, Typed
  <1>2. CASE CheckSize(p) \/ MakeTemp(p) \/ FetchBegin(p) \/ FetchEnd(p)
             \/ Checksum(p) \/ Export(p) \/ Validate(p)
    BY <1>2, <1>g, <1>f
    DEF CheckSize, MakeTemp, FetchBegin, FetchEnd, Checksum, Export, Validate
  <1>3. CASE Import(p)
    BY <1>3, <1>g, <1>f DEF Import, Typed
  <1>4. CASE Upload(p)
    BY <1>4, <1>g, <1>f DEF Upload, Typed
  <1>5. CASE Upgrade(p) \/ Register(p) \/ WaitTimeout(p) \/ Woken(p)
    BY <1>5, <1>g, <1>f DEF Upgrade, Register, WaitTimeout, Woken
  <1>6. CASE TransferComplete(p) \/ Cleanup(p) \/ Operate(p)
    BY <1>6, <1>g DEF TransferComplete, Cleanup, Operate
  <1>7. CASE Refuse(p)
    BY <1>7 DEF Refuse, Typed
  <1> QED BY <1>2, <1>3, <1>4, <1>5, <1>6, <1>7 DEF Step

\* The event of a job tells those who wait for its bank.
LEMMA JobTold ==
    ASSUME OInv, NEW p \in Ops, JobEnds(p), NEW o \in Ops
    PROVE  Told(o)'
  <1>1. /\ CInv /\ Typed /\ Placed(p) /\ Told(o) /\ p \in jobs
        /\ call' = call
        /\ \A q \in Ops \ {p} : effect'[q] = effect[q]
        /\ effect'[p] \in {effect[p], Image(p)}
    BY JobShape DEF OInv, CInv
  <1>2. Image(p) # Absent
    BY DEF Image, Whole, Absent
  <1>3. \A q \in Ops : effect[q] # Absent => effect'[q] # Absent
    BY <1>1, <1>2
  <1>4. Installed(o) => Installed(o)'
    BY <1>1, <1>3 DEF Installed
  <1> SUFFICES ASSUME pc'[o] = "woken", waitOk'[o]
               PROVE  Installed(o)'
    BY DEF Told
  <1>5. CASE pc[o] = "woken"
    <2>1. waitOk[o]
      BY <1>1, <1>5, JobShape
    <2> QED BY <1>1, <1>4, <1>5, <2>1 DEF Told
  <1>6. CASE pc[o] # "woken"
    <2>1. pc[o] = "waiting" /\ call[o].bank = call[p].bank
      BY <1>1, <1>6, JobShape
    <2>2. PICK status \in {"Available", "Failed"} :
             /\ ReceiveSysupgrade(status, call[p].bank)
             /\ status = "Available" =>
                   effect' = [effect EXCEPT ![p] = Image(p)]
      BY DEF JobEnds
    <2>3. waitOk'[o] <=> status = "Available"
      BY <2>1, <2>2 DEF ReceiveSysupgrade, Matches
    <2>4. effect'[p] = Image(p)
      BY <1>1, <2>2, <2>3 DEF Typed
    <2>5. call[p].kind = "Download"
      BY <1>1 DEF Placed
    <2> QED BY <1>1, <1>2, <2>1, <2>4, <2>5 DEF Installed
  <1> QED BY <1>5, <1>6

LEMMA ToldStep ==
    ASSUME OInv, [Next]_vars
    PROVE  OInv'
  <1>0. CInv /\ CInv'
    BY ControlStep DEF OInv
  <1>1. ASSUME UNCHANGED <<pc, call, waitOk, effect>>
        PROVE  OInv'
    BY <1>0, <1>1 DEF OInv, Told, Installed
  <1>2. ASSUME NEW p \in Ops, Step(p) \/ Refuse(p) \/ Operate(p)
        PROVE  OInv'
    <2>1. Typed /\ Moves(p) /\ call' = call
      BY <1>0, <1>2, StepMoves DEF CInv, Moves
    <2>2. pc'[p] # "woken" /\ (effect[p] # Absent => effect'[p] # Absent)
      BY <1>0, <1>2, StepTold
    <2>3. \A q \in Ops : effect[q] # Absent => effect'[q] # Absent
      BY <2>1, <2>2, MovesOthers
    <2>4. ASSUME NEW o \in Ops
          PROVE  Told(o)'
      <3>1. CASE o = p
        BY <2>2, <3>1 DEF Told
      <3>2. CASE o # p
        <4>1. pc'[o] = pc[o] /\ waitOk'[o] = waitOk[o]
          BY <2>1, <3>2, MovesOthers
        <4>2. Installed(o) => Installed(o)'
          BY <2>1, <2>3 DEF Installed
        <4> QED BY <4>1, <4>2 DEF OInv, Told
      <3> QED BY <3>1, <3>2
    <2> QED BY <1>0, <2>4 DEF OInv
  <1>3. ASSUME NEW p \in Ops, JobEnds(p)
        PROVE  OInv'
    BY <1>0, <1>3, JobTold DEF OInv
  <1>4. BrowseVcfInst \/ (\E name \in Names : FileEvent(name)) \/ UNCHANGED vars
           => UNCHANGED <<pc, call, waitOk, effect>>
    BY DEF BrowseVcfInst, FileEvent, vars, request, service
  <1> QED BY <1>1, <1>2, <1>3, <1>4 DEF Next

\* However many downloads overlap, on one bank or on several, and wherever the
\* bank comes in a "sysupgrade" event: a wait that an event ended is a success
\* only if an image was installed on the bank that was asked for, and what was
\* heard of other banks before does not count (fw_images.c:171-188).
THEOREM EventsTellOwnBank == Spec => []OwnBankTells
  <1>1. Init => OInv
    <2>1. ASSUME Init, NEW p \in Ops
          PROVE  Told(p)
      BY <2>1 DEF Init, Told
    <2> QED BY <2>1, InitControl DEF OInv
  <1>2. OInv /\ [Next]_vars => OInv'
    BY ToldStep
  <1>3. OInv => OwnBankTells
    BY DEF OInv, Told, Installed, OwnBankTells
  <1> QED BY <1>1, <1>2, <1>3, PTL DEF Spec

-----------------------------------------------------------------------------
(***************************************************************************)
(* Induction: the order of the naturals is well founded.                   *)
(***************************************************************************)
Below == OpToRel(<, Nat)

LEMMA Least ==
    ASSUME NEW T, T \subseteq Nat, T # {}
    PROVE  \E x \in T : \A y \in T : x <= y
  <1>1. IsWellFoundedOn(Below, Nat)
    BY NatLessThanWellFounded DEF Below
  <1>2. PICK x \in T : \A y \in T : ~(<<y, x>> \in Below)
    BY <1>1, WFMin
  <1>3. \A y \in T : <<y, x>> \in Below <=> y < x
    BY DEF Below, OpToRel
  <1>4. \A y \in T : ~(y < x)
    BY <1>2, <1>3
  <1> QED BY <1>4

\* What fails for some number fails for one with no smaller one: it holds for
\* all if it holds for 0 and is passed on.
LEMMA Upwards ==
    ASSUME NEW n \in Nat, NEW T, 0 \in T,
           \A k \in 1..n : k - 1 \in T => k \in T
    PROVE  \A k \in 0..n : k \in T
  <1> DEFINE B == {k \in 0..n : k \notin T}
  <1> SUFFICES ASSUME B # {} PROVE FALSE
    OBVIOUS
  <1>1. PICK m \in B : \A k \in B : m <= k
    <2>1. B \subseteq Nat
      OBVIOUS
    <2> HIDE DEF B
    <2> QED BY <2>1, Least
  <1>2. m \in 1..n
    OBVIOUS
  <1>3. m - 1 \in T
    BY <1>1, <1>2
  <1> QED BY <1>2, <1>3

LEMMA MaxOf ==
    ASSUME NEW S, S \subseteq Nat, S # {},
           \E u \in Nat : \A y \in S : y <= u
    PROVE  Max(S) \in S /\ \A y \in S : y <= Max(S)
  <1> DEFINE U == {u \in Nat : \A y \in S : y <= u}
  <1>1. PICK m \in U : \A u \in U : m <= u
    <2>1. U \subseteq Nat /\ U # {}
      OBVIOUS
    <2> HIDE DEF U
    <2> QED BY <2>1, Least
  <1>2. m \in S
    <2> SUFFICES ASSUME m \notin S PROVE FALSE
      OBVIOUS
    <2>1. \A y \in S : y <= m - 1
      BY <1>1
    <2>2. m - 1 \in Nat
      <3>1. PICK y \in S : y \in Nat
        OBVIOUS
      <3>2. y <= m - 1
        BY <2>1
      <3> QED BY <3>1, <3>2
    <2>3. m - 1 \in U
      BY <2>1, <2>2
    <2> QED BY <1>1, <2>2, <2>3
  <1>3. \E x \in S : \A y \in S : x >= y
    BY <1>1, <1>2
  <1> QED BY <1>3 DEF Max

LEMMA MaxPart ==
    ASSUME NEW k \in Nat, NEW s, s \subseteq 1..k, s # {}
    PROVE  Max(s) \in s /\ s \ {Max(s)} \subseteq 1..(k - 1)
  <1>1. s \subseteq Nat /\ \A y \in s : y <= k
    OBVIOUS
  <1>2. Max(s) \in s /\ \A y \in s : y <= Max(s)
    BY <1>1, MaxOf
  <1> DEFINE m == Max(s)
  <1>3. m \in s /\ m \in 1..k /\ \A y \in s : y <= m
    BY <1>2
  <1> HIDE DEF m
  <1>4. s \ {m} \subseteq 1..(k - 1)
    BY <1>3
  <1> QED BY <1>3, <1>4 DEF m

LEMMA MaxPrefix ==
    ASSUME NEW k \in Nat \ {0}
    PROVE  1..k # {} /\ Max(1..k) = k /\ (1..k) \ {k} = 1..(k - 1)
  <1>1. 1..k \subseteq Nat /\ k \in 1..k /\ \A y \in 1..k : y <= k
    OBVIOUS
  <1>2. Max(1..k) \in 1..k /\ \A y \in 1..k : y <= Max(1..k)
    <2>1. \E u \in Nat : \A y \in 1..k : y <= u
      BY <1>1
    <2> QED BY <1>1, <2>1, MaxOf
  <1> QED BY <1>1, <1>2

\* A fold of a function: every set of positions has its partial result.
Partial(st, base, seq, s, g) ==
    IF s = {} THEN base ELSE st[<<g[s \ {Max(s)}], seq[Max(s)]>>]

Foldable(st, base, n, seq, X, Acc) ==
    /\ n \in Nat /\ seq \in [1..n -> X]
    /\ base \in Acc /\ st \in [Acc \X X -> Acc]

Solves(g, st, base, n, seq, Acc) ==
    /\ g \in [SUBSET (1..n) -> Acc]
    /\ \A s \in SUBSET (1..n) : g[s] = Partial(st, base, seq, s, g)

LEMMA FoldExists ==
    ASSUME NEW st, NEW base, NEW n, NEW seq, NEW X, NEW Acc,
           Foldable(st, base, n, seq, X, Acc)
    PROVE  \E g : Solves(g, st, base, n, seq, Acc)
  <1> USE DEF Foldable
  <1> DEFINE Upto(k) == \E g \in [SUBSET (1..k) -> Acc] :
                \A s \in SUBSET (1..k) : g[s] = Partial(st, base, seq, s, g)
             T == {k \in Nat : Upto(k)}
  <1>1. Upto(0)
    <2> DEFINE g == [s \in SUBSET (1..0) |-> base]
    <2>1. \A s \in SUBSET (1..0) : s = {}
      OBVIOUS
    <2>2. \A s \in SUBSET (1..0) : g[s] = Partial(st, base, seq, s, g)
      BY <2>1 DEF Partial
    <2> QED BY <2>2
  <1>2. ASSUME NEW k \in 1..n, Upto(k - 1)
        PROVE  Upto(k)
    <2>1. PICK g \in [SUBSET (1..(k - 1)) -> Acc] :
             \A s \in SUBSET (1..(k - 1)) :
                 g[s] = Partial(st, base, seq, s, g)
      BY <1>2
    <2> DEFINE h == [s \in SUBSET (1..k) |-> Partial(st, base, seq, s, g)]
    <2>2. \A s \in SUBSET (1..k) :
             s # {} => /\ Max(s) \in 1..n
                       /\ s \ {Max(s)} \in SUBSET (1..(k - 1))
      <3>1. k \in Nat /\ 1..k \subseteq 1..n
        OBVIOUS
      <3> QED BY <3>1, MaxPart
    <2>3. ASSUME NEW s \in SUBSET (1..k)
          PROVE  Partial(st, base, seq, s, g) \in Acc
      <3>1. CASE s = {}
        BY <3>1 DEF Partial
      <3>2. CASE s # {}
        <4>1. g[s \ {Max(s)}] \in Acc /\ seq[Max(s)] \in X
          BY <2>2, <3>2
        <4> QED BY <3>2, <4>1 DEF Partial
      <3> QED BY <3>1, <3>2
    <2>4. \A s \in SUBSET (1..(k - 1)) : s \in SUBSET (1..k) /\ h[s] = g[s]
      BY <2>1
    <2>5. \A s \in SUBSET (1..k) :
             Partial(st, base, seq, s, g) = Partial(st, base, seq, s, h)
      <3> HIDE DEF h
      <3> QED BY <2>2, <2>4 DEF Partial
    <2>6. h \in [SUBSET (1..k) -> Acc]
      BY <2>3
    <2>7. \A s \in SUBSET (1..k) : h[s] = Partial(st, base, seq, s, h)
      BY <2>5
    <2> HIDE DEF h
    <2> QED BY <2>6, <2>7
  <1> HIDE DEF Upto
  <1>3. 0 \in T /\ \A k \in 1..n : k - 1 \in T => k \in T
    BY <1>1, <1>2
  <1>4. n \in 0..n
    OBVIOUS
  <1>5. n \in T
    <2> HIDE DEF T
    <2> QED BY <1>3, <1>4, Upwards
  <1> QED BY <1>5 DEF Upto, Solves

\* The results of a fold after each position.
Runs(base, n, r) == DOMAIN r = 0..n /\ r[0] = base

\* The fold of dmmap_synchronizeVcfInst over the directory.
AddOne(sections, name) ==
    IF IsListed(sections, name) THEN sections
    ELSE Append(sections, [name |-> name, inst |-> 0])

AddFold(order, g) ==
    g = [s \in SUBSET (DOMAIN order) |->
            IF s = {} THEN vcf ELSE AddOne(g[s \ {Max(s)}], order[Max(s)])]

LEMMA AddedRuns ==
    ASSUME vcf \in Seq(Section), NEW n \in Nat, NEW order \in [1..n -> Names]
    PROVE  \E r : /\ Runs(vcf, n, r) /\ Added(order) = r[n]
                  /\ \A k \in 1..n : r[k] = AddOne(r[k - 1], order[k])
  <1> DEFINE Acc == Seq(Section)
             st == [a \in Acc \X Names |-> AddOne(a[1], a[2])]
             h == CHOOSE g : AddFold(order, g)
  <1>1. ASSUME NEW t \in Acc, NEW name \in Names
        PROVE  AddOne(t, name) \in Acc
    <2>1. [name |-> name, inst |-> 0] \in Section
      BY DEF Section
    <2> QED BY <2>1, AppendProperties DEF AddOne
  <1>2. st \in [Acc \X Names -> Acc]
    BY <1>1
  <1>3. \A t \in Acc, name \in Names : st[<<t, name>>] = AddOne(t, name)
    OBVIOUS
  <1>4. vcf \in Acc /\ DOMAIN order = 1..n
    OBVIOUS
  <1> HIDE DEF Acc, st
  <1>f. Foldable(st, vcf, n, order, Names, Acc)
    BY <1>2, <1>4 DEF Foldable
  <1>5. PICK g : Solves(g, st, vcf, n, order, Acc)
    BY <1>f, FoldExists
  <1> USE DEF Solves
  <1>6. ASSUME NEW s \in SUBSET (1..n)
        PROVE  g[s] = IF s = {} THEN vcf
                      ELSE AddOne(g[s \ {Max(s)}], order[Max(s)])
    <2>1. CASE s = {}
      BY <1>5, <2>1 DEF Partial
    <2>2. CASE s # {}
      <3>1. Max(s) \in s
        BY <2>2, MaxPart
      <3>2. g[s \ {Max(s)}] \in Acc /\ order[Max(s)] \in Names
        BY <1>5, <3>1
      <3> QED BY <1>3, <1>5, <2>2, <3>2 DEF Partial
    <2> QED BY <2>1, <2>2
  <1>7. AddFold(order, g)
    BY <1>4, <1>5, <1>6 DEF AddFold
  <1>8. AddFold(order, h)
    BY <1>7
  <1>9. Added(order) = h[1..n]
    BY <1>4 DEF Added, FoldLeft, MapThenFoldSet, AddFold, AddOne
  <1> HIDE DEF h
  <1> DEFINE r == [k \in 0..n |-> h[1..k]]
  <1>10. r[0] = vcf
    <2>1. 1..0 = {}
      OBVIOUS
    <2> QED BY <1>4, <1>8, <2>1 DEF AddFold
  <1>11. ASSUME NEW k \in 1..n
         PROVE  r[k] = AddOne(r[k - 1], order[k])
    <2>1. 1..k \in SUBSET (1..n) /\ k \in Nat \ {0} /\ k - 1 \in 0..n
      OBVIOUS
    <2>2. h[1..k] = AddOne(h[(1..k) \ {k}], order[k])
      BY <1>4, <1>8, <2>1, MaxPrefix DEF AddFold
    <2>3. (1..k) \ {k} = 1..(k - 1)
      BY <2>1, MaxPrefix
    <2>4. r[k] = h[1..k] /\ r[k - 1] = h[1..(k - 1)]
      BY <2>1
    <2> HIDE DEF r
    <2> QED BY <2>2, <2>3, <2>4
  <1>12. r[n] = h[1..n]
    OBVIOUS
  <1> QED BY <1>9, <1>10, <1>11, <1>12 DEF Runs

\* The fold that deletes the sections whose file is gone.
KeepOne(kept, s) == IF s.name \in files THEN Append(kept, s) ELSE kept

KeepFold(sections, g) ==
    g = [s \in SUBSET (DOMAIN sections) |->
            IF s = {} THEN <<>>
            ELSE KeepOne(g[s \ {Max(s)}], sections[Max(s)])]

LEMMA KeptRuns ==
    ASSUME NEW n \in Nat, NEW sections \in [1..n -> Section]
    PROVE  \E r : /\ Runs(<<>>, n, r) /\ Kept(sections) = r[n]
                  /\ \A k \in 1..n : r[k] = KeepOne(r[k - 1], sections[k])
  <1> DEFINE Acc == Seq(Section)
             st == [a \in Acc \X Section |-> KeepOne(a[1], a[2])]
             h == CHOOSE g : KeepFold(sections, g)
  <1>1. ASSUME NEW t \in Acc, NEW x \in Section
        PROVE  KeepOne(t, x) \in Acc
    BY AppendProperties DEF KeepOne
  <1>2. st \in [Acc \X Section -> Acc]
    BY <1>1
  <1>3. \A t \in Acc, x \in Section : st[<<t, x>>] = KeepOne(t, x)
    OBVIOUS
  <1>4. <<>> \in Acc /\ DOMAIN sections = 1..n
    OBVIOUS
  <1> HIDE DEF Acc, st
  <1>f. Foldable(st, <<>>, n, sections, Section, Acc)
    BY <1>2, <1>4 DEF Foldable
  <1>5. PICK g : Solves(g, st, <<>>, n, sections, Acc)
    BY <1>f, FoldExists
  <1> USE DEF Solves
  <1>6. ASSUME NEW s \in SUBSET (1..n)
        PROVE  g[s] = IF s = {} THEN <<>>
                      ELSE KeepOne(g[s \ {Max(s)}], sections[Max(s)])
    <2>1. CASE s = {}
      BY <1>5, <2>1 DEF Partial
    <2>2. CASE s # {}
      <3>1. Max(s) \in s
        BY <2>2, MaxPart
      <3>2. g[s \ {Max(s)}] \in Acc /\ sections[Max(s)] \in Section
        BY <1>5, <3>1
      <3> QED BY <1>3, <1>5, <2>2, <3>2 DEF Partial
    <2> QED BY <2>1, <2>2
  <1>7. KeepFold(sections, g)
    BY <1>4, <1>5, <1>6 DEF KeepFold
  <1>8. KeepFold(sections, h)
    BY <1>7
  <1>9. Kept(sections) = h[1..n]
    BY <1>4 DEF Kept, FoldLeft, MapThenFoldSet, KeepFold, KeepOne
  <1> HIDE DEF h
  <1> DEFINE r == [k \in 0..n |-> h[1..k]]
  <1>10. r[0] = <<>>
    <2>1. 1..0 = {}
      OBVIOUS
    <2> QED BY <1>4, <1>8, <2>1 DEF KeepFold
  <1>11. ASSUME NEW k \in 1..n
         PROVE  r[k] = KeepOne(r[k - 1], sections[k])
    <2>1. 1..k \in SUBSET (1..n) /\ k \in Nat \ {0} /\ k - 1 \in 0..n
      OBVIOUS
    <2>2. h[1..k] = KeepOne(h[(1..k) \ {k}], sections[k])
      BY <1>4, <1>8, <2>1, MaxPrefix DEF KeepFold
    <2>3. (1..k) \ {k} = 1..(k - 1)
      BY <2>1, MaxPrefix
    <2>4. r[k] = h[1..k] /\ r[k - 1] = h[1..(k - 1)]
      BY <2>1
    <2> HIDE DEF r
    <2> QED BY <2>2, <2>3, <2>4
  <1>12. r[n] = h[1..n]
    OBVIOUS
  <1> QED BY <1>9, <1>10, <1>11, <1>12 DEF Runs

\* The fold of browseVcfInst.  The numbers of a list have a largest one.
LEMMA Bounded ==
    ASSUME NEW t \in Seq(Section)
    PROVE  \E u \in Nat : \A i \in DOMAIN t : t[i].inst <= u
  <1> DEFINE n == Len(t)
             Top(k, u) == \A i \in 1..k : t[i].inst <= u
             T == {k \in 0..n : \E u \in Nat : Top(k, u)}
  <1>1. n \in Nat /\ DOMAIN t = 1..n /\ \A i \in 1..n : t[i].inst \in Nat
    <2>1. \A x \in Section : x.inst \in Nat
      BY DEF Section
    <2> QED BY <2>1
  <1>2. 0 \in T
    <2>1. Top(0, 0)
      OBVIOUS
    <2> QED BY <1>1, <2>1
  <1>3. ASSUME NEW k \in 1..n, k - 1 \in T
        PROVE  k \in T
    <2>1. PICK u \in Nat : Top(k - 1, u)
      BY <1>3
    <2> DEFINE w == IF t[k].inst > u THEN t[k].inst ELSE u
    <2>2. w \in Nat /\ t[k].inst <= w /\ u <= w
      BY <1>1
    <2>3. Top(k, w)
      <3> HIDE DEF w
      <3> SUFFICES ASSUME NEW i \in 1..k PROVE t[i].inst <= w
        OBVIOUS
      <3>1. CASE i = k
        BY <2>2, <3>1
      <3>2. CASE i # k
        <4>1. i \in 1..(k - 1) /\ i \in 1..n
          BY <3>2, <1>1
        <4> QED BY <1>1, <2>1, <2>2, <4>1
      <3> QED BY <3>1, <3>2
    <2> HIDE DEF w, Top
    <2> QED BY <2>2, <2>3
  <1>4. n \in T
    <2>1. n \in 0..n
      BY <1>1
    <2> HIDE DEF T, n
    <2> QED BY <1>1, <1>2, <1>3, <2>1, Upwards
  <1> QED BY <1>1, <1>4

LEMMA NumberedNext ==
    ASSUME NEW t \in Seq(Section), NEW name \in Names
    PROVE  /\ Numbered(t, name) \in Section
           /\ Numbered(t, name).name = name
           /\ Numbered(t, name).inst > 0
           /\ \A i \in DOMAIN t : t[i].inst < Numbered(t, name).inst
  <1> DEFINE S == {0} \cup {t[i].inst : i \in DOMAIN t}
  <1>0. \A i \in DOMAIN t : t[i].inst \in Nat
    <2>1. \A x \in Section : x.inst \in Nat
      BY DEF Section
    <2> QED BY <2>1
  <1>1. S \subseteq Nat /\ S # {}
    BY <1>0
  <1>2. \E u \in Nat : \A y \in S : y <= u
    <2>1. PICK u \in Nat : \A i \in DOMAIN t : t[i].inst <= u
      BY Bounded
    <2>2. \A y \in S : y <= u
      BY <2>1
    <2> QED BY <2>2
  <1>3. \A i \in DOMAIN t : t[i].inst \in S
    OBVIOUS
  <1>4. Numbered(t, name) = [name |-> name, inst |-> 1 + Max(S)]
    BY DEF Numbered
  <1> HIDE DEF S
  <1>5. Max(S) \in Nat /\ \A y \in S : y <= Max(S)
    BY <1>1, <1>2, MaxOf
  <1> DEFINE m == Max(S)
  <1>6. m \in Nat /\ \A i \in DOMAIN t : t[i].inst <= m
    BY <1>3, <1>5
  <1>7. \A i \in DOMAIN t : t[i].inst \in Nat
    BY <1>1, <1>3
  <1> HIDE DEF m
  <1>8. Numbered(t, name) = [name |-> name, inst |-> 1 + m]
    BY <1>4 DEF m
  <1> QED BY <1>6, <1>7, <1>8 DEF Section

NumberOne(sections, last, done, i) ==
    Append(done, IF sections[i].inst = 0 /\ i <= last
                 THEN Numbered(done, sections[i].name)
                 ELSE sections[i])

NumberFold(sections, last, g) ==
    g = [s \in SUBSET (DOMAIN sections) |->
            IF s = {} THEN <<>>
            ELSE NumberOne(sections, last, g[s \ {Max(s)}],
                           [i \in DOMAIN sections |-> i][Max(s)])]

LEMMA NumberingRuns ==
    ASSUME NEW n \in Nat, NEW sections \in [1..n -> Section], NEW last \in Nat
    PROVE  \E r : /\ Runs(<<>>, n, r) /\ Numbering(sections, last) = r[n]
                  /\ \A k \in 1..n :
                        r[k] = NumberOne(sections, last, r[k - 1], k)
  <1> DEFINE Acc == Seq(Section)
             X == 1..n
             st == [a \in Acc \X X |-> NumberOne(sections, last, a[1], a[2])]
             d == [i \in 1..n |-> i]
             h == CHOOSE g : NumberFold(sections, last, g)
  <1>1. ASSUME NEW t \in Acc, NEW x \in X
        PROVE  NumberOne(sections, last, t, x) \in Acc
    <2>1. sections[x] \in Section /\ sections[x].name \in Names
      BY DEF Section
    <2>2. Numbered(t, sections[x].name) \in Section
      BY <2>1, NumberedNext
    <2> QED BY <2>1, <2>2, AppendProperties DEF NumberOne
  <1>2. st \in [Acc \X X -> Acc]
    BY <1>1
  <1>3. \A t \in Acc, x \in X :
           st[<<t, x>>] = NumberOne(sections, last, t, x)
    OBVIOUS
  <1>4. <<>> \in Acc /\ DOMAIN sections = 1..n /\ d \in [1..n -> X]
        /\ \A i \in 1..n : d[i] = i
    OBVIOUS
  <1> HIDE DEF Acc, st, X
  <1>f. Foldable(st, <<>>, n, d, X, Acc)
    BY <1>2, <1>4 DEF Foldable
  <1>5. PICK g : Solves(g, st, <<>>, n, d, Acc)
    BY <1>f, FoldExists
  <1> USE DEF Solves
  <1>6. ASSUME NEW s \in SUBSET (1..n)
        PROVE  g[s] = IF s = {} THEN <<>>
                      ELSE NumberOne(sections, last, g[s \ {Max(s)}],
                                     d[Max(s)])
    <2> HIDE DEF d
    <2>1. CASE s = {}
      BY <1>5, <2>1 DEF Partial
    <2>2. CASE s # {}
      <3>1. Max(s) \in s
        BY <2>2, MaxPart
      <3>2. g[s \ {Max(s)}] \in Acc /\ d[Max(s)] \in X
        BY <1>5, <1>4, <3>1
      <3> QED BY <1>3, <1>5, <2>2, <3>2 DEF Partial
    <2> QED BY <2>1, <2>2
  <1>7. NumberFold(sections, last, g)
    BY <1>4, <1>5, <1>6 DEF NumberFold
  <1>8. NumberFold(sections, last, h)
    BY <1>7
  <1>9. Numbering(sections, last) = h[1..n]
    BY <1>4 DEF Numbering, FoldLeft, MapThenFoldSet, NumberFold, NumberOne
  <1> HIDE DEF h
  <1> DEFINE r == [k \in 0..n |-> h[1..k]]
  <1>10. r[0] = <<>>
    <2>1. 1..0 = {}
      OBVIOUS
    <2> QED BY <1>4, <1>8, <2>1 DEF NumberFold
  <1>11. ASSUME NEW k \in 1..n
         PROVE  r[k] = NumberOne(sections, last, r[k - 1], k)
    <2>1. 1..k \in SUBSET (1..n) /\ k \in Nat \ {0} /\ k - 1 \in 0..n
      OBVIOUS
    <2>2. h[1..k] = NumberOne(sections, last, h[(1..k) \ {k}], k)
      <3>1. 1..k # {} /\ Max(1..k) = k
        BY <2>1, MaxPrefix
      <3>2. h[1..k] = NumberOne(sections, last, h[(1..k) \ {k}], d[k])
        BY <1>4, <1>8, <2>1, <3>1 DEF NumberFold
      <3> QED BY <1>4, <3>2
    <2>3. (1..k) \ {k} = 1..(k - 1)
      BY <2>1, MaxPrefix
    <2>4. r[k] = h[1..k] /\ r[k - 1] = h[1..(k - 1)]
      BY <2>1
    <2> HIDE DEF r
    <2> QED BY <2>2, <2>3, <2>4
  <1>12. r[n] = h[1..n]
    OBVIOUS
  <1> QED BY <1>9, <1>10, <1>11, <1>12 DEF Runs

-----------------------------------------------------------------------------
(***************************************************************************)
(* The list.  Its numbers ascend, and the sections without one come last:  *)
(* that is why 1 + the largest number so far is a new one.                 *)
(***************************************************************************)
Before(x, y) ==
    /\ x.name # y.name
    /\ y.inst = 0 \/ (x.inst > 0 /\ x.inst < y.inst)

Listed(t) ==
    /\ t \in Seq(Section)
    /\ \A i, j \in 1..Len(t) : i < j => Before(t[i], t[j])

LEMMA SectionType ==
    ASSUME NEW t \in Seq(Section)
    PROVE  /\ Len(t) \in Nat /\ DOMAIN t = 1..Len(t)
           /\ \A i \in 1..Len(t) : /\ t[i] \in Section
                                   /\ t[i].name \in Names /\ t[i].inst \in Nat
  <1>1. \A x \in Section : x.name \in Names /\ x.inst \in Nat
    BY DEF Section
  <1>2. Len(t) \in Nat /\ DOMAIN t = 1..Len(t)
    OBVIOUS
  <1>3. \A i \in 1..Len(t) : t[i] \in Section
    OBVIOUS
  <1> QED BY <1>1, <1>2, <1>3

\* One more section at the end.
LEMMA ListedAppend ==
    ASSUME NEW t, Listed(t), NEW x \in Section,
           \A i \in 1..Len(t) : Before(t[i], x)
    PROVE  /\ Listed(Append(t, x))
           /\ Len(t) \in Nat /\ Len(Append(t, x)) = Len(t) + 1
           /\ \A i \in 1..Len(t) : Append(t, x)[i] = t[i]
           /\ Append(t, x)[Len(t) + 1] = x
  <1> DEFINE u == Append(t, x)
             n == Len(t)
  <1>1. t \in Seq(Section) /\ n \in Nat
    BY DEF Listed
  <1>2. /\ u \in Seq(Section) /\ Len(u) = n + 1
        /\ \A i \in 1..n : u[i] = t[i]
        /\ u[n + 1] = x
    BY <1>1, AppendProperties
  <1>3. \A i, j \in 1..n : i < j => Before(t[i], t[j])
    BY DEF Listed
  <1>4. \A i \in 1..n : Before(t[i], x)
    OBVIOUS
  <1> HIDE DEF u, n
  <1>5. ASSUME NEW i \in 1..(n + 1), NEW j \in 1..(n + 1), i < j
        PROVE  Before(u[i], u[j])
    <2>1. i \in 1..n
      BY <1>1, <1>5
    <2>2. CASE j = n + 1
      BY <1>2, <1>4, <2>1, <2>2
    <2>3. CASE j # n + 1
      <3>1. j \in 1..n
        BY <1>1, <2>3
      <3> QED BY <1>2, <1>3, <1>5, <2>1, <3>1
    <2> QED BY <2>2, <2>3
  <1>6. Listed(u)
    BY <1>2, <1>5 DEF Listed
  <1> QED BY <1>1, <1>2, <1>6 DEF u, n

\* After the first k names of the directory.
AddedSoFar(order, k, t) ==
    /\ Listed(t)
    /\ Len(vcf) <= Len(t)
    /\ \A i \in 1..Len(vcf) : t[i] = vcf[i]
    /\ \A j \in 1..k : \E i \in 1..Len(t) : t[i].name = order[j]
    /\ \A i \in 1..Len(t) : i > Len(vcf) =>
          \E j \in 1..k : t[i].name = order[j]

LEMMA AddedMore ==
    ASSUME vcf \in Seq(Section), NEW n \in Nat, NEW order \in [1..n -> Names],
           NEW k \in 1..n, NEW t, AddedSoFar(order, k - 1, t)
    PROVE  AddedSoFar(order, k, AddOne(t, order[k]))
  <1>1. /\ Listed(t) /\ t \in Seq(Section) /\ Len(t) \in Nat
        /\ DOMAIN t = 1..Len(t) /\ Len(vcf) \in Nat /\ Len(vcf) <= Len(t)
        /\ \A i \in 1..Len(t) : t[i].inst \in Nat
    BY SectionType DEF AddedSoFar, Listed
  <1>2. k \in Nat /\ 1..(k - 1) \subseteq 1..k /\ k \in 1..k
        /\ \A j \in 1..k : j \in 1..(k - 1) \/ j = k
    OBVIOUS
  <1>3. CASE IsListed(t, order[k])
    <2>1. AddOne(t, order[k]) = t
      BY <1>3 DEF AddOne
    <2>2. \E i \in 1..Len(t) : t[i].name = order[k]
      BY <1>1, <1>3 DEF IsListed
    <2> QED BY <1>1, <1>2, <2>1, <2>2 DEF AddedSoFar
  <1>4. CASE ~IsListed(t, order[k])
    <2> DEFINE x == [name |-> order[k], inst |-> 0]
               u == Append(t, x)
    <2>1. x \in Section /\ x.name = order[k] /\ x.inst = 0
      BY DEF Section
    <2>2. AddOne(t, order[k]) = u
      BY <1>4 DEF AddOne
    <2> HIDE DEF x
    <2>3. \A i \in 1..Len(t) : Before(t[i], x)
      BY <1>1, <1>4, <2>1 DEF IsListed, Before
    <2>4. /\ Listed(u) /\ Len(u) = Len(t) + 1 /\ u[Len(t) + 1] = x
          /\ \A i \in 1..Len(t) : u[i] = t[i]
      BY <1>1, <2>1, <2>3, ListedAppend
    <2> HIDE DEF u
    <2>5. /\ Len(vcf) <= Len(u) /\ 1..Len(vcf) \subseteq 1..Len(t)
          /\ 1..Len(t) \subseteq 1..Len(u) /\ Len(t) + 1 \in 1..Len(u)
          /\ \A i \in 1..Len(u) : i \in 1..Len(t) \/ i = Len(t) + 1
      BY <1>1, <2>4
    <2>6. \A i \in 1..Len(vcf) : u[i] = vcf[i]
      BY <2>4, <2>5 DEF AddedSoFar
    <2>7. ASSUME NEW j \in 1..k
          PROVE  \E i \in 1..Len(u) : u[i].name = order[j]
      <3>1. CASE j = k
        BY <2>1, <2>4, <2>5, <3>1
      <3>2. CASE j \in 1..(k - 1)
        BY <2>4, <2>5, <3>2 DEF AddedSoFar
      <3> QED BY <1>2, <3>1, <3>2
    <2>8. ASSUME NEW i \in 1..Len(u), i > Len(vcf)
          PROVE  \E j \in 1..k : u[i].name = order[j]
      <3>1. CASE i = Len(t) + 1
        BY <1>2, <2>1, <2>4, <3>1
      <3>2. CASE i \in 1..Len(t)
        BY <1>2, <2>4, <2>8, <3>2 DEF AddedSoFar
      <3> QED BY <2>5, <3>1, <3>2
    <2> QED BY <2>2, <2>4, <2>5, <2>6, <2>7, <2>8 DEF AddedSoFar
  <1> QED BY <1>3, <1>4

LEMMA AddedList ==
    ASSUME Listed(vcf), NEW n \in Nat, NEW order \in [1..n -> Names]
    PROVE  AddedSoFar(order, n, Added(order))
  <1>1. vcf \in Seq(Section)
    BY DEF Listed
  <1>2. PICK r : /\ Runs(vcf, n, r) /\ Added(order) = r[n]
                 /\ \A k \in 1..n : r[k] = AddOne(r[k - 1], order[k])
    BY <1>1, AddedRuns
  <1> DEFINE T == {k \in 0..n : AddedSoFar(order, k, r[k])}
  <1>3. 0 \in T
    <2>1. AddedSoFar(order, 0, vcf)
      BY <1>1, SectionType DEF AddedSoFar
    <2> QED BY <1>2, <2>1 DEF Runs
  <1>4. \A k \in 1..n : k - 1 \in T => k \in T
    BY <1>1, <1>2, AddedMore
  <1>5. n \in T
    <2>1. n \in 0..n
      OBVIOUS
    <2> HIDE DEF T
    <2> QED BY <1>3, <1>4, <2>1, Upwards
  <1> QED BY <1>2, <1>5

\* After the first k sections.
KeptSoFar(sections, k, t) ==
    /\ Listed(t)
    /\ \A i \in 1..Len(t) : \E j \in 1..k :
          t[i] = sections[j] /\ sections[j].name \in files
    /\ \A j \in 1..k : sections[j].name \in files =>
          \E i \in 1..Len(t) : t[i] = sections[j]

LEMMA KeptMore ==
    ASSUME NEW sections, Listed(sections), NEW k \in 1..Len(sections),
           NEW t, KeptSoFar(sections, k - 1, t)
    PROVE  KeptSoFar(sections, k, KeepOne(t, sections[k]))
  <1>1. /\ Listed(t) /\ t \in Seq(Section) /\ Len(t) \in Nat
        /\ Len(sections) \in Nat /\ sections[k] \in Section
    BY SectionType DEF KeptSoFar, Listed
  <1>2. k \in Nat /\ 1..(k - 1) \subseteq 1..k /\ k \in 1..k
        /\ \A j \in 1..k : j \in 1..(k - 1) \/ j = k
    BY <1>1
  <1>3. CASE sections[k].name \notin files
    <2>1. KeepOne(t, sections[k]) = t
      BY <1>3 DEF KeepOne
    <2> QED BY <1>1, <1>2, <1>3, <2>1 DEF KeptSoFar
  <1>4. CASE sections[k].name \in files
    <2> DEFINE x == sections[k]
               u == Append(t, x)
    <2>1. KeepOne(t, x) = u
      BY <1>4 DEF KeepOne
    <2>2. ASSUME NEW i \in 1..Len(t)
          PROVE  Before(t[i], x)
      <3>1. PICK j \in 1..(k - 1) : t[i] = sections[j]
        BY DEF KeptSoFar
      <3>2. j \in 1..Len(sections) /\ j < k
        BY <1>1
      <3> QED BY <3>1, <3>2 DEF Listed
    <2>3. /\ Listed(u) /\ Len(u) = Len(t) + 1 /\ u[Len(t) + 1] = x
          /\ \A i \in 1..Len(t) : u[i] = t[i]
      BY <1>1, <2>2, ListedAppend
    <2> HIDE DEF u
    <2>4. /\ 1..Len(t) \subseteq 1..Len(u) /\ Len(t) + 1 \in 1..Len(u)
          /\ \A i \in 1..Len(u) : i \in 1..Len(t) \/ i = Len(t) + 1
      BY <1>1, <2>3
    <2>5. ASSUME NEW i \in 1..Len(u)
          PROVE  \E j \in 1..k :
                    u[i] = sections[j] /\ sections[j].name \in files
      <3>1. CASE i = Len(t) + 1
        BY <1>2, <1>4, <2>3, <3>1
      <3>2. CASE i \in 1..Len(t)
        BY <1>2, <2>3, <3>2 DEF KeptSoFar
      <3> QED BY <2>4, <3>1, <3>2
    <2>6. ASSUME NEW j \in 1..k, sections[j].name \in files
          PROVE  \E i \in 1..Len(u) : u[i] = sections[j]
      <3>1. CASE j = k
        BY <2>3, <2>4, <3>1
      <3>2. CASE j \in 1..(k - 1)
        BY <2>3, <2>4, <2>6, <3>2 DEF KeptSoFar
      <3> QED BY <1>2, <3>1, <3>2
    <2> QED BY <2>1, <2>3, <2>5, <2>6 DEF KeptSoFar
  <1> QED BY <1>3, <1>4

LEMMA KeptList ==
    ASSUME NEW sections, Listed(sections)
    PROVE  KeptSoFar(sections, Len(sections), Kept(sections))
  <1> DEFINE n == Len(sections)
  <1>1. n \in Nat /\ sections \in [1..n -> Section]
    BY DEF Listed
  <1> HIDE DEF n
  <1>2. PICK r : /\ Runs(<<>>, n, r) /\ Kept(sections) = r[n]
                 /\ \A k \in 1..n : r[k] = KeepOne(r[k - 1], sections[k])
    BY <1>1, KeptRuns
  <1> DEFINE T == {k \in 0..n : KeptSoFar(sections, k, r[k])}
  <1>3. 0 \in T
    <2>1. Listed(<<>>) /\ Len(<<>>) = 0
      BY DEF Listed
    <2>2. KeptSoFar(sections, 0, <<>>)
      BY <2>1 DEF KeptSoFar
    <2> QED BY <1>1, <1>2, <2>2 DEF Runs
  <1>4. \A k \in 1..n : k - 1 \in T => k \in T
    BY <1>1, <1>2, KeptMore DEF n
  <1>5. n \in T
    <2>1. n \in 0..n
      BY <1>1
    <2> HIDE DEF T
    <2> QED BY <1>1, <1>3, <1>4, <2>1, Upwards
  <1> QED BY <1>2, <1>5 DEF n

\* After the first k sections.
NumberedSoFar(sections, last, k, t) ==
    /\ Listed(t)
    /\ Len(t) = k
    /\ \A i \in 1..k :
          /\ t[i].name = sections[i].name
          /\ sections[i].inst > 0 => t[i] = sections[i]
          /\ i <= last => t[i].inst > 0

LEMMA NumberedMore ==
    ASSUME NEW sections, Listed(sections), NEW last \in Nat,
           NEW k \in 1..Len(sections),
           NEW t, NumberedSoFar(sections, last, k - 1, t)
    PROVE  NumberedSoFar(sections, last, k, NumberOne(sections, last, t, k))
  <1> DEFINE x == IF sections[k].inst = 0 /\ k <= last
                  THEN Numbered(t, sections[k].name)
                  ELSE sections[k]
             u == Append(t, x)
  <1>1. /\ Listed(t) /\ t \in Seq(Section) /\ Len(t) \in Nat /\ Len(t) = k - 1
        /\ DOMAIN t = 1..Len(t) /\ \A i \in 1..Len(t) : t[i].inst \in Nat
        /\ Len(sections) \in Nat
        /\ \A i \in 1..Len(sections) : /\ sections[i] \in Section
                                       /\ sections[i].name \in Names
                                       /\ sections[i].inst \in Nat
    BY SectionType DEF NumberedSoFar, Listed
  <1>2. /\ k \in Nat /\ 1..(k - 1) \subseteq 1..k /\ k \in 1..k
        /\ 1..k \subseteq 1..Len(sections)
        /\ \A j \in 1..k : j \in 1..(k - 1) \/ j = k
        /\ \A j \in 1..(k - 1) : j < k
    BY <1>1
  <1>3. NumberOne(sections, last, t, k) = u
    BY DEF NumberOne
  <1>4. /\ x \in Section /\ x.name = sections[k].name
        /\ sections[k].inst > 0 => x = sections[k]
        /\ k <= last => x.inst > 0
        /\ sections[k].inst = 0 /\ k > last => x.inst = 0
        /\ sections[k].inst = 0 /\ k <= last =>
              \A i \in 1..Len(t) : t[i].inst < x.inst
    <2>1. CASE sections[k].inst = 0 /\ k <= last
      <3>1. x = Numbered(t, sections[k].name)
        BY <2>1
      <3> HIDE DEF x
      <3> QED BY <1>1, <1>2, <2>1, <3>1, NumberedNext
    <2>2. CASE ~(sections[k].inst = 0 /\ k <= last)
      <3>1. x = sections[k]
        BY <2>2
      <3> HIDE DEF x
      <3> QED BY <1>1, <1>2, <2>2, <3>1
    <2> QED BY <2>1, <2>2
  <1> HIDE DEF x
  <1>5. ASSUME NEW i \in 1..Len(t)
        PROVE  Before(t[i], x)
    <2>1. i \in 1..(k - 1) /\ i < k /\ i \in 1..Len(sections)
      BY <1>1, <1>2
    <2>2. Before(sections[i], sections[k])
      BY <1>2, <2>1 DEF Listed
    <2>3. /\ t[i].name = sections[i].name
          /\ sections[i].inst > 0 => t[i] = sections[i]
          /\ i <= last => t[i].inst > 0
      BY <2>1 DEF NumberedSoFar
    <2>4. t[i].name # x.name
      BY <1>4, <2>2, <2>3 DEF Before
    <2>5. CASE sections[k].inst > 0
      BY <1>4, <2>2, <2>3, <2>5 DEF Before
    <2>6. CASE sections[k].inst = 0 /\ k <= last
      <3>1. t[i].inst < x.inst /\ t[i].inst > 0
        BY <1>1, <1>2, <1>4, <2>1, <2>3, <2>6
      <3> QED BY <2>4, <3>1 DEF Before
    <2>7. CASE sections[k].inst = 0 /\ k > last
      BY <1>4, <2>4, <2>7 DEF Before
    <2> QED BY <1>1, <1>2, <2>5, <2>6, <2>7
  <1>6. /\ Listed(u) /\ Len(u) = k /\ u[k] = x
        /\ \A i \in 1..(k - 1) : u[i] = t[i]
    <2>1. /\ Listed(u) /\ Len(u) = Len(t) + 1 /\ u[Len(t) + 1] = x
          /\ \A i \in 1..Len(t) : u[i] = t[i]
      BY <1>1, <1>4, <1>5, ListedAppend
    <2>2. Len(t) + 1 = k
      BY <1>1, <1>2
    <2> HIDE DEF u
    <2> QED BY <1>1, <2>1, <2>2
  <1> HIDE DEF u
  <1>7. ASSUME NEW i \in 1..k
        PROVE  /\ u[i].name = sections[i].name
               /\ sections[i].inst > 0 => u[i] = sections[i]
               /\ i <= last => u[i].inst > 0
    <2>1. CASE i = k
      BY <1>4, <1>6, <2>1
    <2>2. CASE i \in 1..(k - 1)
      BY <1>6, <2>2 DEF NumberedSoFar
    <2> QED BY <1>2, <2>1, <2>2
  <1> QED BY <1>3, <1>6, <1>7 DEF NumberedSoFar

LEMMA NumberedList ==
    ASSUME NEW sections, Listed(sections), NEW last \in Nat
    PROVE  NumberedSoFar(sections, last, Len(sections),
                         Numbering(sections, last))
  <1> DEFINE n == Len(sections)
  <1>1. n \in Nat /\ sections \in [1..n -> Section]
    BY DEF Listed
  <1> HIDE DEF n
  <1>2. PICK r : /\ Runs(<<>>, n, r) /\ Numbering(sections, last) = r[n]
                 /\ \A k \in 1..n :
                       r[k] = NumberOne(sections, last, r[k - 1], k)
    BY <1>1, NumberingRuns
  <1> DEFINE T == {k \in 0..n : NumberedSoFar(sections, last, k, r[k])}
  <1>3. 0 \in T
    <2>1. Listed(<<>>) /\ Len(<<>>) = 0
      BY DEF Listed
    <2>2. NumberedSoFar(sections, last, 0, <<>>)
      BY <2>1 DEF NumberedSoFar
    <2> QED BY <1>1, <1>2, <2>2 DEF Runs
  <1>4. \A k \in 1..n : k - 1 \in T => k \in T
    BY <1>1, <1>2, NumberedMore DEF n
  <1>5. n \in T
    <2>1. n \in 0..n
      BY <1>1
    <2> HIDE DEF T
    <2> QED BY <1>1, <1>3, <1>4, <2>1, Upwards
  <1> QED BY <1>2, <1>5 DEF n

-----------------------------------------------------------------------------
\* Every order of the directory names every visible file.
LEMMA OrderNamesAll ==
    ASSUME files \subseteq Names, NEW order \in SetToSeqs(Visible)
    PROVE  \E n \in Nat : /\ order \in [1..n -> Visible]
                          /\ \A f \in Visible : \E j \in 1..n : order[j] = f
  <1> DEFINE n == Cardinality(Visible)
             D == 1..n
  <1>1. IsFiniteSet(Visible)
    BY TransfersAssumption, FS_Subset DEF Visible
  <1>2. n \in Nat
    BY <1>1, FS_CardinalityType
  <1>3. order \in [D -> Visible] /\ \A i, j \in D : i # j => order[i] # order[j]
    BY DEF SetToSeqs
  <1> HIDE DEF n
  <1>4. IsFiniteSet(D) /\ Cardinality(D) = n
    <2>1. 1 \in Int /\ n \in Int
      BY <1>2
    <2>2. /\ IsFiniteSet(1..n)
          /\ Cardinality(1..n) = IF 1 > n THEN 0 ELSE n - 1 + 1
      BY <2>1, FS_Interval
    <2> QED BY <1>2, <2>2
  <1> HIDE DEF D
  <1>5. order \in Injection(D, Visible)
    BY <1>3 DEF Injection, IsInjective
  <1>6. order \in Surjection(D, Visible)
    BY <1>1, <1>4, <1>5, FS_Injection DEF n
  <1>7. \A f \in Visible : \E j \in D : order[j] = f
    BY <1>6 DEF Surjection
  <1> QED BY <1>2, <1>3, <1>7 DEF D

\* The invariant of the list: no hidden file is in it.
Directory ==
    /\ files \subseteq Names
    /\ Listed(vcf)
    /\ \A i \in 1..Len(vcf) : vcf[i].name \notin Hidden

\* The facts about a walk.
LEMMA Walk ==
    ASSUME Directory, BrowseVcfInst
    PROVE  /\ Listed(vcf')
           /\ {vcf'[i].name : i \in 1..Len(vcf')} = Visible
           /\ \A i \in 1..Len(vcf), j \in 1..Len(vcf') :
                 vcf[i].inst > 0 /\ vcf[i].name = vcf'[j].name
                    => vcf[i].inst = vcf'[j].inst
  <1>1. PICK order \in SetToSeqs(Visible) :
           \E last \in DOMAIN SynchronizeVcfInst(order)
                         \cup {Len(SynchronizeVcfInst(order))} :
              vcf' = Numbering(SynchronizeVcfInst(order), last)
    BY DEF BrowseVcfInst
  <1>2. PICK n \in Nat : /\ order \in [1..n -> Visible]
                         /\ \A f \in Visible : \E j \in 1..n : order[j] = f
    BY OrderNamesAll DEF Directory
  <1> DEFINE a == Added(order)
             t == Kept(a)
             v == vcf'
  <1>3. AddedSoFar(order, n, a)
    <2>1. Visible \subseteq Names
      BY DEF Visible, Directory
    <2>2. order \in [1..n -> Names]
      BY <1>2, <2>1
    <2> QED BY <2>2, AddedList DEF Directory
  <1>4. SynchronizeVcfInst(order) = t
    BY DEF SynchronizeVcfInst
  <1> HIDE DEF a
  <1>5. KeptSoFar(a, Len(a), t)
    BY <1>3, KeptList DEF AddedSoFar
  <1> HIDE DEF t
  <1>6. /\ Listed(t) /\ t \in Seq(Section) /\ Len(t) \in Nat
        /\ DOMAIN t = 1..Len(t)
    BY <1>5, SectionType DEF KeptSoFar, Listed
  <1>7. PICK last \in Nat : v = Numbering(t, last)
    <2>1. DOMAIN t \cup {Len(t)} \subseteq Nat
      BY <1>6
    <2> QED BY <1>1, <1>4, <2>1
  <1>8. NumberedSoFar(t, last, Len(t), v)
    BY <1>6, <1>7, NumberedList
  <1> HIDE DEF v
  <1>9. /\ Listed(v) /\ Len(v) = Len(t)
        /\ \A i \in 1..Len(t) : /\ v[i].name = t[i].name
                                /\ t[i].inst > 0 => v[i] = t[i]
    BY <1>8 DEF NumberedSoFar
  <1>10. /\ Len(a) \in Nat /\ Len(vcf) \in Nat /\ Len(vcf) <= Len(a)
         /\ 1..Len(vcf) \subseteq 1..Len(a)
    <2>1. a \in Seq(Section) /\ vcf \in Seq(Section) /\ Len(vcf) <= Len(a)
      BY <1>3 DEF AddedSoFar, Listed, Directory
    <2> QED BY <2>1
  <1>11. ASSUME NEW i \in 1..Len(v)
         PROVE  v[i].name \in Visible
    <2>1. PICK j \in 1..Len(a) : t[i] = a[j] /\ a[j].name \in files
      BY <1>5, <1>9 DEF KeptSoFar
    <2>2. v[i].name = a[j].name
      BY <1>9, <2>1
    <2>3. CASE j > Len(vcf)
      <3>1. PICK k \in 1..n : a[j].name = order[k]
        BY <1>3, <2>3 DEF AddedSoFar
      <3>2. order[k] \in Visible
        BY <1>2
      <3> QED BY <2>2, <3>1, <3>2
    <2>4. CASE ~(j > Len(vcf))
      <3>1. j \in 1..Len(vcf)
        BY <1>10, <2>4
      <3>2. a[j] = vcf[j]
        BY <1>3, <3>1 DEF AddedSoFar
      <3>3. vcf[j].name \notin Hidden
        BY <3>1 DEF Directory
      <3> QED BY <2>1, <2>2, <3>2, <3>3 DEF Visible
    <2> QED BY <2>3, <2>4
  <1>12. ASSUME NEW f \in Visible
         PROVE  \E i \in 1..Len(v) : v[i].name = f
    <2>1. PICK k \in 1..n : order[k] = f
      BY <1>2
    <2>2. PICK j \in 1..Len(a) : a[j].name = f
      BY <1>3, <2>1 DEF AddedSoFar
    <2>3. a[j].name \in files
      BY <2>2 DEF Visible
    <2>4. PICK i \in 1..Len(t) : t[i] = a[j]
      BY <1>5, <2>3 DEF KeptSoFar
    <2> QED BY <1>9, <2>2, <2>4
  <1>13. ASSUME NEW i \in 1..Len(vcf), NEW j \in 1..Len(v),
                vcf[i].inst > 0, vcf[i].name = v[j].name
         PROVE  vcf[i].inst = v[j].inst
    <2>1. PICK k \in 1..Len(a) : t[j] = a[k]
      BY <1>5, <1>9 DEF KeptSoFar
    <2>2. a[i] = vcf[i] /\ i \in 1..Len(a)
      BY <1>3, <1>10 DEF AddedSoFar
    <2>3. a[i].name = a[k].name
      BY <1>9, <1>13, <2>1, <2>2
    <2>4. i = k
      <3>1. i \in Int /\ k \in Int
        OBVIOUS
      <3>2. i < k => a[i].name # a[k].name
        BY <1>3, <2>2 DEF AddedSoFar, Listed, Before
      <3>3. k < i => a[k].name # a[i].name
        BY <1>3, <2>2 DEF AddedSoFar, Listed, Before
      <3> QED BY <2>3, <3>1, <3>2, <3>3
    <2>5. t[j] = vcf[i]
      BY <2>1, <2>2, <2>4
    <2> QED BY <1>9, <1>13, <2>5
  <1>14. {v[i].name : i \in 1..Len(v)} = Visible
    BY <1>11, <1>12
  <1> QED BY <1>9, <1>13, <1>14 DEF v

\* Nothing else touches the list.
LEMMA ListUntouched ==
    ASSUME NEW p \in Ops, Refuse(p) \/ Operate(p) \/ Step(p) \/ JobEnds(p)
    PROVE  UNCHANGED list
  BY DEF Refuse, Operate, Step, JobEnds, CheckSize, MakeTemp, FetchBegin,
         FetchEnd, Checksum, Import, Export, Upload, Validate, Upgrade,
         Register, WaitTimeout, Woken, TransferComplete, Cleanup, Untouched

LEMMA DirectoryStep ==
    ASSUME Directory, [Next]_vars
    PROVE  Directory'
  <1>1. CASE BrowseVcfInst
    <2>1. files' = files /\ Listed(vcf')
          /\ {vcf'[i].name : i \in 1..Len(vcf')} = Visible
      BY <1>1, Walk DEF BrowseVcfInst
    <2>2. \A i \in 1..Len(vcf') : vcf'[i].name \in Visible
      BY <2>1
    <2>3. Listed(vcf)'
      BY <2>1 DEF Listed, Before, Section
    <2> QED BY <2>1, <2>2, <2>3 DEF Directory, Visible
  <1>2. CASE \E name \in Names : FileEvent(name)
    <2>1. vcf' = vcf /\ files' \subseteq Names
      BY <1>2 DEF FileEvent, Directory
    <2> QED BY <2>1 DEF Directory, Listed, Before, Section
  <1>3. CASE UNCHANGED list
    BY <1>3 DEF list, Directory, Listed, Before, Section
  <1> QED BY <1>1, <1>2, <1>3, ListUntouched DEF Next, vars, list

LEMMA DirectoryInv == Spec => []Directory
  <1>1. Init => Directory
    BY TransfersAssumption DEF Init, Directory, Listed
  <1>2. Directory /\ [Next]_vars => Directory'
    BY DirectoryStep
  <1> QED BY <1>1, <1>2, PTL DEF Spec

(***************************************************************************)
(* dmmap_synchronizeVcfInst and browseVcfInst (configs.c): in whatever     *)
(* order the directory is read, whatever came and went since the last walk *)
(* and however far an earlier one got, the list shows exactly the visible  *)
(* files, each once, under numbers of their own, and no number changes.    *)
(***************************************************************************)
THEOREM ListIsTheDirectory == Spec => ListFollowsDirectory
  <1> DEFINE Follows ==
         BrowseVcfInst =>
           /\ {vcf'[i].name : i \in DOMAIN vcf'} = Visible
           /\ \A i, j \in DOMAIN vcf' : i # j =>
                 ~SameName(vcf'[i], vcf'[j]) /\ ~SameNumber(vcf'[i], vcf'[j])
           /\ \A i \in DOMAIN vcf, j \in DOMAIN vcf' :
                 vcf[i].inst > 0 /\ SameName(vcf[i], vcf'[j])
                    => vcf[i].inst = vcf'[j].inst
  <1>1. Directory /\ [Next]_vars => [Follows]_vars
    <2> SUFFICES ASSUME Directory, BrowseVcfInst PROVE Follows
      OBVIOUS
    <2> DEFINE v == vcf'
    <2>1. /\ Listed(v) /\ {v[i].name : i \in 1..Len(v)} = Visible
          /\ \A i \in 1..Len(vcf), j \in 1..Len(v) :
                vcf[i].inst > 0 /\ vcf[i].name = v[j].name
                   => vcf[i].inst = v[j].inst
      BY Walk
    <2>2. DOMAIN vcf = 1..Len(vcf)
      BY SectionType DEF Directory, Listed
    <2> HIDE DEF v
    <2>3. /\ DOMAIN v = 1..Len(v)
          /\ \A i \in 1..Len(v) : v[i].inst \in Nat
      BY <2>1, SectionType DEF Listed
    <2>4. ASSUME NEW i \in 1..Len(v), NEW j \in 1..Len(v), i # j
          PROVE  ~SameName(v[i], v[j]) /\ ~SameNumber(v[i], v[j])
      <3>1. i < j \/ j < i
        BY <2>4
      <3>2. Before(v[i], v[j]) \/ Before(v[j], v[i])
        BY <2>1, <3>1 DEF Listed
      <3> QED BY <2>3, <3>2 DEF Before, SameName, SameNumber
    <2> QED BY <2>1, <2>2, <2>3, <2>4 DEF v, SameName
  <1> QED BY <1>1, DirectoryInv, PTL DEF Spec, ListFollowsDirectory

-----------------------------------------------------------------------------
\* The invariant of everything there is.
AllTyped ==
    /\ CInv /\ Directory
    /\ subject \in [Ops -> Names \cup {NoName}]
    /\ fresh \in BOOLEAN
    /\ changes \in 0..MaxFileEvents

LEMMA SubjectType ==
    ASSUME Directory, subject \in [Ops -> Names \cup {NoName}],
           NEW p \in Ops, Operate(p)
    PROVE  subject' \in [Ops -> Names \cup {NoName}]
  <1>1. CASE UNCHANGED subject
    BY <1>1
  <1>2. CASE \E i \in DOMAIN vcf :
                subject' = [subject EXCEPT ![p] = vcf[i].name]
    <2>1. PICK i \in DOMAIN vcf : subject' = [subject EXCEPT ![p] = vcf[i].name]
      BY <1>2
    <2>2. vcf[i].name \in Names
      BY SectionType DEF Directory, Listed
    <2> QED BY <2>1, <2>2
  <1>3. call[p].kind = "Backup" \/ UNCHANGED subject
    BY DEF Operate
  <1>4. call[p].kind = "Backup" =>
           \E i \in DOMAIN vcf : subject' = [subject EXCEPT ![p] = vcf[i].name]
    BY DEF Operate
  <1> QED BY <1>1, <1>2, <1>3, <1>4

LEMMA AllTypedStep ==
    ASSUME AllTyped, [Next]_vars
    PROVE  AllTyped'
  <1>1. CInv' /\ Directory'
    BY ControlStep, DirectoryStep DEF AllTyped
  <1>2. CASE BrowseVcfInst
    BY <1>1, <1>2 DEF BrowseVcfInst, AllTyped, request
  <1>3. CASE \E name \in Names : FileEvent(name)
    <2>1. /\ changes < MaxFileEvents /\ changes' = changes + 1
          /\ fresh' = FALSE /\ subject' = subject
      BY <1>3 DEF FileEvent, request
    <2>2. changes \in 0..MaxFileEvents /\ MaxFileEvents \in Nat
      BY TransfersAssumption DEF AllTyped
    <2>3. changes' \in 0..MaxFileEvents
      BY <2>1, <2>2
    <2> QED BY <1>1, <2>1, <2>3 DEF AllTyped
  <1>4. ASSUME NEW p \in Ops, Refuse(p) \/ Operate(p) \/ Step(p) \/ JobEnds(p)
        PROVE  AllTyped'
    <2>1. UNCHANGED <<fresh, changes>>
      BY <1>4, ListUntouched DEF list
    <2>2. CASE Operate(p)
      BY <1>1, <2>1, <2>2, SubjectType DEF AllTyped
    <2>3. CASE Refuse(p) \/ Step(p) \/ JobEnds(p)
      <3>1. UNCHANGED subject
        BY <2>3
        DEF Refuse, Step, JobEnds, CheckSize, MakeTemp, FetchBegin, FetchEnd,
            Checksum, Import, Export, Upload, Validate, Upgrade, Register,
            WaitTimeout, Woken, TransferComplete, Cleanup, Untouched, request
      <3> QED BY <1>1, <2>1, <3>1 DEF AllTyped
    <2> QED BY <1>4, <2>2, <2>3
  <1>5. CASE UNCHANGED vars
    BY <1>1, <1>5 DEF vars, AllTyped
  <1> QED BY <1>2, <1>3, <1>4, <1>5 DEF Next

(***************************************************************************)
(* Every place, file and report of the operations, and the list with its   *)
(* sections, are what their types say (fw_images.c, configs.c, utils.c).   *)
(***************************************************************************)
THEOREM TransferTypes == Spec => []TypeOK
  <1>1. Init => AllTyped
    <2> SUFFICES ASSUME Init PROVE AllTyped
      OBVIOUS
    <2>1. CInv
      BY InitControl
    <2>2. Directory
      BY TransfersAssumption DEF Init, Directory, Listed
    <2>3. changes \in 0..MaxFileEvents
      BY TransfersAssumption DEF Init
    <2> QED BY <2>1, <2>2, <2>3 DEF Init, AllTyped
  <1>2. AllTyped /\ [Next]_vars => AllTyped'
    BY AllTypedStep
  <1>3. AllTyped => TypeOK
    BY DEF AllTyped, CInv, Typed, Directory, Listed, TypeOK
  <1> QED BY <1>1, <1>2, <1>3, PTL DEF Spec

=============================================================================
