-------------------------- MODULE ActivationProofs --------------------------
(***************************************************************************)
(* Proofs about Activation, for any minute, any retry time, any windows,   *)
(* any number of calls and any length of time.                             *)
(***************************************************************************)
EXTENDS Activation, WellFoundedInduction, TLAPS

(***************************************************************************)
(* Type correctness.  $diff is a natural number because a handler that     *)
(* runs was started in the past.                                           *)
(***************************************************************************)
Started == \A i \in Slots : pc[i] \in Live => line[i].due <= now

IInv == TypeOK /\ Started

\* What is left of a time when its seconds are dropped.
LEMMA Floor ==
    ASSUME NEW a \in Nat, NEW m \in Nat \ {0}
    PROVE  /\ (a \div m) * m \in Nat
           /\ (a \div m) * m <= a
           /\ a < (a \div m) * m + m
  OBVIOUS

\* A line is due in the minute its job is asked for, or a part of it before.
LEMMA DueRounded ==
    ASSUME TypeOK, NEW start \in Nat
    PROVE  /\ Due(start) \in Nat
           /\ Postponed(start) \in Nat /\ start <= Postponed(start)
           /\ Due(start) <= now + Postponed(start)
           /\ now + Postponed(start) < Due(start) + MINUTE
  <1>1. now \in Nat /\ MINUTE \in Nat \ {0}
    BY ActivationAssumption DEF TypeOK
  <1>2. Postponed(start) \in Nat /\ start <= Postponed(start)
    BY <1>1 DEF Postponed
  <1> DEFINE a == now + Postponed(start)
  <1>3. a \in Nat
    BY <1>1, <1>2
  <1>4. Due(start) = (a \div MINUTE) * MINUTE
    BY DEF Due
  <1> HIDE DEF a
  <1>5. /\ Due(start) \in Nat /\ Due(start) <= a /\ a < Due(start) + MINUTE
    BY <1>1, <1>3, <1>4, Floor
  <1> QED BY <1>2, <1>5 DEF a

\* The windows of a call that is accepted make lines.
LEMMA LineOfType ==
    ASSUME TypeOK, NEW windows \in Seq(Window), Valid(windows),
           NEW i \in DOMAIN windows, NEW b \in Banks
    PROVE  LineOf(windows, i, b) \in Line
  <1>1. windows[i] \in Window
    OBVIOUS
  <1>2. windows[i].start \in Nat /\ windows[i].end \in Nat
        /\ windows[i].mode \in Modes
    BY <1>1 DEF Window
  <1>3. windows[i].start <= windows[i].end
    BY DEF Valid
  <1>4. windows[i].end - windows[i].start \in Nat
    BY <1>2, <1>3
  <1>5. Due(windows[i].start) \in Nat
    BY <1>2, DueRounded
  <1>6. count \in Nat /\ keepConfig \in BOOLEAN /\ now \in Nat
    BY ActivationAssumption DEF TypeOK
  <1> QED BY <1>2, <1>4, <1>5, <1>6 DEF LineOf, Line

LEMMA TakenType ==
    ASSUME NEW asks \in Seq(Window)
    PROVE  /\ Taken(asks) \in Seq(Window)
           /\ Len(Taken(asks)) \in Nat
           /\ DOMAIN Taken(asks) = 1..Len(Taken(asks))
  <1> DEFINE n == IF Len(asks) < MAX_TIME_WINDOW THEN Len(asks)
                  ELSE MAX_TIME_WINDOW
  <1>1. n \in Nat /\ n <= Len(asks)
    BY ActivationAssumption
  <1>2. Taken(asks) = SubSeq(asks, 1, n)
    BY DEF Taken
  <1>3. SubSeq(asks, 1, n) \in Seq(Window)
    BY <1>1
  <1> QED BY <1>2, <1>3

LEMMA ActivateLaterType ==
    ASSUME IInv, NEW b \in Banks, NEW asks \in Menu, ActivateLater(b, asks)
    PROVE  IInv'
  <1> DEFINE windows == Taken(asks)
             added == count + 1 .. count + Len(windows)
  <1>1. asks \in Seq(Window)
    BY ActivationAssumption
  <1>2. /\ windows \in Seq(Window) /\ Len(windows) \in Nat
        /\ DOMAIN windows = 1..Len(windows)
    BY <1>1, TakenType
  <1>3. /\ Valid(windows)
        /\ count + Len(windows) <= MaxLines
        /\ count' = count + Len(windows)
        /\ line' = [i \in Slots |->
              IF i \in added THEN LineOf(windows, i - count, b) ELSE line[i]]
        /\ pc' = [i \in Slots |-> IF i \in added THEN "scheduled" ELSE pc[i]]
        /\ requests' \in 0..MaxRequests
        /\ UNCHANGED <<now, boot, active, shown, setters, available,
                       keepConfig, loaded, wake, diff, keepArg, asked,
                       byActivate>>
    BY ActivationAssumption DEF ActivateLater, Client, IInv, TypeOK
  <1>4. count \in Nat /\ count \in 0..MaxLines /\ loaded \in 0..count
    BY ActivationAssumption DEF IInv, TypeOK
  <1>5. line' \in [Slots -> Line]
    <2>1. ASSUME NEW i \in Slots, i \in added
          PROVE  LineOf(windows, i - count, b) \in Line
      <3>1. i - count \in DOMAIN windows
        BY <1>2, <1>4, <2>1 DEF Slots
      <3> QED BY <3>1, <1>2, <1>3, LineOfType DEF IInv
    <2>2. \A i \in Slots : line[i] \in Line
      BY DEF IInv, TypeOK
    <2> QED BY <1>3, <2>1, <2>2
  <1>6. pc' \in [Slots -> Live \cup {"free", "scheduled", "ended", "killed",
                                     "missed"}]
    BY <1>3 DEF IInv, TypeOK
  <1>7. count' \in 0..MaxLines /\ loaded' \in 0..count'
    BY <1>2, <1>3, <1>4, ActivationAssumption
  <1>8. TypeOK'
    BY <1>3, <1>5, <1>6, <1>7 DEF IInv, TypeOK
  <1>9. Started'
    <2>1. ASSUME NEW i \in Slots, pc'[i] \in Live
          PROVE  line'[i].due <= now'
      <3>1. i \notin added
        BY <1>3, <2>1 DEF Live
      <3>2. pc'[i] = pc[i] /\ line'[i] = line[i]
        BY <1>3, <3>1
      <3> QED BY <1>3, <2>1, <3>2 DEF IInv, Started
    <2> QED BY <2>1 DEF Started, Live
  <1> QED BY <1>8, <1>9 DEF IInv

LEMMA ClientType ==
    ASSUME IInv, NEW b \in Banks, NEW value \in BOOLEAN,
           \/ SetBootFirmwareImage(b) \/ ActivateNow(b)
           \/ SetAvailable(b, value) \/ SetKeepConfig(value)
    PROVE  IInv'
  <1> USE ActivationAssumption
  <1>0. requests' \in 0..MaxRequests
    BY DEF SetBootFirmwareImage, ActivateNow, SetAvailable, SetKeepConfig,
           Client, IInv, TypeOK
  <1>s. \A a \in BOOLEAN : [bank |-> b, activate |-> a] \in
                               [bank : Banks, activate : BOOLEAN]
    OBVIOUS
  <1>1. CASE SetBootFirmwareImage(b)
    <2>1. setters' \subseteq [bank : Banks, activate : BOOLEAN]
      BY <1>s, <1>1 DEF SetBootFirmwareImage, IInv, TypeOK
    <2> QED
      BY <1>0, <1>1, <2>1
      DEF SetBootFirmwareImage, IInv, TypeOK, Started, cron, script
  <1>2. CASE ActivateNow(b)
    <2>1. setters' \subseteq [bank : Banks, activate : BOOLEAN]
      BY <1>s, <1>2 DEF ActivateNow, IInv, TypeOK
    <2>2. asked' = TRUE
      BY <1>2 DEF ActivateNow
    <2> QED
      BY <1>0, <1>2, <2>1, <2>2
      DEF ActivateNow, IInv, TypeOK, Started, cron, script
  <1>3. CASE SetAvailable(b, value)
    BY <1>0, <1>3 DEF SetAvailable, IInv, TypeOK, Started, cron, script
  <1>4. CASE SetKeepConfig(value)
    BY <1>0, <1>4 DEF SetKeepConfig, IInv, TypeOK, Started, cron, script
  <1> QED BY <1>1, <1>2, <1>3, <1>4

\* What every step of a handler keeps to.
Moved(i) ==
    /\ UNCHANGED <<now, active, shown, setters, available, keepConfig, count,
                   line, loaded, requests>>
    /\ pc[i] \in Live \/ line[i].due = now
    /\ \E place \in Live \cup {"ended"} : pc' = [pc EXCEPT ![i] = place]
    /\ wake' \in [Slots -> Nat] /\ diff' \in [Slots -> Nat]
    /\ keepArg' \in [Slots -> BOOLEAN]
    /\ boot' \in Banks /\ asked' \in BOOLEAN /\ byActivate' \in BOOLEAN

LEMMA MovedType ==
    ASSUME IInv, NEW i \in Slots, Moved(i)
    PROVE  IInv'
  <1>1. TypeOK'
    <2>1. pc' \in [Slots -> Live \cup {"free", "scheduled", "ended", "killed",
                                       "missed"}]
      BY DEF Moved, IInv, TypeOK
    <2> QED BY <2>1 DEF Moved, IInv, TypeOK
  <1>2. Started'
    <2>1. line[i].due \in Nat /\ now \in Nat
      BY ActivationAssumption DEF IInv, TypeOK, Line
    <2>2. line[i].due <= now
      BY <2>1 DEF Moved, IInv, Started
    <2>3. pc \in [Slots -> Live \cup {"free", "scheduled", "ended", "killed",
                                      "missed"}]
      BY DEF IInv, TypeOK
    <2> QED BY <2>2, <2>3 DEF Moved, IInv, Started
  <1> QED BY <1>1, <1>2 DEF IInv

\* The two ways out of a check.
LEMMA OutOfCheck ==
    ASSUME IInv, NEW i \in Slots, NEW keep \in BOOLEAN, NEW elapsed,
           NEW otherwise \in Live \cup {"ended"},
           Activate(i, keep) \/ Doze(i, elapsed, otherwise)
    PROVE  /\ \E place \in Live \cup {"ended"} : pc' = [pc EXCEPT ![i] = place]
           /\ wake' \in [Slots -> Nat] /\ diff' \in [Slots -> Nat]
           /\ keepArg' \in [Slots -> BOOLEAN]
  <1>1. now + RETRY_TIME \in Nat
    BY ActivationAssumption DEF IInv, TypeOK
  <1>2. CASE Activate(i, keep)
    BY <1>2 DEF Activate, Goto, Live, IInv, TypeOK
  <1>3. CASE Doze(i, elapsed, otherwise)
    BY <1>1, <1>3 DEF Doze, Goto, Live, IInv, TypeOK
  <1> QED BY <1>2, <1>3

LEMMA CheckingFrame ==
    ASSUME IInv, Checking
    PROVE  /\ UNCHANGED <<now, active, shown, setters, available, keepConfig,
                          count, line, loaded, requests>>
           /\ boot' \in Banks /\ asked' \in BOOLEAN /\ byActivate' \in BOOLEAN
  BY DEF Checking, Here, cron, IInv, TypeOK

LEMMA HandlerType ==
    ASSUME IInv, NEW i \in Slots, Handler(i)
    PROVE  Moved(i)
  <1> DEFINE Ends == Goto(i, "ended") /\ UNCHANGED <<wake, diff, keepArg>>
             Frame == /\ wake' \in [Slots -> Nat] /\ diff' \in [Slots -> Nat]
                      /\ keepArg' \in [Slots -> BOOLEAN]
  <1>0. line[i] \in Line /\ line[i].due \in Nat /\ line[i].bank \in Banks
        /\ line[i].keep \in BOOLEAN /\ now \in Nat
    BY ActivationAssumption DEF IInv, TypeOK, Line
  <1>l. /\ FALSE \in BOOLEAN
        /\ \A p \in {"measure", "force"} : p \in Live \cup {"ended"}
    BY DEF Live
  <1>e. UNCHANGED <<wake, diff, keepArg>> => Frame
    BY DEF IInv, TypeOK
  <1>g. ASSUME NEW place \in {"first", "loop", "force", "copy", "reboot",
                              "ended"}, Goto(i, place)
        PROVE  \E p \in Live \cup {"ended"} : pc' = [pc EXCEPT ![i] = p]
    BY <1>g DEF Goto, Live
  <1>1. CASE CronRuns(i)
    <2>1. line[i].due = now /\ Checking
      BY <1>1 DEF CronRuns, Fires
    <2>2. CASE Activate(i, line[i].keep)
      BY <2>1, <2>2, <1>0, <1>l, OutOfCheck, CheckingFrame DEF Moved
    <2>3. CASE Goto(i, "first") /\ UNCHANGED <<wake, diff, keepArg>>
      BY <2>1, <2>3, <1>e, <1>g, CheckingFrame DEF Moved
    <2>4. CASE Ends
      BY <2>1, <2>4, <1>e, <1>g, CheckingFrame DEF Moved
    <2>5. line[i].mode \in Modes
      BY <1>0 DEF Line
    <2> QED BY <1>1, <2>2, <2>3, <2>4, <2>5 DEF CronRuns, Modes
  <1>2. CASE FirstCheck(i)
    BY <1>2, <1>l, OutOfCheck, CheckingFrame DEF FirstCheck, Moved, Live
  <1>3. CASE Measure(i)
    <2>1. pc[i] \in Live /\ Checking
      BY <1>3 DEF Measure, Live
    <2>2. now - line[i].due \in Nat
      BY <1>0, <2>1 DEF IInv, Started
    <2>3. Frame
      BY <1>3, <2>2 DEF Measure, IInv, TypeOK
    <2> QED BY <1>3, <1>g, <2>1, <2>3, CheckingFrame DEF Measure, Moved
  <1>4. CASE Loop(i)
    <2>1. pc[i] \in Live /\ Checking
      BY <1>4 DEF Loop, Live
    <2>2. CASE line[i].span > diff[i]
      BY <1>4, <2>1, <2>2, <1>l, OutOfCheck, CheckingFrame DEF Loop, Moved
    <2>3. CASE ~(line[i].span > diff[i])
      BY <1>4, <2>1, <2>3, <1>e, <1>g, CheckingFrame DEF Loop, Moved
    <2> QED BY <2>2, <2>3
  <1>5. CASE LastResort(i)
    <2>1. pc[i] \in Live /\ Checking
      BY <1>5 DEF LastResort, Live
    <2>2. CASE Activate(i, line[i].keep)
      BY <2>1, <2>2, <1>0, <1>l, OutOfCheck, CheckingFrame DEF Moved
    <2>3. CASE Ends
      BY <2>1, <2>3, <1>e, <1>g, CheckingFrame DEF Moved
    <2> QED BY <1>5, <2>2, <2>3 DEF LastResort
  <1>6. CASE SetBootbank(i)
    <2>1. boot' \in Banks /\ byActivate' \in BOOLEAN
      BY <1>0, <1>6 DEF SetBootbank, IInv, TypeOK
    <2>2. \E p \in Live \cup {"ended"} : pc' = [pc EXCEPT ![i] = p]
      BY <1>6, <1>g DEF SetBootbank
    <2> QED
      BY <1>6, <1>e, <2>1, <2>2
      DEF SetBootbank, Here, cron, Moved, Live, IInv, TypeOK
  <1>7. CASE CopyConfig(i)
    <2>1. \E p \in Live \cup {"ended"} : pc' = [pc EXCEPT ![i] = p]
      BY <1>7, <1>g DEF CopyConfig
    <2> QED
      BY <1>7, <1>e, <2>1 DEF CopyConfig, Here, cron, Moved, Live, IInv, TypeOK
  <1>8. CASE AskReboot(i)
    <2>1. \E p \in Live \cup {"ended"} : pc' = [pc EXCEPT ![i] = p]
      BY <1>8, <1>g DEF AskReboot
    <2>2. asked' \in BOOLEAN
      BY <1>8 DEF AskReboot, IInv, TypeOK
    <2> QED
      BY <1>8, <1>e, <2>1, <2>2
      DEF AskReboot, Here, cron, Moved, Live, IInv, TypeOK
  <1> QED
    BY <1>1, <1>2, <1>3, <1>4, <1>5, <1>6, <1>7, <1>8 DEF Handler

LEMMA EnvironmentType ==
    ASSUME IInv,
           \/ CronRestart \/ Refresh \/ Tick \/ Restart
           \/ \E s \in setters : SetterEnds(s)
    PROVE  IInv'
  <1> USE ActivationAssumption
  <1>1. CASE CronRestart
    <2>1. /\ loaded' = count
          /\ UNCHANGED <<now, boot, active, shown, setters, available,
                         keepConfig, count, line, wake, diff, keepArg, asked,
                         byActivate, requests>>
      BY <1>1 DEF CronRestart
    <2>2. \A i \in Slots : pc'[i] = pc[i] \/ pc'[i] = "missed"
      BY <1>1 DEF CronRestart
    <2>3. pc' \in [Slots -> Live \cup {"free", "scheduled", "ended", "killed",
                                       "missed"}]
      BY <1>1 DEF CronRestart, IInv, TypeOK
    <2>4. loaded' \in 0..count'
      BY <2>1 DEF IInv, TypeOK
    <2>5. TypeOK'
      BY <2>1, <2>3, <2>4 DEF IInv, TypeOK
    <2>6. Started'
      BY <2>1, <2>2 DEF IInv, Started, Live
    <2> QED BY <2>5, <2>6 DEF IInv
  <1>2. CASE Refresh
    <2>1. [boot |-> boot, active |-> active] \in Dump
      BY DEF IInv, TypeOK, Dump
    <2> QED BY <1>2, <2>1 DEF Refresh, Here, IInv, TypeOK, Started, cron, script
  <1>3. CASE Tick
    <2>1. now' \in 0..MaxTime
      BY <1>3 DEF Tick, IInv, TypeOK
    <2>2. TypeOK'
      BY <1>3, <2>1 DEF Tick, IInv, TypeOK, cron, script
    <2>3. Started'
      <3>1. \A i \in Slots : line[i].due \in Nat
        BY DEF IInv, TypeOK, Line
      <3>2. now \in Nat /\ now' = now + 1 /\ UNCHANGED <<pc, line>>
        BY <1>3 DEF Tick, IInv, TypeOK, cron, script
      <3> QED BY <3>1, <3>2 DEF IInv, Started
    <2> QED BY <2>2, <2>3 DEF IInv
  <1>4. CASE Restart
    <2>1. now' \in 0..MaxTime
      BY <1>4 DEF Restart, IInv, TypeOK
    <2>2. [boot |-> boot, active |-> boot] \in Dump
      BY DEF IInv, TypeOK, Dump
    <2>3. \A i \in Slots : pc'[i] \notin Live
      BY <1>4 DEF Restart, Live, IInv, TypeOK
    <2>4. pc' \in [Slots -> Live \cup {"free", "scheduled", "ended", "killed",
                                       "missed"}]
      BY <1>4 DEF Restart, Live, IInv, TypeOK
    <2>5. /\ UNCHANGED <<boot, available, keepConfig, count, line, wake, diff,
                         keepArg, byActivate, requests>>
          /\ active' = boot /\ shown' = [boot |-> boot, active |-> boot]
          /\ setters' = {} /\ asked' = FALSE /\ loaded' = count
      BY <1>4 DEF Restart
    <2>6. loaded' \in 0..count'
      BY <2>5 DEF IInv, TypeOK
    <2>7. TypeOK'
      BY <2>1, <2>2, <2>4, <2>5, <2>6 DEF IInv, TypeOK
    <2> QED BY <2>3, <2>7 DEF IInv, Started, Live
  <1>5. ASSUME NEW s \in setters, SetterEnds(s)
        PROVE  IInv'
    <2>1. s.bank \in Banks /\ s.activate \in BOOLEAN
      BY DEF IInv, TypeOK
    <2>2. boot' \in Banks /\ byActivate' \in BOOLEAN
      BY <1>5, <2>1 DEF SetterEnds, IInv, TypeOK
    <2> QED
      BY <1>5, <2>2 DEF SetterEnds, Here, IInv, TypeOK, Started, cron, script
  <1> QED BY <1>1, <1>2, <1>3, <1>4, <1>5

LEMMA TypeStep ==
    ASSUME IInv, [Next]_vars
    PROVE  IInv'
  <1>1. CASE UNCHANGED vars
    BY <1>1 DEF vars, cron, script, IInv, TypeOK, Started
  <1>2. CASE Next
    <2>1. InitialBank \in Banks
      BY ActivationAssumption
    <2> QED
      BY <1>2, <2>1, ActivateLaterType, ClientType, HandlerType,
         MovedType, EnvironmentType
      DEF Next, Reboot, PowerCut
  <1> QED BY <1>1, <1>2

LEMMA InitTyped ==
    ASSUME Init
    PROVE  IInv
  <1>1. NoLine(InitialBank) \in Line
    BY ActivationAssumption DEF NoLine, Line, Modes
  <1>2. shown \in Dump
    BY ActivationAssumption DEF Init, Dump
  <1>3. /\ line \in [Slots -> Line]
        /\ pc \in [Slots -> Live \cup {"free", "scheduled", "ended", "killed",
                                      "missed"}]
        /\ wake \in [Slots -> Nat] /\ diff \in [Slots -> Nat]
        /\ keepArg \in [Slots -> BOOLEAN]
    BY <1>1 DEF Init
  <1>4. /\ now \in 0..MaxTime /\ requests \in 0..MaxRequests
        /\ count \in 0..MaxLines /\ loaded \in 0..count
    BY ActivationAssumption DEF Init
  <1>5. /\ boot \in Banks /\ active \in Banks
        /\ available \in [Banks -> BOOLEAN]
        /\ setters \subseteq [bank : Banks, activate : BOOLEAN]
        /\ keepConfig \in BOOLEAN /\ asked \in BOOLEAN
        /\ byActivate \in BOOLEAN
    BY ActivationAssumption DEF Init
  <1>6. TypeOK
    BY <1>2, <1>3, <1>4, <1>5 DEF TypeOK
  <1>7. Started
    BY DEF Init, Started, Live
  <1> QED BY <1>6, <1>7 DEF IInv

\* Every state of the crontab and of the handlers is well typed, whatever the
\* windows, the faults and the order of calls, reboots and sleeps: in
\* particular cron never knows of a line that is not there.
THEOREM TypeCorrect == Spec => []TypeOK
  <1>1. Init => IInv
    BY InitTyped
  <1>2. IInv => TypeOK
    BY DEF IInv
  <1> QED BY <1>1, <1>2, TypeStep, PTL DEF Spec

-----------------------------------------------------------------------------
(***************************************************************************)
(* The window.  The idle test must be quick: the script compares the sleep *)
(* with a time it measured before the test.                                *)
(***************************************************************************)
Quick == "slow_idle" \notin Disturbances

\* Where a handler is, and what it knows, at each place before its decision.
Placed(i) ==
    LET start == line[i].due
        end == start + line[i].span
    IN  /\ pc[i] \in {"first", "measure"} => now = start
        /\ pc[i] = "asleep" => start <= now /\ now <= wake[i] /\ wake[i] < end
        /\ pc[i] = "loop" =>
              start <= now /\ now <= end /\ diff[i] = now - start
        /\ pc[i] = "force" =>
              start <= now /\ now <= end /\ end <= now + RETRY_TIME

WInv == IInv /\ \A i \in Slots : Placed(i)

LEMMA Numbers ==
    ASSUME IInv, NEW i \in Slots
    PROVE  /\ line[i].due \in Nat /\ line[i].span \in Nat
           /\ line[i].force \in BOOLEAN
           /\ now \in Nat /\ wake[i] \in Nat /\ diff[i] \in Nat
           /\ RETRY_TIME \in Nat \ {0}
           /\ pc[i] \in Live \cup {"free", "scheduled", "ended", "killed",
                                   "missed"}
  BY ActivationAssumption DEF IInv, TypeOK, Line

\* A busy device: the handler sleeps within its window, or goes to the place
\* where it is not long to the end.
LEMMA DozePlaced ==
    ASSUME IInv, NEW i \in Slots, NEW elapsed \in Nat, NEW otherwise,
           Doze(i, elapsed, otherwise), Checking,
           elapsed = now - line[i].due,
           pc' = [pc EXCEPT ![i] = "asleep"]
              \/ pc' = [pc EXCEPT ![i] = otherwise],
           \/ otherwise = "measure" /\ elapsed = 0
           \/ otherwise = "force" /\ now <= line[i].due + line[i].span
    PROVE  Placed(i)'
  <1>1. /\ UNCHANGED <<now, line, diff>>
    BY DEF Doze, Checking, Here, cron
  <1>2. CASE line[i].span > elapsed + RETRY_TIME
    <2>1. pc'[i] = "asleep" /\ wake'[i] = now + RETRY_TIME
      BY <1>2, Numbers DEF Doze, Goto, IInv, TypeOK
    <2> QED BY <1>1, <1>2, <2>1, Numbers DEF Placed
  <1>3. CASE ~(line[i].span > elapsed + RETRY_TIME)
    <2>1. pc'[i] = otherwise
      BY <1>3, Numbers DEF Doze, Goto, IInv, TypeOK
    <2> QED BY <1>1, <1>3, <2>1, Numbers DEF Placed
  <1> QED BY <1>2, <1>3

LEMMA ActivatePlaced ==
    ASSUME IInv, NEW i \in Slots, NEW keep, Activate(i, keep)
    PROVE  Placed(i)'
  BY DEF Activate, Goto, Placed, IInv, TypeOK

LEMMA HandlerPlaced ==
    ASSUME WInv, NEW i \in Slots, Handler(i)
    PROVE  Placed(i)'
  <1>0. IInv /\ Placed(i)
    BY DEF WInv
  <1>c. Checking => UNCHANGED <<now, line>>
    BY DEF Checking, Here, cron
  <1>g. ASSUME NEW place, Goto(i, place)
        PROVE  pc'[i] = place
    BY <1>0, <1>g DEF Goto, IInv, TypeOK
  <1>1. CASE CronRuns(i)
    <2>1. line[i].due = now /\ Checking
      BY <1>1 DEF CronRuns, Fires
    <2>2. \/ Activate(i, line[i].keep)
          \/ Goto(i, "first")
          \/ Goto(i, "ended")
      <3>1. line[i].mode \in Modes
        BY <1>0 DEF IInv, TypeOK, Line
      <3> QED BY <1>1, <3>1 DEF CronRuns, Modes
    <2>3. CASE Goto(i, "first")
      BY <1>c, <1>g, <2>1, <2>3 DEF Placed
    <2>4. CASE Goto(i, "ended")
      BY <1>g, <2>4 DEF Placed
    <2> QED BY <1>0, <2>2, <2>3, <2>4, ActivatePlaced
  <1>2. CASE FirstCheck(i)
    <2>1. 0 = now - line[i].due
      BY <1>0, <1>2, Numbers DEF FirstCheck, Placed
    <2>2. CASE Doze(i, 0, "measure")
      BY <1>0, <1>2, <2>1, <2>2, DozePlaced DEF Doze, Goto, FirstCheck
    <2> QED BY <1>0, <1>2, <2>2, ActivatePlaced DEF FirstCheck
  <1>3. CASE Measure(i)
    <2>1. /\ pc'[i] = "loop" /\ diff'[i] = now - line[i].due
          /\ UNCHANGED <<now, line>>
      BY <1>0, <1>3, <1>c, <1>g DEF Measure, IInv, TypeOK
    <2>2. now <= line[i].due + line[i].span /\ line[i].due <= now
      BY <1>0, <1>3, Numbers DEF Measure, Placed
    <2> QED BY <2>1, <2>2 DEF Placed
  <1>4. CASE Loop(i)
    <2>1. /\ pc[i] = "loop" /\ Checking
          /\ diff[i] = now - line[i].due
          /\ line[i].due <= now /\ now <= line[i].due + line[i].span
      BY <1>0, <1>4 DEF Loop, Placed
    <2>2. CASE Doze(i, diff[i], "force")
      BY <1>0, <2>1, <2>2, DozePlaced, Numbers DEF Doze, Goto
    <2>3. CASE Goto(i, "force") /\ ~(line[i].span > diff[i])
      BY <1>0, <1>c, <1>g, <2>1, <2>3, Numbers DEF Placed
    <2> QED BY <1>0, <1>4, <2>2, <2>3, ActivatePlaced DEF Loop
  <1>5. CASE LastResort(i)
    <2>1. CASE Goto(i, "ended")
      BY <1>g, <2>1 DEF Placed
    <2> QED BY <1>0, <1>5, <2>1, ActivatePlaced DEF LastResort
  <1>6. CASE SetBootbank(i) \/ CopyConfig(i) \/ AskReboot(i)
    <2>1. pc'[i] \in {"copy", "reboot", "ended"}
      BY <1>6, <1>g DEF SetBootbank, CopyConfig, AskReboot
    <2> QED BY <2>1 DEF Placed
  <1> QED BY <1>1, <1>2, <1>3, <1>4, <1>5, <1>6 DEF Handler

\* A step of one handler leaves the others where they are.
LEMMA OthersPlaced ==
    ASSUME WInv, NEW i \in Slots, NEW j \in Slots, i # j, Handler(i)
    PROVE  Placed(j)'
  <1>1. UNCHANGED <<now, line>> /\ pc'[j] = pc[j]
    <2>1. Moved(i)
      BY HandlerType DEF WInv
    <2> QED BY <2>1 DEF Moved, WInv, IInv, TypeOK
  <1>2. wake'[j] = wake[j] /\ diff'[j] = diff[j]
    <2>1. CASE CronRuns(i)
      <3>1. line[i].mode \in Modes
        BY DEF WInv, IInv, TypeOK, Line
      <3> QED
        BY <2>1, <3>1 DEF CronRuns, Activate, Modes
    <2>2. CASE FirstCheck(i) \/ Loop(i) \/ LastResort(i)
      <3>1. \/ \E keep : Activate(i, keep)
            \/ \E elapsed, otherwise : Doze(i, elapsed, otherwise)
            \/ UNCHANGED <<wake, diff>>
        BY <2>2 DEF FirstCheck, Loop, LastResort
      <3>2. wake \in [Slots -> Nat] /\ diff \in [Slots -> Nat]
        BY DEF WInv, IInv, TypeOK
      <3> QED BY <3>1, <3>2 DEF Activate, Doze
    <2>3. CASE Measure(i)
      BY <2>3 DEF Measure, WInv, IInv, TypeOK
    <2>4. CASE SetBootbank(i) \/ CopyConfig(i) \/ AskReboot(i)
      BY <2>4 DEF SetBootbank, CopyConfig, AskReboot
    <2> QED BY <2>1, <2>2, <2>3, <2>4 DEF Handler
  <1> QED BY <1>1, <1>2 DEF WInv, Placed

LEMMA WindowStep ==
    ASSUME Quick, WInv, [Next]_vars
    PROVE  WInv'
  <1>0. IInv'
    BY TypeStep DEF WInv
  <1>1. ASSUME NEW j \in Slots
        PROVE  Placed(j)'
    <2> DEFINE Same == UNCHANGED <<now, line, pc, wake, diff>>
    <2>1. CASE Same
      BY <2>1 DEF WInv, Placed
    <2>2. ASSUME NEW b \in Banks, NEW asks \in Menu, ActivateLater(b, asks)
          PROVE  Placed(j)'
      <3>1. j \in count + 1 .. count + Len(Taken(asks)) => pc'[j] = "scheduled"
        BY <2>2 DEF ActivateLater
      <3>2. j \notin count + 1 .. count + Len(Taken(asks))
               => pc'[j] = pc[j] /\ line'[j] = line[j]
        BY <2>2 DEF ActivateLater
      <3>3. UNCHANGED <<now, wake, diff>>
        BY <2>2 DEF ActivateLater
      <3> QED BY <3>1, <3>2, <3>3 DEF WInv, Placed
    <2>3. ASSUME NEW i \in Slots, Handler(i)
          PROVE  Placed(j)'
      BY <2>3, HandlerPlaced, OthersPlaced
    <2>4. CASE Tick
      <3>1. now' = now + 1 /\ UNCHANGED <<line, pc, wake, diff>> /\ ~Busy(j)
        BY <2>4 DEF Tick, cron, script
      <3>2. pc[j] \notin {"first", "measure", "loop", "force"}
        BY <3>1 DEF Busy, Checks, Quick
      <3>3. pc[j] = "asleep" => now < wake[j]
        BY <3>1, Numbers DEF Busy, WInv
      <3> QED BY <3>1, <3>2, <3>3, Numbers DEF WInv, Placed
    <2>5. CASE Restart
      <3>1. pc'[j] \notin Live
        BY <2>5 DEF Restart, Live, WInv, IInv, TypeOK
      <3> QED BY <3>1 DEF Placed, Live
    <2>6. CASE UNCHANGED vars
      BY <2>1, <2>6 DEF vars, cron, script
    <2>7. ASSUME NEW b \in Banks, NEW value \in BOOLEAN,
                 \/ SetBootFirmwareImage(b) \/ ActivateNow(b)
                 \/ SetAvailable(b, value) \/ SetKeepConfig(value)
          PROVE  Placed(j)'
      <3>1. Same
        BY <2>7 DEF SetBootFirmwareImage, ActivateNow, SetAvailable,
                    SetKeepConfig, cron, script
      <3> QED BY <2>1, <3>1
    <2>8. CASE Refresh \/ \E s \in setters : SetterEnds(s)
      <3>1. Same
        BY <2>8 DEF Refresh, SetterEnds, Here, cron, script
      <3> QED BY <2>1, <3>1
    <2>10. CASE CronRestart
      <3>1. /\ UNCHANGED <<now, line, wake, diff>>
            /\ pc'[j] = pc[j] \/ pc'[j] = "missed"
        BY <2>10 DEF CronRestart
      <3> QED BY <3>1 DEF WInv, Placed
    <2>9. InitialBank \in Banks
      BY ActivationAssumption
    <2> QED
      BY <2>2, <2>3, <2>4, <2>5, <2>6, <2>7, <2>8, <2>9, <2>10
      DEF Next, Reboot, PowerCut
  <1> QED BY <1>0, <1>1 DEF WInv

\* What is known of a handler that decides: the line bounds it.
Kept(i) ==
    Decides(i) =>
          /\ pc[i] # "free"
          /\ line[i].due <= now /\ now <= WindowEnd(i)
          /\ pc[i] = "force" =>
                line[i].force /\ WindowEnd(i) <= now + RETRY_TIME

LEMMA HandlerDecides ==
    ASSUME WInv, NEW i \in Slots, Handler(i), pc[i] # "activate"
    PROVE  Kept(i)
  <1>0. IInv /\ Placed(i)
    BY DEF WInv
  <1>g. ASSUME NEW place, Goto(i, place)
        PROVE  pc'[i] = place
    BY <1>0, <1>g DEF Goto, IInv, TypeOK
  <1>1. CASE CronRuns(i)
    <2>1. line[i].due = now /\ pc[i] = "scheduled"
      BY <1>1 DEF CronRuns, Fires
    <2> QED BY <1>0, <2>1, Numbers DEF Kept, Decides, WindowEnd
  <1>2. CASE FirstCheck(i)
    <2>1. now = line[i].due /\ pc[i] = "first"
      BY <1>0, <1>2 DEF FirstCheck, Placed
    <2> QED BY <1>0, <2>1, Numbers DEF Kept, Decides, WindowEnd
  <1>3. CASE Measure(i)
    BY <1>3, <1>g DEF Measure, Kept, Decides
  <1>4. CASE Loop(i)
    BY <1>0, <1>4 DEF Loop, Placed, Kept, Decides, WindowEnd
  <1>5. CASE LastResort(i)
    <2>1. CASE line[i].force
      BY <1>0, <1>5, <2>1 DEF LastResort, Placed, Kept, Decides, WindowEnd
    <2>2. CASE ~line[i].force
      BY <1>5, <1>g, <2>2 DEF LastResort, Kept, Decides
    <2> QED BY <2>1, <2>2
  <1>6. CASE SetBootbank(i) \/ CopyConfig(i) \/ AskReboot(i)
    <2>1. pc'[i] \in {"copy", "reboot", "ended"}
      BY <1>6, <1>g DEF SetBootbank, CopyConfig, AskReboot
    <2> QED BY <2>1 DEF Kept, Decides
  <1> QED BY <1>1, <1>2, <1>3, <1>4, <1>5, <1>6 DEF Handler

LEMMA StepDecides ==
    ASSUME WInv, [Next]_vars, NEW j \in Slots
    PROVE  Kept(j)
  <1> SUFFICES ASSUME pc[j] # "activate"
               PROVE  Kept(j)
    BY DEF Kept, Decides
  <1>1. CASE UNCHANGED pc
    BY <1>1 DEF Kept, Decides
  <1>2. ASSUME NEW b \in Banks, NEW asks \in Menu, ActivateLater(b, asks)
        PROVE  Kept(j)
    BY <1>2 DEF ActivateLater, Kept, Decides
  <1>3. ASSUME NEW i \in Slots, Handler(i), i # j
        PROVE  Kept(j)
    <2>1. Moved(i)
      BY <1>3, HandlerType DEF WInv
    <2>2. pc'[j] = pc[j]
      BY <1>3, <2>1 DEF Moved, WInv, IInv, TypeOK
    <2> QED BY <2>2 DEF Kept, Decides
  <1>4. CASE Restart
    BY <1>4 DEF Restart, Kept, Decides
  <1>5. ASSUME NEW b \in Banks, NEW value \in BOOLEAN,
               \/ SetBootFirmwareImage(b) \/ ActivateNow(b)
               \/ SetAvailable(b, value) \/ SetKeepConfig(value)
        PROVE  UNCHANGED pc
    BY <1>5 DEF SetBootFirmwareImage, ActivateNow, SetAvailable,
                SetKeepConfig, script
  <1>6. ASSUME Refresh \/ Tick \/ \E s \in setters : SetterEnds(s)
        PROVE  UNCHANGED pc
    BY <1>6 DEF Refresh, Tick, SetterEnds, script
  <1>9. CASE CronRestart
    BY <1>9 DEF CronRestart, Kept, Decides
  <1>7. UNCHANGED vars => UNCHANGED pc
    BY DEF vars, script
  <1>8. InitialBank \in Banks
    BY ActivationAssumption
  <1> QED
    BY <1>1, <1>2, <1>3, <1>4, <1>5, <1>6, <1>7, <1>8, <1>9, HandlerDecides
    DEF Next, Reboot, PowerCut

LEMMA InitW ==
    ASSUME Init
    PROVE  WInv
  <1>1. IInv
    BY InitTyped
  <1> QED BY <1>1 DEF Init, WInv, Placed

-----------------------------------------------------------------------------
(***************************************************************************)
(* The windows of one Activate() one after the other.  valid_time_window() *)
(* compares each window with the next one only: that the first does not    *)
(* reach into the third takes an induction over the windows, which rests   *)
(* on each set of numbers having a least one.                              *)
(***************************************************************************)
Below == OpToRel(<, Nat)

LEMMA BelowIsLess == \A x, y \in Nat : x < y => <<x, y>> \in Below
  BY DEF OpToRel, Below

LEMMA BelowWellFounded == IsWellFoundedOn(Below, Nat)
  BY NatLessThanWellFounded DEF Below

LEMMA Least ==
    ASSUME NEW T, T \subseteq Nat, T # {}
    PROVE  \E x \in T : \A y \in T : x <= y
  <1>1. PICK x \in T : \A y \in T : ~(<<y, x>> \in Below)
    BY BelowWellFounded, WFMin
  <1>2. \A y \in T : ~(y < x)
    BY <1>1, BelowIsLess
  <1>3. \A y \in T : x <= y
    BY <1>2
  <1> QED BY <1>3

\* No window of a valid request reaches into a later one.
LEMMA WindowsApart ==
    ASSUME NEW windows \in Seq(Window), Valid(windows),
           NEW k \in 1..Len(windows), NEW l \in 1..Len(windows), k < l
    PROVE  windows[k].end <= windows[l].start
  <1> DEFINE n == Len(windows)
             T == {m \in 1..n : k < m /\ ~(windows[k].end <= windows[m].start)}
  <1>1. /\ n \in Nat
        /\ \A m \in 1..n : /\ windows[m].start \in Nat
                           /\ windows[m].end \in Nat
                           /\ windows[m].start <= windows[m].end
    <2>1. DOMAIN windows = 1..n
      OBVIOUS
    <2>2. \A m \in 1..n : windows[m] \in Window
      BY <2>1
    <2> QED BY <2>1, <2>2 DEF Window, Valid
  <1>2. \A m \in 1..n : m # 1 => windows[m - 1].end <= windows[m].start
    BY DEF Valid
  <1>3. CASE T = {}
    BY <1>3
  <1>4. CASE T # {}
    <2>1. T \subseteq Nat
      OBVIOUS
    <2> HIDE DEF T
    <2>2. PICK m \in T : \A y \in T : m <= y
      BY <1>4, <2>1, Least
    <2>3. /\ m \in 1..n /\ k < m
          /\ ~(windows[k].end <= windows[m].start)
      BY <2>2 DEF T
    <2>4. m # 1 /\ m - 1 \in 1..n
      BY <1>1, <2>3
    <2>5. windows[m - 1].end <= windows[m].start
      BY <1>2, <2>3, <2>4
    <2>6. m - 1 # k
      BY <2>3, <2>5
    <2>7. m - 1 \notin T
      BY <2>2, <2>3
    <2>8. windows[k].end <= windows[m - 1].start
      BY <2>3, <2>4, <2>6, <2>7 DEF T
    <2> QED BY <1>1, <2>3, <2>4, <2>5, <2>8
  <1> QED BY <1>3, <1>4

\* The lines of one Activate() are those after count, in the order of its
\* windows; a line is due less than a minute before its window opens, so that
\* it ends less than a minute after the next ones are due, or later by as much
\* as it was put off.
Unused == \A i \in Slots : i > count => pc[i] = "free"

CallsApart == \A i \in Slots : i <= count => line[i].call < i

Rounded ==
    \A i \in Slots :
        i <= count => /\ line[i].due <= Opens(i)
                      /\ Opens(i) < line[i].due + MINUTE

InOrder ==
    \A i, j \in Slots :
        i < j /\ j <= count /\ line[i].call = line[j].call
            => WindowEnd(i) < line[j].due + MINUTE
                              + Postponed(line[i].start) - line[i].start

\* A handler is at work before the end of its window, or in the tick it was
\* started in.
Within ==
    \A i \in Slots : pc[i] \in Live => now = line[i].due \/ now < WindowEnd(i)

OInv == WInv /\ Unused /\ CallsApart /\ Rounded /\ InOrder /\ Within

LEMMA LaterInOrder ==
    ASSUME OInv, NEW b \in Banks, NEW asks \in Menu, ActivateLater(b, asks)
    PROVE  Unused' /\ CallsApart' /\ Rounded' /\ InOrder' /\ Within'
  <1> DEFINE windows == Taken(asks)
             n == Len(windows)
             added == count + 1 .. count + n
  <1>1. /\ windows \in Seq(Window) /\ n \in Nat
        /\ DOMAIN windows = 1..n
    BY TakenType, ActivationAssumption
  <1>2. /\ Valid(windows)
        /\ count' = count + n
        /\ line' = [i \in Slots |->
              IF i \in added THEN LineOf(windows, i - count, b) ELSE line[i]]
        /\ pc' = [i \in Slots |-> IF i \in added THEN "scheduled" ELSE pc[i]]
        /\ now' = now
    BY DEF ActivateLater
  <1>3. count \in Nat /\ now \in Nat /\ count <= MaxLines /\ MaxLines \in Nat
    BY ActivationAssumption DEF OInv, WInv, IInv, TypeOK
  <1> HIDE DEF windows
  <1>4. \A i \in Slots : i \in added =>
           /\ i - count \in 1..n
           /\ line'[i] = LineOf(windows, i - count, b)
           /\ pc'[i] = "scheduled"
    BY <1>1, <1>2, <1>3 DEF Slots
  <1>5. \A i \in Slots : i \notin added =>
           line'[i] = line[i] /\ pc'[i] = pc[i]
    BY <1>2
  <1>6. \A i \in Slots : i \in added <=> count < i /\ i <= count'
    BY <1>1, <1>2, <1>3 DEF Slots
  <1> HIDE DEF added
  <1>7. Unused'
    <2>1. ASSUME NEW i \in Slots, i > count'
          PROVE  pc'[i] = "free"
      <3>1. i > count /\ i \notin added
        BY <1>1, <1>2, <1>3, <1>6, <2>1 DEF Slots
      <3> QED BY <1>5, <3>1 DEF OInv, Unused
    <2> QED BY <2>1 DEF Unused
  <1>8. CallsApart'
    <2>1. ASSUME NEW i \in Slots, i <= count'
          PROVE  line'[i].call < i
      <3>1. CASE i \in added
        <4>1. line'[i] = LineOf(windows, i - count, b)
          BY <1>4, <3>1
        <4>2. line'[i].call = count
          BY <4>1 DEF LineOf
        <4>3. count < i
          BY <1>6, <3>1
        <4> QED BY <4>2, <4>3
      <3>2. CASE i \notin added
        <4>1. i <= count
          BY <1>1, <1>2, <1>3, <1>6, <2>1, <3>2 DEF Slots
        <4> QED BY <1>5, <3>2, <4>1 DEF OInv, CallsApart
      <3> QED BY <3>1, <3>2
    <2> QED BY <2>1 DEF CallsApart
  <1>9. InOrder'
    <2>1. ASSUME NEW i \in Slots, NEW j \in Slots, i < j, j <= count',
                 line'[i].call = line'[j].call
          PROVE  line'[i].due + line'[i].span <
                    line'[j].due + MINUTE
                    + Postponed(line'[i].start) - line'[i].start
      <3>0. i \in Nat /\ j \in Nat
        BY DEF Slots
      <3>1. CASE j \notin added
        <4>1. j <= count /\ i <= count /\ i \notin added
          BY <1>1, <1>2, <1>3, <1>6, <2>1, <3>0, <3>1
        <4> QED BY <1>5, <2>1, <3>1, <4>1 DEF OInv, InOrder, WindowEnd
      <3>2. CASE j \in added /\ i \notin added
        <4>1. i <= count
          BY <1>1, <1>2, <1>3, <1>6, <2>1, <3>0, <3>2
        <4>2. line'[j].call = count
          <5>1. line'[j] = LineOf(windows, j - count, b)
            BY <1>4, <3>2
          <5> QED BY <5>1 DEF LineOf
        <4>3. line'[i].call < i /\ line'[i].call \in Nat
          <5>1. line[i] \in Line
            BY DEF OInv, WInv, IInv, TypeOK
          <5> QED BY <1>5, <3>2, <4>1, <5>1 DEF OInv, CallsApart, Line
        <4> QED BY <1>3, <2>1, <3>0, <4>1, <4>2, <4>3
      <3>3. CASE j \in added /\ i \in added
        <4> DEFINE k == i - count
                   l == j - count
        <4>1. /\ k \in 1..n /\ l \in 1..n /\ k < l
              /\ line'[i] = LineOf(windows, k, b)
              /\ line'[j] = LineOf(windows, l, b)
          BY <1>3, <1>4, <2>1, <3>0, <3>3
        <4> HIDE DEF k, l
        <4>2. windows[k].end <= windows[l].start
          BY <1>1, <1>2, <4>1, WindowsApart
        <4>3. /\ windows[k].start \in Nat /\ windows[k].end \in Nat
              /\ windows[l].start \in Nat
          <5>1. windows[k] \in Window /\ windows[l] \in Window
            BY <1>1, <4>1
          <5> QED BY <5>1 DEF Window
        <4>4. /\ line'[i].due = Due(windows[k].start)
              /\ line'[i].span = windows[k].end - windows[k].start
              /\ line'[i].start = windows[k].start
              /\ line'[j].due = Due(windows[l].start)
          BY <4>1 DEF LineOf
        <4>5. TypeOK /\ MINUTE \in Nat
          BY ActivationAssumption DEF OInv, WInv, IInv
        <4>6. /\ Due(windows[k].start) \in Nat
              /\ Due(windows[l].start) \in Nat
              /\ Postponed(windows[k].start) \in Nat
              /\ Postponed(windows[l].start) \in Nat
              /\ Due(windows[k].start) <= now + Postponed(windows[k].start)
              /\ windows[l].start <= Postponed(windows[l].start)
              /\ now + Postponed(windows[l].start)
                    < Due(windows[l].start) + MINUTE
          BY <4>3, <4>5, DueRounded
        <4> QED BY <1>3, <4>2, <4>3, <4>4, <4>5, <4>6
      <3> QED BY <3>1, <3>2, <3>3
    <2> QED BY <2>1 DEF InOrder, WindowEnd, Postponed
  <1>10. Within'
    <2>1. ASSUME NEW i \in Slots, pc'[i] \in Live
          PROVE  now = line'[i].due \/ now < line'[i].due + line'[i].span
      <3>1. i \notin added
        BY <1>4, <2>1 DEF Live
      <3> QED BY <1>5, <2>1, <3>1 DEF OInv, Within, WindowEnd
    <2> QED BY <1>2, <2>1 DEF Within, WindowEnd, Live
  <1>11. Rounded'
    <2>1. ASSUME NEW i \in Slots, i <= count'
          PROVE  /\ line'[i].due <= line'[i].at + Postponed(line'[i].start)
                 /\ line'[i].at + Postponed(line'[i].start)
                       < line'[i].due + MINUTE
      <3>1. CASE i \in added
        <4> DEFINE k == i - count
        <4>1. k \in 1..n /\ line'[i] = LineOf(windows, k, b)
          BY <1>4, <3>1
        <4> HIDE DEF k
        <4>2. windows[k].start \in Nat
          <5>1. windows[k] \in Window
            BY <1>1, <4>1
          <5> QED BY <5>1 DEF Window
        <4>3. /\ line'[i].due = Due(windows[k].start)
              /\ line'[i].start = windows[k].start
              /\ line'[i].at = now
          BY <4>1 DEF LineOf
        <4>4. TypeOK
          BY DEF OInv, WInv, IInv
        <4> QED BY <4>2, <4>3, <4>4, DueRounded
      <3>2. CASE i \notin added
        <4>1. i <= count
          BY <1>1, <1>2, <1>3, <1>6, <2>1, <3>2 DEF Slots
        <4> QED BY <1>5, <3>2, <4>1 DEF OInv, Rounded, Opens
      <3> QED BY <3>1, <3>2
    <2> QED BY <2>1 DEF Rounded, Opens, Postponed
  <1> QED BY <1>7, <1>8, <1>9, <1>10, <1>11

\* A handler starts in the minute its line is due, and decides before the end
\* of its window: a sleep that would not end in it is not taken.
LEMMA HandlerWithin ==
    ASSUME OInv, NEW i \in Slots, Handler(i)
    PROVE  Unused' /\ CallsApart' /\ Rounded' /\ InOrder' /\ Within'
  <1>0. WInv /\ IInv /\ Placed(i)
    BY DEF OInv, WInv
  <1>1. Moved(i)
    BY <1>0, HandlerType
  <1>2. UNCHANGED <<now, count, line>>
    BY <1>1 DEF Moved
  <1>3. /\ pc \in [Slots -> Live \cup {"free", "scheduled", "ended", "killed",
                                       "missed"}]
        /\ \A j \in Slots : j # i => pc'[j] = pc[j]
    BY <1>0, <1>1 DEF Moved, IInv, TypeOK
  <1>4. pc[i] = "scheduled" \/ pc[i] \in Live
    BY DEF Handler, CronRuns, Fires, FirstCheck, Measure, Loop, LastResort,
           SetBootbank, CopyConfig, AskReboot, Live
  <1>5. pc[i] = "scheduled" => line[i].due = now
    BY DEF Handler, CronRuns, Fires, FirstCheck, Measure, Loop, LastResort,
           SetBootbank, CopyConfig, AskReboot
  <1>6. Unused'
    BY <1>2, <1>3, <1>4 DEF OInv, Unused, Live
  <1>7. CallsApart' /\ Rounded' /\ InOrder'
    BY <1>2 DEF OInv, CallsApart, Rounded, Opens, InOrder, WindowEnd,
                Postponed
  <1>8. now = line[i].due \/ now < line[i].due + line[i].span
    BY <1>4, <1>5 DEF OInv, Within, WindowEnd
  <1>9. Within'
    BY <1>2, <1>3, <1>8 DEF OInv, Within, WindowEnd, Live
  <1> QED BY <1>6, <1>7, <1>9

LEMMA OrderStep ==
    ASSUME Quick, OInv, [Next]_vars
    PROVE  OInv'
  <1>0. WInv'
    BY WindowStep DEF OInv
  <1>1. CASE UNCHANGED <<now, count, line, pc>>
    <2>1. Unused' /\ CallsApart' /\ Rounded' /\ InOrder' /\ Within'
      BY <1>1 DEF OInv, Unused, CallsApart, Rounded, Opens, InOrder, Within,
                  WindowEnd, Postponed
    <2> QED BY <1>0, <2>1 DEF OInv
  <1>2. ASSUME NEW b \in Banks, NEW asks \in Menu, ActivateLater(b, asks)
        PROVE  OInv'
    BY <1>0, <1>2, LaterInOrder DEF OInv
  <1>3. ASSUME NEW i \in Slots, Handler(i)
        PROVE  OInv'
    BY <1>0, <1>3, HandlerWithin DEF OInv
  <1>4. CASE Tick
    <2>1. now' = now + 1 /\ UNCHANGED <<count, line, pc>>
      BY <1>4 DEF Tick, cron, script
    <2>2. Unused' /\ CallsApart' /\ Rounded' /\ InOrder'
      BY <2>1 DEF OInv, Unused, CallsApart, Rounded, Opens, InOrder,
                  WindowEnd, Postponed
    <2>3. ASSUME NEW i \in Slots, pc[i] \in Live
          PROVE  now + 1 < line[i].due + line[i].span
      <3>1. ~Busy(i)
        BY <1>4 DEF Tick
      <3>2. pc[i] = "asleep" /\ ~(wake[i] <= now)
        BY <2>3, <3>1 DEF Busy, Checks, Quick, Live
      <3>3. wake[i] < line[i].due + line[i].span
        BY <3>2 DEF OInv, WInv, Placed
      <3> QED BY <3>2, <3>3, Numbers DEF OInv, WInv
    <2>4. Within'
      BY <2>1, <2>3 DEF Within, WindowEnd, Live
    <2> QED BY <1>0, <2>2, <2>4 DEF OInv
  <1>5. CASE Restart
    <2>1. UNCHANGED <<count, line>>
      BY <1>5 DEF Restart
    <2>2. \A i \in Slots : /\ pc'[i] \notin Live
                           /\ pc[i] = "free" => pc'[i] = "free"
      BY <1>5 DEF Restart, Live, Late, OInv, WInv, IInv, TypeOK
    <2>3. Unused' /\ CallsApart' /\ Rounded' /\ InOrder' /\ Within'
      BY <2>1, <2>2 DEF OInv, Unused, CallsApart, Rounded, Opens, InOrder,
                        WindowEnd, Within, Live, Postponed
    <2> QED BY <1>0, <2>3 DEF OInv
  <1>6. ASSUME NEW b \in Banks, NEW value \in BOOLEAN,
               \/ SetBootFirmwareImage(b) \/ ActivateNow(b)
               \/ SetAvailable(b, value) \/ SetKeepConfig(value)
        PROVE  UNCHANGED <<now, count, line, pc>>
    BY <1>6 DEF SetBootFirmwareImage, ActivateNow, SetAvailable,
                SetKeepConfig, cron, script
  <1>7. ASSUME Refresh \/ \E s \in setters : SetterEnds(s)
        PROVE  UNCHANGED <<now, count, line, pc>>
    BY <1>7 DEF Refresh, SetterEnds, Here, cron, script
  <1>10. CASE CronRestart
    <2>1. UNCHANGED <<now, count, line>>
      BY <1>10 DEF CronRestart
    <2>2. \A i \in Slots : /\ pc'[i] = pc[i] \/ pc'[i] = "missed"
                           /\ pc[i] = "free" => pc'[i] = "free"
      BY <1>10 DEF CronRestart, Late
    <2>3. Unused' /\ CallsApart' /\ Rounded' /\ InOrder'
      BY <2>1, <2>2 DEF OInv, Unused, CallsApart, Rounded, Opens, InOrder,
                        WindowEnd, Postponed
    <2>4. Within'
      BY <2>1, <2>2 DEF OInv, Within, WindowEnd, Live
    <2> QED BY <1>0, <2>3, <2>4 DEF OInv
  <1>8. UNCHANGED vars => UNCHANGED <<now, count, line, pc>>
    BY DEF vars, cron, script
  <1>9. InitialBank \in Banks
    BY ActivationAssumption
  <1> QED BY <1>1, <1>2, <1>3, <1>4, <1>5, <1>6, <1>7, <1>8, <1>9, <1>10
          DEF Next, Reboot, PowerCut

LEMMA InitO ==
    ASSUME Init
    PROVE  OInv
  <1>1. WInv
    BY InitW
  <1>2. /\ count = 0 /\ pc = [i \in Slots |-> "free"]
    BY DEF Init
  <1> QED BY <1>1, <1>2 DEF OInv, Unused, CallsApart, Rounded, InOrder, Within,
          Live, Slots

\* Whatever the windows, the sleeps, the faults and the restarts, the script
\* decides to activate less than a minute before the window that was asked for,
\* put off to the next minute if it was asked for sooner, and never after its
\* end, and forces it only in the last window and when another sleep would not
\* fit in (fw_images.c:675-684, bbf_activate_handler.sh:59-85).
THEOREM StaysInWindow ==
    ASSUME Quick
    PROVE  Spec => ActivatesInWindow
  <1> DEFINE InWindow(i) ==
        Decides(i) =>
          /\ Opens(i) < now + MINUTE
          /\ now <= Opens(i) + line[i].span
          /\ pc[i] = "force" =>
                line[i].force /\ WindowEnd(i) <= now + RETRY_TIME
  <1>1. Init => OInv
    BY InitO
  <1>2. OInv /\ [Next]_vars => OInv'
    BY OrderStep
  <1>3. OInv /\ [Next]_vars => [\A i \in Slots : InWindow(i)]_vars
    <2> SUFFICES ASSUME OInv, [Next]_vars, NEW i \in Slots, Decides(i)
                 PROVE  /\ Opens(i) < now + MINUTE
                        /\ now <= Opens(i) + line[i].span
                        /\ pc[i] = "force" =>
                              /\ line[i].force
                              /\ WindowEnd(i) <= now + RETRY_TIME
      OBVIOUS
    <2>1. WInv /\ IInv
      BY DEF OInv, WInv
    <2>2. /\ pc[i] # "free"
          /\ line[i].due <= now /\ now <= line[i].due + line[i].span
          /\ pc[i] = "force" =>
                line[i].force /\ WindowEnd(i) <= now + RETRY_TIME
      BY <2>1, StepDecides DEF Kept, WindowEnd
    <2>3. i <= count
      <3>1. ~(i > count)
        BY <2>2 DEF OInv, Unused
      <3> QED BY <2>1, <3>1, ActivationAssumption DEF Slots, IInv, TypeOK
    <2>4. line[i].due <= Opens(i) /\ Opens(i) < line[i].due + MINUTE
      BY <2>3 DEF OInv, Rounded
    <2>5. Opens(i) \in Nat /\ MINUTE \in Nat
      <3>1. line[i].at \in Nat /\ line[i].start \in Nat
        BY <2>1 DEF IInv, TypeOK, Line
      <3> QED BY <3>1, ActivationAssumption DEF Opens, Postponed
    <2>6. /\ now \in Nat /\ line[i].due \in Nat /\ line[i].span \in Nat
      BY <2>1, Numbers
    <2> QED BY <2>2, <2>4, <2>5, <2>6
  <1>4. Spec => [][\A i \in Slots : InWindow(i)]_vars
    BY <1>1, <1>2, <1>3, PTL DEF Spec
  <1> QED BY <1>4 DEF ActivatesInWindow

\* Two windows of one Activate() have their handlers at work together for less
\* than a minute, and for what the earlier one was put off by, for any number
\* of windows and whatever their lengths (fw_images.c:653-657, 675-684).
THEOREM HandlersApart ==
    ASSUME Quick
    PROVE  Spec => []OneAtATime
  <1>1. Init => OInv
    BY InitO
  <1>2. OInv /\ [Next]_vars => OInv'
    BY OrderStep
  <1>3. OInv => OneAtATime
    <2> SUFFICES ASSUME OInv, NEW i \in Slots, NEW j \in Slots, i < j,
                        line[i].call = line[j].call,
                        pc[i] \in Live, pc[j] \in Live
                 PROVE  now < line[j].due + MINUTE
                              + Postponed(line[i].start) - line[i].start
      BY DEF OneAtATime
    <2>1. IInv
      BY DEF OInv, WInv
    <2>2. j <= count
      <3>1. ~(j > count)
        BY DEF OInv, Unused, Live
      <3> QED BY <2>1, <3>1, ActivationAssumption DEF Slots, IInv, TypeOK
    <2>3. line[i].due + line[i].span
             < line[j].due + MINUTE + Postponed(line[i].start) - line[i].start
      BY <2>2 DEF OInv, InOrder, WindowEnd
    <2>4. now = line[i].due \/ now < line[i].due + line[i].span
      BY DEF OInv, Within, WindowEnd
    <2>5. Postponed(line[i].start) \in Nat /\ line[i].start \in Nat
          /\ MINUTE \in Nat
      <3>1. line[i].start \in Nat
        BY <2>1 DEF IInv, TypeOK, Line
      <3> QED BY <3>1, ActivationAssumption DEF Postponed
    <2>6. now <= line[i].due + line[i].span
      BY <2>1, <2>4, Numbers
    <2> QED BY <2>1, <2>3, <2>5, <2>6, Numbers
  <1> QED BY <1>1, <1>2, <1>3, PTL DEF Spec

=============================================================================
