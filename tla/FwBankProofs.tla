---------------------------- MODULE FwBankProofs ----------------------------
(***************************************************************************)
(* Proofs about FwBank, for any banks, any number of requests and tasks,   *)
(* any limit of retries and any disturbance.                               *)
(***************************************************************************)
EXTENDS FwBank, FiniteSetTheorems, SequenceTheorems, TLAPS

-----------------------------------------------------------------------------
(***************************************************************************)
(* Tasks                                                                   *)
(***************************************************************************)
States == {"new", "deferred", "refused", "answered", "unanswered", "called"}

\* What a task is for never changes.
Kin(t, u) ==
    /\ u \in Task
    /\ u.kind = t.kind /\ u.req = t.req /\ u.bank = t.bank

\* Before its script has acted a task has no result, and a good dump shows a
\* state of the banks.
Sound(t) ==
    /\ t.script = "todo" => t.result = "none"
    /\ t.kind = "dump" /\ t.result = "ok" => t.snap # 0

\* Who serves whom: a dump serves nobody, nor does a task of the data model,
\* any other task serves one request, which it alone serves, and which is
\* deferred as long as the task is not finished.
Called(rs) == \E r \in Requests : rs[r] = "called"

Serves(t, rs) ==
    IF t.kind = "dump" THEN t.req = NoReq
    ELSE \/ t.req \in Requests /\ rs[t.req] \notin {"new", "refused", "called"}
         \/ t.req = NoReq /\ t.kind = "set_bootbank" /\ Called(rs)

Ledger(ts, rs) ==
    /\ \A i \in DOMAIN ts : Serves(ts[i], rs)
    /\ \A i, j \in DOMAIN ts :
          ts[i].req = ts[j].req /\ ts[i].req \in Requests => i = j
    /\ \A r \in Requests :
          rs[r] = "deferred" <=>
             \E i \in DOMAIN ts : ts[i].req = r /\ Owned(ts[i])

Good(ts, rs) ==
    /\ ts \in Seq(Task)
    /\ rs \in [Requests -> States]
    /\ \A i \in DOMAIN ts : Sound(ts[i])
    /\ Ledger(ts, rs)

\* A task changes and goes on.
LEMMA GoodUpdate ==
    ASSUME NEW ts, NEW rs, Good(ts, rs), NEW id \in DOMAIN ts, NEW u,
           Kin(ts[id], u), Sound(u), Owned(u) <=> Owned(ts[id])
    PROVE  /\ Good([ts EXCEPT ![id] = u], rs)
           /\ DOMAIN [ts EXCEPT ![id] = u] = DOMAIN ts
           /\ Len([ts EXCEPT ![id] = u]) = Len(ts)
  <1> DEFINE after == [ts EXCEPT ![id] = u]
  <1>1. ts \in Seq(Task) /\ u \in Task
    BY DEF Good, Kin
  <1>2. /\ after \in Seq(Task) /\ DOMAIN after = DOMAIN ts
        /\ Len(after) = Len(ts)
    BY <1>1
  <1>3. \A i \in DOMAIN ts : after[i] = IF i = id THEN u ELSE ts[i]
    BY <1>1
  <1>4. \A i \in DOMAIN ts :
           /\ after[i].kind = ts[i].kind /\ after[i].req = ts[i].req
           /\ Owned(after[i]) <=> Owned(ts[i])
           /\ Sound(after[i])
    BY <1>3 DEF Kin, Good
  <1> HIDE DEF after
  <1>5. Ledger(after, rs)
    <2>1. Ledger(ts, rs)
      BY DEF Good
    <2>2. ASSUME NEW i \in DOMAIN after
          PROVE  Serves(after[i], rs)
      <3>1. Serves(ts[i], rs)
        BY <1>2, <2>1 DEF Ledger
      <3> QED BY <1>2, <1>4, <3>1 DEF Serves
    <2> QED BY <1>2, <1>4, <2>1, <2>2 DEF Ledger
  <1>6. Good(after, rs)
    BY <1>2, <1>4, <1>5 DEF Good
  <1> QED BY <1>2, <1>6 DEF after

\* A task ends and its request with it.
LEMMA GoodClose ==
    ASSUME NEW ts, NEW rs, Good(ts, rs), NEW id \in DOMAIN ts, NEW u,
           Kin(ts[id], u), Sound(u), u.proc = "done",
           NEW answer \in {"answered", "unanswered"}
    PROVE  /\ Good([ts EXCEPT ![id] = u],
                   IF ts[id].req = NoReq THEN rs
                   ELSE [rs EXCEPT ![ts[id].req] = answer])
           /\ DOMAIN [ts EXCEPT ![id] = u] = DOMAIN ts
           /\ Len([ts EXCEPT ![id] = u]) = Len(ts)
  <1> DEFINE after == [ts EXCEPT ![id] = u]
             r == ts[id].req
             done == IF r = NoReq THEN rs ELSE [rs EXCEPT ![r] = answer]
  <1>1. ts \in Seq(Task) /\ u \in Task /\ rs \in [Requests -> States]
    BY DEF Good, Kin
  <1>2. /\ after \in Seq(Task) /\ DOMAIN after = DOMAIN ts
        /\ Len(after) = Len(ts)
    BY <1>1
  <1>3. \A i \in DOMAIN ts : after[i] = IF i = id THEN u ELSE ts[i]
    BY <1>1
  <1>4. \A i \in DOMAIN ts :
           /\ after[i].kind = ts[i].kind /\ after[i].req = ts[i].req
           /\ Owned(after[i]) <=> Owned(ts[i]) /\ i # id
           /\ Sound(after[i])
    BY <1>3 DEF Kin, Good, Owned
  <1>5. Ledger(ts, rs)
    BY DEF Good
  <1>6. /\ r = NoReq \/ r \in Requests
        /\ r \in Requests => rs[r] # "called"
    <2>1. Serves(ts[id], rs) /\ NoReq \notin Requests
      BY <1>5, FwBankAssumption DEF Ledger
    <2> QED BY <2>1 DEF Serves
  <1>7. /\ done \in [Requests -> States]
        /\ \A q \in Requests : done[q] = IF q = r THEN answer ELSE rs[q]
        /\ NoReq \notin Requests
    <2>1. NoReq \notin Requests
      BY FwBankAssumption
    <2> QED BY <1>1, <1>6, <2>1 DEF States
  <1> HIDE DEF after, done
  <1>8. Ledger(after, done)
    <2>c. Called(rs) => Called(done)
      BY <1>6, <1>7 DEF Called
    <2>1. ASSUME NEW i \in DOMAIN after
          PROVE  Serves(after[i], done)
      <3>1. Serves(ts[i], rs)
        BY <1>2, <1>5 DEF Ledger
      <3>2. after[i].kind = ts[i].kind /\ after[i].req = ts[i].req
        BY <1>2, <1>4
      <3> QED BY <1>7, <2>c, <3>1, <3>2 DEF Serves
    <2>2. \A i, j \in DOMAIN after :
             after[i].req = after[j].req /\ after[i].req \in Requests => i = j
      BY <1>2, <1>4, <1>5 DEF Ledger
    <2>3. ASSUME NEW q \in Requests
          PROVE  done[q] = "deferred" <=>
                    \E i \in DOMAIN after : after[i].req = q /\ Owned(after[i])
      <3>1. CASE q = r
        <4>1. done[q] # "deferred"
          BY <1>7, <3>1
        <4>2. \A i \in DOMAIN after : after[i].req = q => i = id
          BY <1>2, <1>4, <1>5, <3>1 DEF Ledger
        <4> QED BY <1>2, <1>4, <4>1, <4>2
      <3>2. CASE q # r
        <4>1. done[q] = rs[q]
          BY <1>7, <3>2
        <4>2. \A i \in DOMAIN ts : ts[i].req = q => i # id
          BY <3>2
        <4> QED BY <1>2, <1>4, <1>5, <4>1, <4>2 DEF Ledger
      <3> QED BY <3>1, <3>2
    <2> QED BY <2>1, <2>2, <2>3 DEF Ledger
  <1>9. Good(after, done)
    BY <1>2, <1>4, <1>7, <1>8 DEF Good
  <1> QED BY <1>2, <1>9 DEF after, done

LEMMA NewTaskType ==
    ASSUME NEW ts \in Seq(Task), NEW bank \in Banks \cup {0},
           NEW kind \in {"dump", "set_bootbank", "upgrade"},
           NEW req \in Requests \cup {NoReq}
    PROVE  LET t == NewTask(ts, kind, bank, req)
           IN  /\ t \in Task /\ t.kind = kind /\ t.req = req
               /\ Owned(t) /\ Sound(t)
  <1>1. {j \in DOMAIN ts : Owned(ts[j])} \in SUBSET Nat
    OBVIOUS
  <1> QED BY <1>1 DEF NewTask, Task, Owned, Sound

\* A request is deferred.
Defers(rs, rest, q) ==
    /\ rest \in [Requests -> States]
    /\ \A r \in Requests : rest[r] = IF r = q THEN "deferred" ELSE rs[r]

\* A task is forked, for the dump or for a request.
LEMMA GoodFork ==
    ASSUME NEW ts, NEW rs, Good(ts, rs), NEW t \in Task, Owned(t), Sound(t),
           NEW after, after = Append(ts, t), NEW rest,
           \/ t.kind = "dump" /\ t.req = NoReq /\ rest = rs
           \/ /\ t.kind # "dump" /\ t.req \in Requests /\ rs[t.req] = "new"
              /\ Defers(rs, rest, t.req)
           \/ /\ t.kind = "set_bootbank" /\ t.req = NoReq /\ rest = rs
              /\ Called(rs)
    PROVE  Good(after, rest) /\ DOMAIN ts \subseteq DOMAIN after
  <1>1. ts \in Seq(Task) /\ rs \in [Requests -> States]
    BY DEF Good
  <1>2. /\ after \in Seq(Task)
        /\ DOMAIN after = DOMAIN ts \cup {Len(ts) + 1}
        /\ Len(ts) + 1 \notin DOMAIN ts
        /\ after[Len(ts) + 1] = t
        /\ \A i \in DOMAIN ts : after[i] = ts[i]
    BY <1>1
  <1>3. Ledger(ts, rs) /\ NoReq \notin Requests
    BY FwBankAssumption DEF Good
  <1>4. \A i \in DOMAIN after : Sound(after[i])
    BY <1>2 DEF Good
  <1>5. CASE /\ \/ t.kind = "dump"
                \/ t.kind = "set_bootbank" /\ Called(rs)
             /\ t.req = NoReq /\ rest = rs
    <2>0. \A i \in DOMAIN after : Serves(after[i], rs)
      <3>1. Serves(t, rs)
        BY <1>5 DEF Serves
      <3> QED BY <1>2, <1>3, <3>1 DEF Ledger
    <2>1. Ledger(after, rs)
      BY <1>2, <1>3, <1>5, <2>0 DEF Ledger
    <2> QED BY <1>1, <1>2, <1>4, <1>5, <2>1 DEF Good
  <1>6. CASE /\ t.kind # "dump" /\ t.req \in Requests /\ rs[t.req] = "new"
             /\ Defers(rs, rest, t.req)
    <2>1. /\ rest \in [Requests -> States]
          /\ \A r \in Requests : rest[r] = IF r = t.req THEN "deferred"
                                           ELSE rs[r]
      BY <1>6 DEF Defers
    <2>2. \A i \in DOMAIN ts : ts[i].req # t.req
      BY <1>3, <1>6 DEF Ledger, Serves
    <2>c. Called(rs) => Called(rest)
      BY <1>6, <2>1 DEF Called
    <2>3. ASSUME NEW i \in DOMAIN after
          PROVE  Serves(after[i], rest)
      <3>1. CASE i \in DOMAIN ts
        <4>1. Serves(ts[i], rs) /\ after[i] = ts[i]
          BY <1>2, <1>3, <3>1 DEF Ledger
        <4> QED BY <1>3, <2>1, <2>c, <4>1 DEF Serves
      <3>2. CASE after[i] = t
        BY <1>6, <2>1, <3>2 DEF Serves
      <3> QED BY <1>2, <3>1, <3>2
    <2>4. \A i, j \in DOMAIN after :
             after[i].req = after[j].req /\ after[i].req \in Requests => i = j
      BY <1>2, <1>3, <2>2 DEF Ledger
    <2>5. ASSUME NEW r \in Requests
          PROVE  rest[r] = "deferred" <=>
                    \E i \in DOMAIN after : after[i].req = r /\ Owned(after[i])
      <3>1. CASE r = t.req
        BY <1>2, <2>1, <3>1
      <3>2. CASE r # t.req
        <4>1. rest[r] = rs[r]
          BY <2>1, <3>2
        <4> QED BY <1>2, <1>3, <3>2, <4>1 DEF Ledger
      <3> QED BY <3>1, <3>2
    <2>6. Ledger(after, rest)
      BY <2>3, <2>4, <2>5 DEF Ledger
    <2> QED BY <1>2, <1>4, <2>1, <2>6 DEF Good
  <1> QED BY <1>5, <1>6, <1>2

LEMMA GoodDump ==
    ASSUME NEW ts, NEW rs, Good(ts, rs), InitGlobalFwbankDump(ts)
    PROVE  Good(tasks', rs) /\ DOMAIN ts \subseteq DOMAIN tasks'
  <1>1. ts \in Seq(Task)
    BY DEF Good
  <1>2. tasks' = ts \/ tasks' = Append(ts, NewTask(ts, "dump", 0, NoReq))
    BY DEF InitGlobalFwbankDump, TaskFork
  <1>3. CASE tasks' = Append(ts, NewTask(ts, "dump", 0, NoReq))
    <2> DEFINE t == NewTask(ts, "dump", 0, NoReq)
    <2>1. t \in Task /\ t.kind = "dump" /\ t.req = NoReq /\ Owned(t) /\ Sound(t)
      BY <1>1, NewTaskType
    <2> HIDE DEF t
    <2>2. tasks' = Append(ts, t)
      BY <1>3 DEF t
    <2> QED BY <2>1, <2>2, GoodFork
  <1> QED BY <1>2, <1>3

-----------------------------------------------------------------------------
(***************************************************************************)
(* What the actions do to the tasks and the requests                       *)
(***************************************************************************)
LEMMA Fields ==
    ASSUME NEW t \in Task
    PROVE  /\ t.kind \in {"dump", "set_bootbank", "upgrade"}
           /\ t.bank \in Banks \cup {0} /\ t.req \in Requests \cup {NoReq}
           /\ t.result \in {"none", "ok", "no", "bad"}
           /\ t.snap \in Nat /\ t.holds \in SUBSET Nat
  BY DEF Task

LEMMA TimerOff ==
    ASSUME NEW t \in Task, NEW u, u = [t EXCEPT !.timer = FALSE]
    PROVE  /\ Kin(t, u) /\ u.proc = t.proc
           /\ u.script = t.script /\ u.result = t.result /\ u.snap = t.snap
  BY DEF Task, Kin

LEMMA Killed ==
    ASSUME NEW t \in Task,
           NEW u, u = [t EXCEPT !.timer = FALSE, !.proc = "exited",
                                !.result = "none"]
    PROVE  /\ Kin(t, u) /\ u.proc = "exited" /\ u.result = "none"
  BY DEF Task, Kin

CloseTask(t, held) == [t EXCEPT !.proc = "done", !.holds = held]
ActTask(t, r, n) == [t EXCEPT !.script = "acted", !.result = r, !.snap = n]
EndTask(t, held) == [t EXCEPT !.script = "over", !.holds = held]

LEMMA Closes ==
    ASSUME NEW t \in Task, NEW held \in SUBSET Nat
    PROVE  LET u == CloseTask(t, held)
           IN  /\ Kin(t, u) /\ u.proc = "done"
               /\ u.script = t.script /\ u.result = t.result
               /\ u.snap = t.snap
  BY DEF Task, Kin, CloseTask

LEMMA Acts ==
    ASSUME NEW t \in Task, NEW n \in Nat,
           NEW r \in {"none", "ok", "no", "bad"}
    PROVE  LET u == ActTask(t, r, n)
           IN  /\ Kin(t, u) /\ u.proc = t.proc
               /\ u.script = "acted" /\ u.result = r /\ u.snap = n
  BY DEF Task, Kin, ActTask

LEMMA Ends ==
    ASSUME NEW t \in Task, NEW held \in SUBSET Nat
    PROVE  LET u == EndTask(t, held)
           IN  /\ Kin(t, u) /\ u.proc = t.proc
               /\ u.script = "over" /\ u.result = t.result
               /\ u.snap = t.snap
  BY DEF Task, Kin, EndTask

LEMMA Exits ==
    ASSUME NEW t \in Task, NEW u, u = [t EXCEPT !.proc = "exited"]
    PROVE  /\ Kin(t, u) /\ u.proc = "exited"
           /\ u.script = t.script /\ u.result = t.result /\ u.snap = t.snap
  BY DEF Task, Kin

\* One task changes, and goes on.
Goes ==
    \E id \in Ids :
        \E u \in Task :
            /\ tasks' = [tasks EXCEPT ![id] = u]
            /\ Kin(tasks[id], u) /\ Sound(u)
            /\ Owned(u) <=> Owned(tasks[id])

LEMMA TaskGoes ==
    ASSUME Good(tasks, reqs), hw \in Nat \ {0}, NEW id \in Ids,
           TaskTimeout(id) \/ TaskFinish(id) \/ Script(id)
    PROVE  Goes
  <1> DEFINE t == tasks[id]
  <1>0. tasks \in Seq(Task) /\ t \in Task /\ Sound(t)
    BY DEF Good, Ids
  <1> USE <1>0
  <1>u. ASSUME NEW u, tasks' = [tasks EXCEPT ![id] = u],
               Kin(t, u), Sound(u), Owned(u) <=> Owned(t)
        PROVE  Goes
    <2>1. u \in Task
      BY <1>u DEF Kin
    <2> QED BY <1>u, <2>1 DEF Goes
  <1>1. CASE TaskTimeout(id)
    <2>1. CASE t.proc = "live"
      <3> DEFINE u == [t EXCEPT !.timer = FALSE, !.proc = "exited",
                                !.result = "none"]
      <3>1. tasks' = [tasks EXCEPT ![id] = u]
        BY <1>1, <2>1 DEF TaskTimeout
      <3>2. Kin(t, u) /\ u.proc = "exited" /\ u.result = "none"
        BY Killed
      <3> HIDE DEF u
      <3> QED BY <1>u, <2>1, <3>1, <3>2 DEF Sound, Owned
    <2>2. CASE t.proc # "live"
      <3> DEFINE u == [t EXCEPT !.timer = FALSE]
      <3>1. tasks' = [tasks EXCEPT ![id] = u]
        BY <1>1, <2>2 DEF TaskTimeout
      <3>2. /\ Kin(t, u) /\ u.proc = t.proc
            /\ u.script = t.script /\ u.result = t.result /\ u.snap = t.snap
        BY TimerOff
      <3> HIDE DEF u
      <3> QED BY <1>u, <3>1, <3>2 DEF Sound, Owned, Kin
    <2> QED BY <2>1, <2>2
  <1>2. CASE TaskFinish(id)
    <2> DEFINE u == [t EXCEPT !.timer = FALSE]
    <2>1. tasks' = [tasks EXCEPT ![id] = u]
      BY <1>2 DEF TaskFinish
    <2>2. /\ Kin(t, u) /\ u.proc = t.proc
          /\ u.script = t.script /\ u.result = t.result /\ u.snap = t.snap
      BY TimerOff
    <2> HIDE DEF u
    <2> QED BY <1>u, <2>1, <2>2 DEF Sound, Owned, Kin
  <1>3. ASSUME NEW r \in {"none", "ok", "no", "bad"}, NEW n \in Nat,
               ScriptResult(id, r, n),
               t.kind = "dump" => (r = "ok" => n # 0),
               t.script = "todo"
        PROVE  Goes
    <2> DEFINE got == IF t.proc = "live" THEN r ELSE t.result
               u == ActTask(t, got, n)
    <2>1. tasks' = [tasks EXCEPT ![id] = u]
      BY <1>3 DEF ScriptResult, ActTask
    <2>2. got \in {"none", "ok", "no", "bad"}
      BY Fields
    <2>3. t.result = "none"
      BY <1>3 DEF Sound
    <2>4. /\ Kin(t, u) /\ u.proc = t.proc
          /\ u.script = "acted" /\ u.result = got /\ u.snap = n
      <3> HIDE DEF got
      <3> QED BY <2>2, Acts
    <2>5. u.kind = t.kind
      BY <2>4 DEF Kin
    <2>6. u.kind = "dump" /\ u.result = "ok" => u.snap # 0
      BY <1>3, <2>3, <2>4, <2>5
    <2> HIDE DEF u
    <2> QED BY <1>u, <2>1, <2>4, <2>6 DEF Sound, Owned
  <1>4. CASE Script(id)
    <2>1. CASE ScriptDump(id)
      BY <1>3, <2>1 DEF ScriptDump
    <2>2. CASE ScriptSetBootbank(id) \/ ScriptUpgrade(id)
      BY <1>3, <2>2 DEF ScriptSetBootbank, ScriptUpgrade
    <2>3. CASE ScriptFails(id)
      <3>1. PICK r \in {"no", "bad"} : ScriptResult(id, r, 0)
        BY <2>3 DEF ScriptFails
      <3> QED BY <1>3, <2>3, <3>1 DEF ScriptFails
    <2>4. CASE ScriptEnds(id)
      <3> DEFINE held == IF t.proc = "done" THEN {} ELSE t.holds
                 u == EndTask(t, held)
      <3>1. tasks' = [tasks EXCEPT ![id] = u]
        BY <2>4 DEF ScriptEnds, EndTask
      <3>2. held \in SUBSET Nat
        BY Fields
      <3> HIDE DEF held
      <3>3. /\ Kin(t, u) /\ u.proc = t.proc
            /\ u.script = "over" /\ u.result = t.result /\ u.snap = t.snap
        BY <3>2, Ends
      <3> HIDE DEF u
      <3> QED BY <1>u, <3>1, <3>3 DEF Sound, Owned, Kin
    <2>5. CASE ChildExits(id)
      <3> DEFINE u == [t EXCEPT !.proc = "exited"]
      <3>1. tasks' = [tasks EXCEPT ![id] = u] /\ t.proc = "live"
        BY <2>5 DEF ChildExits
      <3>2. /\ Kin(t, u) /\ u.proc = "exited"
            /\ u.script = t.script /\ u.result = t.result /\ u.snap = t.snap
        BY Exits
      <3> HIDE DEF u
      <3> QED BY <1>u, <3>1, <3>2 DEF Sound, Owned, Kin
    <2> QED BY <1>4, <2>1, <2>2, <2>3, <2>4, <2>5 DEF Script
  <1> QED BY <1>1, <1>2, <1>4

\* The task of a finish callback ends.
LEMMA TaskCloses ==
    ASSUME Good(tasks, reqs), NEW id \in Ids,
           NEW answer \in {"answered", "unanswered"}
    PROVE  /\ Good(Closed(id), IF tasks[id].req = NoReq THEN reqs
                               ELSE [reqs EXCEPT ![tasks[id].req] = answer])
           /\ DOMAIN Closed(id) = Ids /\ Len(Closed(id)) = Len(tasks)
  <1> DEFINE t == tasks[id]
             held == IF t.script = "over" THEN {} ELSE t.holds
             u == CloseTask(t, held)
  <1>1. tasks \in Seq(Task) /\ t \in Task /\ Sound(t)
    BY DEF Good, Ids
  <1>2. held \in SUBSET Nat
    BY <1>1, Fields
  <1>3. Closed(id) = [tasks EXCEPT ![id] = u]
    BY <1>1 DEF Closed, CloseTask
  <1> HIDE DEF held
  <1>4. /\ Kin(t, u) /\ u.proc = "done"
        /\ u.script = t.script /\ u.result = t.result /\ u.snap = t.snap
    BY <1>1, <1>2, Closes
  <1> HIDE DEF u
  <1>5. Sound(u)
    BY <1>1, <1>4 DEF Sound, Kin
  <1>6. id \in DOMAIN tasks /\ Ids = DOMAIN tasks
    BY DEF Ids
  <1>7. /\ Good([tasks EXCEPT ![id] = u],
                IF tasks[id].req = NoReq THEN reqs
                ELSE [reqs EXCEPT ![tasks[id].req] = answer])
        /\ DOMAIN [tasks EXCEPT ![id] = u] = DOMAIN tasks
        /\ Len([tasks EXCEPT ![id] = u]) = Len(tasks)
    BY <1>4, <1>5, <1>6, GoodClose
  <1> QED BY <1>3, <1>6, <1>7

\* A dump serves nobody, so that it ends without a request.
LEMMA DumpCloses ==
    ASSUME Good(tasks, reqs), NEW id \in Ids, tasks[id].kind = "dump"
    PROVE  Good(Closed(id), reqs)
  <1>1. tasks[id].req = NoReq
    BY DEF Good, Ledger, Serves, Ids
  <1> QED BY <1>1, TaskCloses

-----------------------------------------------------------------------------
(***************************************************************************)
(* The steps                                                               *)
(***************************************************************************)
Ledgered == Good(tasks, reqs)

LEMMA HandleLedger ==
    ASSUME Ledgered, NEW kind \in {"set_bootbank", "upgrade"},
           NEW bank \in Banks \cup {0}, NEW r \in Requests,
           Handle(kind, r, bank)
    PROVE  Ledgered' /\ Ids \subseteq Ids'
  <1> DEFINE t == NewTask(tasks, kind, bank, r)
  <1>1. tasks \in Seq(Task) /\ reqs \in [Requests -> States]
    BY DEF Ledgered, Good
  <1>2. PICK after \in TaskFork(tasks, kind, bank, r) :
           /\ tasks' = after
           /\ reqs' = [reqs EXCEPT ![r] = IF after = tasks THEN "refused"
                                          ELSE "deferred"]
    BY DEF Handle
  <1>3. reqs[r] = "new"
    BY DEF Handle, Calls
  <1>k. kind \in {"dump", "set_bootbank", "upgrade"} /\ kind # "dump"
    OBVIOUS
  <1>4. t \in Task /\ t.kind = kind /\ t.req = r /\ Owned(t) /\ Sound(t)
    <2>1. {j \in DOMAIN tasks : Owned(tasks[j])} \in SUBSET Nat
      BY <1>1
    <2> QED BY <1>k, <2>1 DEF NewTask, Task, Owned, Sound
  <1>5. after = Append(tasks, t) \/ after = tasks
    BY <1>2 DEF TaskFork
  <1> HIDE DEF t
  <1>6. CASE after = tasks
    <2>1. /\ reqs' \in [Requests -> States]
          /\ \A q \in Requests :
                reqs'[q] = IF q = r THEN "refused" ELSE reqs[q]
      BY <1>1, <1>2, <1>6 DEF States
    <2>2. Ledger(tasks, reqs) /\ NoReq \notin Requests
      BY FwBankAssumption DEF Ledgered, Good
    <2>3. Ledger(tasks, reqs')
      <3>1. \A j \in DOMAIN tasks : tasks[j].req # r
        BY <1>3, <2>2 DEF Ledger, Serves
      <3>2. Called(reqs) => Called(reqs')
        BY <1>3, <2>1 DEF Called
      <3>3. ASSUME NEW i \in DOMAIN tasks
            PROVE  Serves(tasks[i], reqs')
        <4>1. Serves(tasks[i], reqs)
          BY <2>2 DEF Ledger
        <4> QED BY <2>1, <2>2, <3>1, <3>2, <4>1 DEF Serves
      <3> QED BY <1>3, <2>1, <2>2, <3>1, <3>3 DEF Ledger
    <2> QED BY <1>2, <1>6, <2>1, <2>3 DEF Ledgered, Good, Ids
  <1>7. CASE after # tasks
    <2>1. tasks' = Append(tasks, t)
          /\ reqs' = [reqs EXCEPT ![t.req] = "deferred"]
      BY <1>2, <1>4, <1>5, <1>7
    <2>2. Good(tasks', reqs') /\ DOMAIN tasks \subseteq DOMAIN tasks'
      <3>1. t.kind # "dump" /\ t.req \in Requests /\ reqs[t.req] = "new"
        BY <1>3, <1>4, <1>k
      <3>2. Good(tasks, reqs)
        BY DEF Ledgered
      <3>3. Defers(reqs, reqs', t.req)
        BY <1>1, <2>1, <3>1 DEF Defers, States
      <3> QED BY <1>4, <2>1, <3>1, <3>2, <3>3, GoodFork
    <2> QED BY <2>2 DEF Ledgered, Ids
  <1> QED BY <1>6, <1>7

\* A call of the data model: the task, if any, serves nobody.
LEMMA CallLedger ==
    ASSUME Ledgered, NEW r \in Requests, SetBootFirmwareImage(r)
    PROVE  Ledgered' /\ Ids \subseteq Ids'
  <1> DEFINE t == NewTask(tasks, "set_bootbank", 0, NoReq)
  <1>1. tasks \in Seq(Task) /\ reqs \in [Requests -> States]
        /\ Ledger(tasks, reqs) /\ NoReq \notin Requests
        /\ \A i \in DOMAIN tasks : Sound(tasks[i])
    BY FwBankAssumption DEF Ledgered, Good
  <1>2. /\ reqs[r] = "new" /\ reqs' = [reqs EXCEPT ![r] = "called"]
        /\ tasks' = tasks \/ tasks' = Append(tasks, t)
    BY DEF SetBootFirmwareImage, Calls, TaskFork
  <1>3. t \in Task /\ t.kind = "set_bootbank" /\ t.req = NoReq
        /\ Owned(t) /\ Sound(t)
    <2>1. {j \in DOMAIN tasks : Owned(tasks[j])} \in SUBSET Nat
      BY <1>1
    <2> QED BY <2>1 DEF NewTask, Task, Owned, Sound
  <1> HIDE DEF t
  <1>4. /\ reqs' \in [Requests -> States]
        /\ \A q \in Requests :
              reqs'[q] = IF q = r THEN "called" ELSE reqs[q]
    BY <1>1, <1>2 DEF States
  <1>5. \A j \in DOMAIN tasks : tasks[j].req # r
    BY <1>1, <1>2 DEF Ledger, Serves
  <1>6. Called(reqs')
    BY <1>4 DEF Called
  <1>7. ASSUME NEW i \in DOMAIN tasks
        PROVE  Serves(tasks[i], reqs')
    <2>1. Serves(tasks[i], reqs)
      BY <1>1 DEF Ledger
    <2> QED BY <1>1, <1>4, <1>5, <1>6, <2>1 DEF Serves
  <1>8. Ledger(tasks, reqs')
    BY <1>1, <1>2, <1>4, <1>5, <1>7 DEF Ledger
  <1>9. Good(tasks, reqs')
    BY <1>1, <1>4, <1>8 DEF Good
  <1>10. CASE tasks' = tasks
    BY <1>9, <1>10 DEF Ledgered, Ids
  <1>11. CASE tasks' = Append(tasks, t)
    <2>1. Good(tasks', reqs') /\ DOMAIN tasks \subseteq DOMAIN tasks'
      BY <1>3, <1>6, <1>9, <1>11, GoodFork
    <2> QED BY <2>1 DEF Ledgered, Ids
  <1> QED BY <1>2, <1>10, <1>11

LEMMA GoesLedger ==
    ASSUME Ledgered, Goes, reqs' = reqs
    PROVE  Ledgered' /\ Ids' = Ids
  <1>1. PICK id \in Ids : \E u \in Task :
            /\ tasks' = [tasks EXCEPT ![id] = u]
            /\ Kin(tasks[id], u) /\ Sound(u)
            /\ Owned(u) <=> Owned(tasks[id])
    BY DEF Goes
  <1>2. PICK u \in Task :
            /\ tasks' = [tasks EXCEPT ![id] = u]
            /\ Kin(tasks[id], u) /\ Sound(u)
            /\ Owned(u) <=> Owned(tasks[id])
    BY <1>1
  <1>3. /\ Good([tasks EXCEPT ![id] = u], reqs)
        /\ DOMAIN [tasks EXCEPT ![id] = u] = DOMAIN tasks
    BY <1>2, GoodUpdate DEF Ledgered, Ids
  <1> QED BY <1>2, <1>3 DEF Ledgered, Ids

LEMMA DumpLedger ==
    ASSUME Ledgered, InitGlobalFwbankDump(tasks), reqs' = reqs
    PROVE  Ledgered' /\ Ids \subseteq Ids'
  BY GoodDump DEF Ledgered, Ids

LEMMA CallbackLedger ==
    ASSUME Ledgered, NEW id \in Ids, FinishCallback(id)
    PROVE  Ledgered' /\ Ids \subseteq Ids'
  <1> USE DEF Ledgered
  <1>1. CASE DumpFinish(id) \/ DumpRetry(id)
    <2>1. tasks[id].kind = "dump" /\ tasks' = Closed(id) /\ reqs' = reqs
      BY <1>1 DEF DumpFinish, DumpRetry, EndOfFile
    <2> QED BY <2>1, DumpCloses, TaskCloses DEF Ids
  <1>2. ASSUME NEW answer \in {"answered", "unanswered"}, Complete(id, answer)
        PROVE  /\ Good(Closed(id), reqs')
               /\ DOMAIN Closed(id) = Ids
    BY <1>2, TaskCloses DEF Complete
  <1>3. ASSUME NEW kind, NoAnswer(id, kind) \/ Refusal(id, kind)
        PROVE  Ledgered' /\ Ids \subseteq Ids'
    <2>1. tasks' = Closed(id)
          /\ \E answer \in {"answered", "unanswered"} : Complete(id, answer)
      BY <1>3 DEF NoAnswer, Refusal
    <2> QED BY <1>2, <2>1 DEF Ids
  <1>4. CASE UpgradeFinish(id)
    <2>1. tasks' = Closed(id) /\ Complete(id, "answered")
      BY <1>4 DEF UpgradeFinish
    <2> QED BY <1>2, <2>1 DEF Ids
  <1>5. CASE SetBootbankFinish(id)
    <2>1. InitGlobalFwbankDump(Closed(id)) /\ Complete(id, "answered")
      BY <1>5 DEF SetBootbankFinish
    <2>2. Good(Closed(id), reqs') /\ DOMAIN Closed(id) = Ids
      BY <1>2, <2>1
    <2>3. Good(tasks', reqs') /\ DOMAIN Closed(id) \subseteq DOMAIN tasks'
      BY <2>1, <2>2, GoodDump
    <2> QED BY <2>2, <2>3 DEF Ids
  <1> QED BY <1>1, <1>3, <1>4, <1>5 DEF FinishCallback

\* The other variables.
Listener == [reg : BOOLEAN, timer : BOOLEAN, bank : Banks \cup {0}]
Event == [status : {"Downloading", "Available", "Failed"},
          bank : Banks]

Rest ==
    /\ hw \in Nat \ {0}
    /\ jobs \subseteq [bank : Banks, phase : {"started", "downloading"}]
    /\ dump \in Nat
    /\ retry \in 0..FWBANK_DUMP_MAX_RETRIES
    /\ dumpTimer \in BOOLEAN
    /\ reading \in {0} \cup Ids
    /\ ev \in Listener
    /\ inbox \in Seq(Event)
    /\ up \in BOOLEAN
    /\ failed \in BOOLEAN

FInv == Ledgered /\ Rest

LEMMA LedgerStep ==
    ASSUME FInv, [Next]_vars
    PROVE  Ledgered' /\ Ids \subseteq Ids'
  <1>0. Ledgered /\ hw \in Nat \ {0}
    BY DEF FInv, Rest
  <1> USE <1>0
  <1>1. UNCHANGED <<tasks, reqs>> => Ledgered' /\ Ids \subseteq Ids'
    BY DEF Ledgered, Ids
  <1>2. CASE Client
    <2>1. ASSUME NEW r \in Requests, SetBootbankHandler(r)
          PROVE  Ledgered' /\ Ids \subseteq Ids'
      BY <2>1, HandleLedger DEF SetBootbankHandler
    <2>2. ASSUME NEW r \in Requests, NEW bank \in Named,
                 UpgradeHandler(r, bank)
          PROVE  Ledgered' /\ Ids \subseteq Ids'
      <3>1. bank \in Banks \cup {0}
        BY DEF Named
      <3> QED BY <2>2, <3>1, HandleLedger DEF UpgradeHandler
    <2>3. ASSUME NEW r \in Requests, SetBootFirmwareImage(r)
          PROVE  Ledgered' /\ Ids \subseteq Ids'
      BY <2>3, CallLedger
    <2> QED BY <1>2, <2>1, <2>2, <2>3 DEF Client
  <1>3. CASE InitFwbankDump \/ FwbankDumpTimer \/ ReceiveAvailable
    <2>1. InitGlobalFwbankDump(tasks) /\ reqs' = reqs
      BY <1>3 DEF InitFwbankDump, FwbankDumpTimer, ReceiveAvailable
    <2> QED BY <2>1, DumpLedger
  <1>4. ASSUME NEW id \in Ids, TaskTimeout(id) \/ TaskFinish(id) \/ Script(id)
        PROVE  Ledgered' /\ Ids \subseteq Ids'
    <2>1. Goes
      BY <1>4, TaskGoes DEF Ledgered
    <2>2. reqs' = reqs
      BY <1>4 DEF TaskTimeout, TaskFinish, Script
    <2> QED BY <2>1, <2>2, GoesLedger
  <1>5. ASSUME NEW id \in Ids, FinishCallback(id)
        PROVE  Ledgered' /\ Ids \subseteq Ids'
    BY <1>5, CallbackLedger
  <1>6. CASE IgnoreSysupgrade \/ ReceiveOther \/ FwbankListenTimeout
    BY <1>1, <1>6 DEF IgnoreSysupgrade, ReceiveOther, FwbankListenTimeout
  <1>7. ASSUME NEW j \in jobs, Job(j)
        PROVE  Ledgered' /\ Ids \subseteq Ids'
    BY <1>1, <1>7 DEF Job
  <1>8. CASE UNCHANGED vars
    BY <1>1, <1>8 DEF vars
  <1> QED
    BY <1>2, <1>3, <1>4, <1>5, <1>6, <1>7, <1>8 DEF Next, Daemon

LEMMA RestStep ==
    ASSUME FInv, [Next]_vars
    PROVE  Rest'
  <1>0. Ledgered /\ Rest /\ Ids \subseteq Ids'
    BY LedgerStep DEF FInv
  <1> USE <1>0
  <1>r. reading' \in {0, reading} => reading' \in {0} \cup Ids'
    BY DEF Rest
  <1>f. ASSUME NEW ts, InitGlobalFwbankDump(ts)
        PROVE  failed' \in BOOLEAN
    <2>1. PICK after \in TaskFork(ts, "dump", 0, NoReq) :
             failed' = (failed \/ after = ts)
      BY <1>f DEF InitGlobalFwbankDump
    <2> QED BY <2>1
  <1>v. Unregister => ev' \in Listener /\ inbox' \in Seq(Event)
    <2>1. ASSUME NEW e \in Listener
          PROVE  [e EXCEPT !.reg = FALSE, !.timer = FALSE] \in Listener
      BY <2>1 DEF Listener
    <2>2. ev \in Listener
      BY DEF Rest
    <2>3. <<>> \in Seq(Event)
      OBVIOUS
    <2> QED BY <2>1, <2>2, <2>3 DEF Unregister
  \* Nothing but the tasks, the requests, and what is typed by itself.
  <1>1. CASE /\ UNCHANGED <<banks, cache, listener, up>>
             /\ reading' \in {0, reading} /\ failed' \in BOOLEAN
    BY <1>1, <1>r DEF Rest, banks, cache, listener
  <1>2. CASE Client
    <2>1. PICK r \in Requests : \/ SetBootbankHandler(r)
                                \/ SetBootFirmwareImage(r)
                                \/ \E bank \in Named : UpgradeHandler(r, bank)
      BY <1>2 DEF Client
    <2>2. UNCHANGED <<banks, cache, reading, listener, up, failed>>
      BY <2>1 DEF SetBootbankHandler, UpgradeHandler, Handle,
      SetBootFirmwareImage,
                  SetBootFirmwareImage
    <2> QED BY <1>1, <2>2 DEF Rest
  <1>3. CASE InitFwbankDump
    <2>1. failed' \in BOOLEAN
      BY <1>3, <1>f DEF InitFwbankDump
    <2> QED
      BY <1>3, <1>r, <2>1
      DEF InitFwbankDump, Rest, banks, cache, listener
  <1>4. CASE FwbankDumpTimer
    <2>1. failed' \in BOOLEAN
      BY <1>4, <1>f DEF FwbankDumpTimer
    <2> QED
      BY <1>4, <1>r, <2>1 DEF FwbankDumpTimer, Rest, banks, listener
  <1>5. ASSUME NEW id \in Ids, TaskTimeout(id)
        PROVE  Rest'
    <2>1. failed' \in BOOLEAN
      BY <1>5 DEF TaskTimeout
    <2> QED BY <1>1, <1>5, <2>1 DEF TaskTimeout
  <1>6. ASSUME NEW id \in Ids, TaskFinish(id)
        PROVE  Rest'
    BY <1>6 DEF TaskFinish, Rest, banks, cache, listener
  <1>7. ASSUME NEW id \in Ids, FinishCallback(id)
        PROVE  Rest'
    <2>0. tasks[id].snap \in Nat /\ tasks[id].bank \in Banks \cup {0}
      BY Fields DEF Ledgered, Good, Ids
    <2>1. reading' = 0
      BY <1>7 DEF FinishCallback, DumpFinish, DumpRetry, NoAnswer, Refusal,
                  SetBootbankFinish, UpgradeFinish, EndOfFile
    <2>2. CASE DumpFinish(id)
      BY <2>0, <2>1, <2>2 DEF DumpFinish, Rest, banks, listener
    <2>3. CASE DumpRetry(id)
      <3>1. retry' \in 0..FWBANK_DUMP_MAX_RETRIES /\ dumpTimer' \in BOOLEAN
        <4>1. /\ retry \in 0..FWBANK_DUMP_MAX_RETRIES
              /\ FWBANK_DUMP_MAX_RETRIES \in Nat /\ dumpTimer \in BOOLEAN
          BY FwBankAssumption DEF Rest
        <4>2. CASE retry < FWBANK_DUMP_MAX_RETRIES
          <5>1. retry' = retry + 1 /\ dumpTimer' = TRUE
            BY <2>3, <4>2 DEF DumpRetry
          <5> QED BY <4>1, <4>2, <5>1
        <4>3. CASE ~(retry < FWBANK_DUMP_MAX_RETRIES)
          <5>1. retry' = retry /\ dumpTimer' = dumpTimer
            BY <2>3, <4>3 DEF DumpRetry
          <5> QED BY <4>1, <5>1
        <4> QED BY <4>2, <4>3
      <3>2. failed' = TRUE
        BY <2>3 DEF DumpRetry
      <3> QED BY <2>1, <2>3, <3>1, <3>2 DEF DumpRetry, Rest, banks, listener
    <2>4. ASSUME NEW kind, NoAnswer(id, kind) \/ Refusal(id, kind)
          PROVE  Rest'
      BY <1>1, <2>1, <2>4 DEF NoAnswer, Refusal, Rest
    <2>5. CASE SetBootbankFinish(id)
      <3>1. failed' \in BOOLEAN
        BY <2>5, <1>f DEF SetBootbankFinish
      <3> QED BY <1>1, <2>1, <2>5, <3>1 DEF SetBootbankFinish
    <2>6. CASE UpgradeFinish(id)
      <3>1. ev' \in Listener
        BY <2>0, <2>6 DEF UpgradeFinish, Listener
      <3> QED BY <2>1, <2>6, <3>1 DEF UpgradeFinish, Rest, banks, cache
    <2> QED BY <1>7, <2>2, <2>3, <2>4, <2>5, <2>6 DEF FinishCallback
  <1>8. CASE IgnoreSysupgrade
    <2>1. inbox' \in Seq(Event)
      BY <1>8 DEF IgnoreSysupgrade, Rest
    <2> QED
      BY <1>8, <1>r, <2>1 DEF IgnoreSysupgrade, Rest, banks, cache
  <1>9. CASE ReceiveAvailable
    <2>1. failed' \in BOOLEAN
      BY <1>9, <1>f DEF ReceiveAvailable
    <2>2. Unregister
      BY <1>9 DEF ReceiveAvailable
    <2> QED
      BY <1>9, <1>r, <1>v, <2>1, <2>2
      DEF ReceiveAvailable, Rest, banks, cache
  <1>10. CASE ReceiveOther
    <2>1. Unregister
      BY <1>10 DEF ReceiveOther
    <2> QED
      BY <1>10, <1>r, <1>v, <2>1 DEF ReceiveOther, Rest, banks, cache
  <1>11. CASE FwbankListenTimeout
    <2>1. Unregister /\ failed' \in BOOLEAN
      BY <1>11 DEF FwbankListenTimeout
    <2> QED
      BY <1>11, <1>r, <1>v, <2>1 DEF FwbankListenTimeout, Rest, banks, cache
  <1>12. ASSUME NEW id \in Ids, Script(id)
         PROVE  Rest'
    <2>1. UNCHANGED <<cache, reading, listener, up, failed>>
      BY <1>12 DEF Script
    <2>2. /\ hw' \in Nat \ {0}
          /\ jobs' \subseteq [bank : Banks, phase : {"started", "downloading"}]
      <3>1. CASE ScriptUpgrade(id)
        BY <3>1 DEF ScriptUpgrade, Rest
      <3>2. CASE ~ScriptUpgrade(id)
        BY <1>12, <3>2
        DEF Script, ScriptDump, ScriptSetBootbank, ScriptFails, ScriptEnds,
            ChildExits, banks, Rest
      <3> QED BY <3>1, <3>2
    <2> QED BY <1>r, <2>1, <2>2 DEF Rest, cache, listener
  <1>13. ASSUME NEW j \in jobs, Job(j)
         PROVE  Rest'
    <2>1. j \in [bank : Banks, phase : {"started", "downloading"}]
      BY DEF Rest
    <2>2. /\ j.bank \in Banks
          /\ [j EXCEPT !.phase = "downloading"] \in
                [bank : Banks, phase : {"started", "downloading"}]
      BY <2>1
    <2>3. /\ hw' \in Nat \ {0}
          /\ jobs' \subseteq [bank : Banks, phase : {"started", "downloading"}]
      BY <1>13, <2>2 DEF Job, JobDownloads, JobEnds, Rest
    <2>4. ASSUME NEW status \in {"Downloading", "Available", "Failed"},
                 Emit(status, j.bank)
          PROVE  inbox' \in Seq(Event)
      <3> DEFINE e == [status |-> status, bank |-> j.bank]
      <3>1. e \in Event
        BY <2>2 DEF Event
      <3>2. inbox' = Append(inbox, e) \/ inbox' = inbox
        BY <2>4 DEF Emit
      <3>3. inbox \in Seq(Event)
        BY DEF Rest
      <3> HIDE DEF e
      <3> QED BY <3>1, <3>2, <3>3
    <2>5. \E status \in {"Downloading", "Available", "Failed"} :
             Emit(status, j.bank)
      BY <1>13 DEF Job, JobDownloads, JobEnds
    <2> QED BY <1>13, <1>r, <2>3, <2>4, <2>5 DEF Job, Rest, cache
  <1>14. CASE UNCHANGED vars
    BY <1>14 DEF vars, Rest, banks, cache, listener, Ids
  <1> QED
    BY <1>2, <1>3, <1>4, <1>5, <1>6, <1>7, <1>8, <1>9, <1>10, <1>11, <1>12,
       <1>13, <1>14 DEF Next, Daemon

LEMMA InitInv ==
    ASSUME Init
    PROVE  FInv
  <1>1. tasks = <<>> /\ DOMAIN tasks = {} /\ tasks \in Seq(Task)
    BY DEF Init
  <1>2. reqs \in [Requests -> States]
        /\ \A r \in Requests : reqs[r] # "deferred"
    BY DEF Init, States
  <1>3. Ledgered
    BY <1>1, <1>2 DEF Ledgered, Good, Ledger
  <1>4. Rest
    <2>1. hw \in Nat \ {0} /\ jobs = {} /\ dump \in Nat /\ reading = 0
      BY DEF Init
    <2>2. retry \in 0..FWBANK_DUMP_MAX_RETRIES
      BY FwBankAssumption DEF Init
    <2>3. ev \in Listener
      BY DEF Init, Listener
    <2>4. inbox \in Seq(Event)
      BY DEF Init
    <2>5. dumpTimer \in BOOLEAN /\ up \in BOOLEAN /\ failed \in BOOLEAN
      BY DEF Init
    <2> QED BY <2>1, <2>2, <2>3, <2>4, <2>5 DEF Rest
  <1> QED BY <1>3, <1>4 DEF FInv

LEMMA InvStep ==
    ASSUME FInv, [Next]_vars
    PROVE  FInv'
  BY LedgerStep, RestStep DEF FInv

\* The daemon's globals, its tasks and their environment are well typed for
\* any sequence of requests, answers, timeouts and events; the dump is never
\* retried more often than allowed in the life of the daemon.
THEOREM TypeCorrect == Spec => []TypeOK
  <1>1. FInv => TypeOK
    BY DEF FInv, Ledgered, Good, Rest, TypeOK, States, Listener, Event
  <1> QED BY <1>1, InitInv, InvStep, PTL DEF Spec

\* Each deferred request has exactly one task that will complete it, and a
\* request is completed when its task ends: whatever fails, none is forgotten
\* and none completed twice (fwbank.c:96-98, 190-192).
THEOREM RequestsServed == Spec => []DeferredIsServed
  <1>1. FInv => DeferredIsServed
    <2>1. ASSUME FInv, NEW r \in Requests
          PROVE  /\ reqs[r] = "deferred" => Cardinality(Serving(r)) = 1
                 /\ reqs[r] # "deferred" => Serving(r) = {}
      <3>1. Ledger(tasks, reqs)
        BY <2>1 DEF FInv, Ledgered, Good
      <3>2. ASSUME NEW i \in Serving(r)
            PROVE  Serving(r) = {i}
        BY <3>1 DEF Serving, Ledger, Ids
      <3>3. reqs[r] = "deferred" <=> \E i \in Ids : i \in Serving(r)
        BY <3>1 DEF Serving, Ledger, Ids
      <3>4. \A i : Cardinality({i}) = 1
        BY FS_Singleton
      <3> QED BY <3>2, <3>3, <3>4 DEF Serving
    <2> QED BY <2>1 DEF DeferredIsServed
  <1> QED BY <1>1, InitInv, InvStep, PTL DEF Spec

\* Once there is a dump no failing, invalid or late refresh takes it away
\* (fwbank.c:288-324).
THEOREM DumpNeverLost == Spec => DumpKept
  <1>1. FInv /\ [Next]_vars => [dump # 0 => dump' # 0]_vars
    <2>1. ASSUME FInv, Next, dump' # dump
          PROVE  dump' # 0
      <3>1. PICK id \in Ids : DumpFinish(id)
        BY <2>1
        DEF Next, Client, SetBootbankHandler, UpgradeHandler, Handle,
            SetBootFirmwareImage, Daemon,
            InitFwbankDump, FwbankDumpTimer, TaskTimeout, TaskFinish,
            FinishCallback, DumpRetry, NoAnswer, Refusal, SetBootbankFinish,
            UpgradeFinish, IgnoreSysupgrade, ReceiveAvailable, ReceiveOther,
            FwbankListenTimeout, Script, Job, cache
      <3>2. Sound(tasks[id])
        BY <2>1 DEF FInv, Ledgered, Good, Ids
      <3> QED BY <3>1, <3>2 DEF DumpFinish, EndOfFile, Sound
    <2> QED BY <2>1
  <1> QED BY <1>1, InitInv, InvStep, PTL DEF Spec, DumpKept

\* The registration for "sysupgrade" and the timer of the wait come and go
\* together, on the answer, the event, a mismatch and the timeout alike
\* (fwbank.c:355-362, 411-448).
THEOREM ListenerIsTimed == Spec => []ListenerHasDeadline
  <1>1. Init => ListenerHasDeadline
    BY DEF Init, ListenerHasDeadline
  <1>2. FInv /\ ListenerHasDeadline /\ [Next]_vars => ListenerHasDeadline'
    <2>1. ASSUME FInv, ListenerHasDeadline, [Next]_vars
          PROVE  ListenerHasDeadline'
      <3>1. CASE ev' = ev
        BY <2>1, <3>1 DEF ListenerHasDeadline
      <3>2. CASE Unregister
        <4>1. ASSUME NEW e \in Listener,
                     ev' = [e EXCEPT !.reg = FALSE, !.timer = FALSE]
              PROVE  ev'.reg = FALSE /\ ev'.timer = FALSE
          BY <4>1 DEF Listener
        <4>2. ev'.reg = FALSE /\ ev'.timer = FALSE
          BY <2>1, <3>2, <4>1 DEF FInv, Rest, Unregister
        <4> QED BY <4>2 DEF ListenerHasDeadline
      <3>3. ASSUME NEW id \in Ids, UpgradeFinish(id)
            PROVE  ListenerHasDeadline'
        BY <3>3 DEF UpgradeFinish, ListenerHasDeadline
      <3>4. \/ ev' = ev \/ Unregister
            \/ \E id \in Ids : UpgradeFinish(id)
        BY <2>1
        DEF Next, vars, Client, SetBootbankHandler, UpgradeHandler, Handle,
            SetBootFirmwareImage,
            Daemon, InitFwbankDump, FwbankDumpTimer, TaskTimeout, TaskFinish,
            FinishCallback, DumpFinish, DumpRetry, NoAnswer, Refusal,
            SetBootbankFinish, IgnoreSysupgrade, ReceiveAvailable,
            ReceiveOther, FwbankListenTimeout, Script, Job, listener
      <3> QED BY <3>1, <3>2, <3>3, <3>4
    <2> QED BY <2>1
  <1> QED BY <1>1, <1>2, InitInv, InvStep, PTL DEF Spec


-----------------------------------------------------------------------------
(***************************************************************************)
(* The attempts at a dump                                                  *)
(***************************************************************************)
\* Every task keeps its kind and, but for k, whether it is finished.
Keeps(ts, after, k) ==
    /\ DOMAIN ts \subseteq DOMAIN after
    /\ \A i \in DOMAIN ts :
          /\ after[i].kind = ts[i].kind
          /\ Owned(after[i]) => Owned(ts[i])
          /\ i # k /\ Owned(ts[i]) => Owned(after[i])

LEMMA ForkKeeps ==
    ASSUME NEW ts \in Seq(Task), NEW k, NEW old, Keeps(old, ts, k),
           InitGlobalFwbankDump(ts)
    PROVE  Keeps(old, tasks', k)
  <1>1. tasks' = ts \/ tasks' = Append(ts, NewTask(ts, "dump", 0, NoReq))
    BY DEF InitGlobalFwbankDump, TaskFork
  <1>2. \A t : /\ DOMAIN ts \subseteq DOMAIN Append(ts, t)
               /\ \A i \in DOMAIN ts : Append(ts, t)[i] = ts[i]
    OBVIOUS
  <1>3. /\ DOMAIN ts \subseteq DOMAIN tasks'
        /\ \A i \in DOMAIN ts : tasks'[i] = ts[i]
    BY <1>1, <1>2
  <1> QED BY <1>3 DEF Keeps

LEMMA GoesKeeps ==
    ASSUME Ledgered, Goes
    PROVE  Keeps(tasks, tasks', 0)
  <1>1. PICK id \in Ids, u \in Task :
           /\ tasks' = [tasks EXCEPT ![id] = u]
           /\ Kin(tasks[id], u)
           /\ Owned(u) <=> Owned(tasks[id])
    BY DEF Goes
  <1>2. /\ DOMAIN tasks' = DOMAIN tasks
        /\ \A i \in DOMAIN tasks :
              tasks'[i] = IF i = id THEN u ELSE tasks[i]
    BY <1>1 DEF Ledgered, Good
  <1>3. u.kind = tasks[id].kind
    BY <1>1 DEF Kin
  <1>4. \A i \in DOMAIN tasks :
           /\ tasks'[i].kind = tasks[i].kind
           /\ Owned(tasks'[i]) <=> Owned(tasks[i])
    BY <1>1, <1>2, <1>3
  <1> QED BY <1>2, <1>4 DEF Keeps

LEMMA ClosedKeeps ==
    ASSUME Ledgered, NEW id \in Ids
    PROVE  Keeps(tasks, Closed(id), id) /\ ~Owned(Closed(id)[id])
  <1> DEFINE held == IF tasks[id].script = "over" THEN {}
                     ELSE tasks[id].holds
             u == CloseTask(tasks[id], held)
  <1>1. tasks \in Seq(Task) /\ tasks[id] \in Task
    BY DEF Ledgered, Good, Ids
  <1>2. Closed(id) = [tasks EXCEPT ![id] = u]
    BY <1>1 DEF Closed, CloseTask
  <1>3. u.kind = tasks[id].kind /\ u.proc = "done"
    BY <1>1 DEF CloseTask, Task
  <1> HIDE DEF u
  <1>4. /\ DOMAIN Closed(id) = DOMAIN tasks
        /\ \A i \in DOMAIN tasks :
              Closed(id)[i] = IF i = id THEN u ELSE tasks[i]
    BY <1>1, <1>2
  <1>5. \A i \in DOMAIN tasks :
           /\ Closed(id)[i].kind = tasks[i].kind
           /\ Owned(Closed(id)[i]) => Owned(tasks[i])
           /\ i # id /\ Owned(tasks[i]) => Owned(Closed(id)[i])
    BY <1>3, <1>4 DEF Owned
  <1>6. ~Owned(Closed(id)[id])
    BY <1>3, <1>4 DEF Owned, Ids
  <1> QED BY <1>4, <1>5, <1>6 DEF Keeps

\* A finish callback ends its task.
LEMMA CallbackKeeps ==
    ASSUME Ledgered, NEW id \in Ids, FinishCallback(id)
    PROVE  Keeps(tasks, tasks', id)
  <1>1. Keeps(tasks, Closed(id), id)
    BY ClosedKeeps
  <1>2. CASE tasks' = Closed(id)
    BY <1>1, <1>2
  <1>3. CASE SetBootbankFinish(id)
    <2>1. InitGlobalFwbankDump(Closed(id))
      BY <1>3 DEF SetBootbankFinish
    <2>2. Closed(id) \in Seq(Task)
      BY TaskCloses DEF Ledgered, Good
    <2> QED BY <1>1, <2>1, <2>2, ForkKeeps DEF Ledgered, Good
  <1> QED
    BY <1>2, <1>3
    DEF FinishCallback, DumpFinish, DumpRetry, NoAnswer, Refusal,
        UpgradeFinish

\* So does no other step.
Callback == \E id \in Ids : FinishCallback(id)

LEMMA OthersKeep ==
    ASSUME FInv, [Next]_vars, ~Callback
    PROVE  Keeps(tasks, tasks', 0)
  <1>0. Ledgered /\ hw \in Nat \ {0} /\ tasks \in Seq(Task)
    BY DEF FInv, Rest, Ledgered, Good
  <1>1. Keeps(tasks, tasks, 0)
    BY DEF Keeps
  <1>2. CASE UNCHANGED tasks
    BY <1>1, <1>2
  <1>3. CASE Client
    <2>1. PICK r \in Requests : \/ \E kind, bank : Handle(kind, r, bank)
                                \/ SetBootFirmwareImage(r)
      BY <1>3 DEF Client, SetBootbankHandler, UpgradeHandler
    <2>2. tasks' = tasks \/ \E t : tasks' = Append(tasks, t)
      BY <2>1 DEF Handle, SetBootFirmwareImage, TaskFork
    <2>3. \A t : /\ DOMAIN tasks \subseteq DOMAIN Append(tasks, t)
                 /\ \A i \in DOMAIN tasks : Append(tasks, t)[i] = tasks[i]
      BY <1>0
    <2>4. /\ DOMAIN tasks \subseteq DOMAIN tasks'
          /\ \A i \in DOMAIN tasks : tasks'[i] = tasks[i]
      BY <2>2, <2>3
    <2> QED BY <2>4 DEF Keeps
  <1>4. CASE InitFwbankDump \/ FwbankDumpTimer \/ ReceiveAvailable
    <2>1. InitGlobalFwbankDump(tasks)
      BY <1>4 DEF InitFwbankDump, FwbankDumpTimer, ReceiveAvailable
    <2> QED BY <1>0, <1>1, <2>1, ForkKeeps
  <1>5. ASSUME NEW id \in Ids, TaskTimeout(id) \/ TaskFinish(id) \/ Script(id)
        PROVE  Keeps(tasks, tasks', 0)
    BY <1>0, <1>5, TaskGoes, GoesKeeps DEF Ledgered
  <1>6. CASE IgnoreSysupgrade \/ ReceiveOther \/ FwbankListenTimeout
    BY <1>2, <1>6 DEF IgnoreSysupgrade, ReceiveOther, FwbankListenTimeout
  <1>7. ASSUME NEW j \in jobs, Job(j)
        PROVE  Keeps(tasks, tasks', 0)
    BY <1>2, <1>7 DEF Job
  <1>8. CASE UNCHANGED vars
    BY <1>2, <1>8 DEF vars
  <1> QED
    BY <1>3, <1>4, <1>5, <1>6, <1>7, <1>8 DEF Next, Daemon, Callback

\* The attempts that have ended: each of them that failed was counted, up to
\* the limit, so that they are at least as many as the counter says.
EndedDumps == {id \in DumpTasks : ~Owned(tasks[id])}
Tried == Cardinality(EndedDumps) >= retry

LEMMA FiniteTasks ==
    ASSUME NEW ts \in Seq(Task), NEW D, D \subseteq DOMAIN ts
    PROVE  IsFiniteSet(D) /\ Cardinality(D) \in Nat
  <1>1. DOMAIN ts = 1..Len(ts) /\ Len(ts) \in Nat
    OBVIOUS
  <1>2. IsFiniteSet(DOMAIN ts)
    BY <1>1, FS_Interval
  <1>3. IsFiniteSet(D)
    BY <1>2, FS_Subset
  <1> QED BY <1>3, FS_CardinalityType

LEMMA DumpsKept ==
    ASSUME Ledgered, Ledgered', NEW k, Keeps(tasks, tasks', k)
    PROVE  /\ DumpTasks \subseteq DumpTasks' /\ EndedDumps \subseteq EndedDumps'
           /\ IsFiniteSet(EndedDumps')
           /\ Cardinality(EndedDumps) \in Nat /\ Cardinality(EndedDumps') \in Nat
           /\ Cardinality(DumpTasks) \in Nat /\ Cardinality(DumpTasks') \in Nat
           /\ Cardinality(EndedDumps) <= Cardinality(EndedDumps')
           /\ Cardinality(DumpTasks) <= Cardinality(DumpTasks')
           /\ Cardinality(EndedDumps') <= Cardinality(DumpTasks')
  <1>1. DumpTasks \subseteq DumpTasks' /\ EndedDumps \subseteq EndedDumps'
    BY DEF Keeps, DumpTasks, EndedDumps, Ids
  <1>2. tasks \in Seq(Task) /\ tasks' \in Seq(Task)
    BY DEF Ledgered, Good
  <1>3. /\ DumpTasks \subseteq DOMAIN tasks /\ EndedDumps \subseteq DumpTasks
        /\ DumpTasks' \subseteq DOMAIN tasks' /\ EndedDumps' \subseteq DumpTasks'
    BY DEF DumpTasks, EndedDumps, Ids
  <1>4. /\ IsFiniteSet(EndedDumps') /\ IsFiniteSet(DumpTasks')
        /\ Cardinality(EndedDumps) \in Nat /\ Cardinality(EndedDumps') \in Nat
        /\ Cardinality(DumpTasks) \in Nat /\ Cardinality(DumpTasks') \in Nat
    BY <1>2, <1>3, FiniteTasks
  <1>5. Cardinality(EndedDumps) <= Cardinality(EndedDumps')
    BY <1>1, <1>4, FS_Subset
  <1>6. Cardinality(DumpTasks) <= Cardinality(DumpTasks')
    BY <1>1, <1>4, FS_Subset
  <1>7. Cardinality(EndedDumps') <= Cardinality(DumpTasks')
    BY <1>3, <1>4, FS_Subset
  <1> QED BY <1>1, <1>4, <1>5, <1>6, <1>7

\* The callback in read() belongs to a task whose child has exited and that is
\* not finished.
ReadsExited == reading # 0 => tasks[reading].proc = "exited"

\* Scripts and children do not bring a task back.
LEMMA ScriptKeepsEnd ==
    ASSUME Ledgered, NEW id \in Ids, Script(id)
    PROVE  /\ DOMAIN tasks' = DOMAIN tasks
           /\ \A i \in DOMAIN tasks :
                 tasks'[i].proc = tasks[i].proc \/ tasks[i].proc = "live"
  <1>1. tasks \in Seq(Task) /\ tasks[id] \in Task
    BY DEF Ledgered, Good, Ids
  <1>2. PICK u : tasks' = [tasks EXCEPT ![id] = u]
                    /\ (u.proc = tasks[id].proc \/ tasks[id].proc = "live")
    <2>1. \A r, n : ActTask(tasks[id], r, n).proc = tasks[id].proc
      BY <1>1 DEF Task, ActTask
    <2>2. \A held : EndTask(tasks[id], held).proc = tasks[id].proc
      BY <1>1 DEF Task, EndTask
    <2>3. CASE \E r, n : ScriptResult(id, r, n)
      <3>1. \E r, n : tasks' = [tasks EXCEPT ![id] = ActTask(tasks[id], r, n)]
        BY <2>3 DEF ScriptResult, ActTask
      <3> QED BY <2>1, <3>1
    <2>4. CASE ScriptEnds(id)
      <3>1. \E held : tasks' = [tasks EXCEPT ![id] = EndTask(tasks[id], held)]
        BY <2>4 DEF ScriptEnds, EndTask
      <3> QED BY <2>2, <3>1
    <2>5. CASE ChildExits(id)
      BY <2>5 DEF ChildExits
    <2>6. (\E r, n : ScriptResult(id, r, n)) \/ ScriptEnds(id) \/ ChildExits(id)
      BY DEF Script, ScriptDump, ScriptSetBootbank, ScriptUpgrade, ScriptFails
    <2> QED BY <2>3, <2>4, <2>5, <2>6
  <1>3. /\ DOMAIN tasks' = DOMAIN tasks
        /\ \A i \in DOMAIN tasks :
              tasks'[i] = IF i = id THEN u ELSE tasks[i]
    BY <1>1, <1>2
  <1> QED BY <1>2, <1>3

LEMMA ReadsStep ==
    ASSUME FInv, ReadsExited, [Next]_vars
    PROVE  ReadsExited'
  <1>0. Ledgered /\ tasks \in Seq(Task) /\ reading \in {0} \cup Ids
    BY DEF FInv, Rest, Ledgered, Good
  <1> USE <1>0
  <1>1. CASE reading' = reading /\ tasks' = tasks
    BY <1>1 DEF ReadsExited
  <1>2. CASE reading' = 0
    BY <1>2 DEF ReadsExited
  <1>3. CASE Client \/ FwbankDumpTimer \/ ReceiveAvailable
    <2>1. Loop /\ reading' = reading
      BY <1>3 DEF Client, SetBootbankHandler, UpgradeHandler, Handle,
                  SetBootFirmwareImage, Calls, FwbankDumpTimer, ReceiveAvailable
    <2> QED BY <1>2, <2>1 DEF Loop
  <1>4. CASE InitFwbankDump
    <2>1. reading' = reading /\ InitGlobalFwbankDump(tasks)
      BY <1>4 DEF InitFwbankDump
    <2>2. tasks' = tasks
             \/ tasks' = Append(tasks, NewTask(tasks, "dump", 0, NoReq))
      BY <2>1 DEF InitGlobalFwbankDump, TaskFork
    <2>3. \A t : \A i \in Ids : Append(tasks, t)[i] = tasks[i]
      BY DEF Ids
    <2>4. \A i \in Ids : tasks'[i] = tasks[i]
      BY <2>2, <2>3
    <2> QED BY <2>1, <2>4 DEF ReadsExited
  <1>5. ASSUME NEW id \in Ids, TaskTimeout(id)
        PROVE  ReadsExited'
    BY <1>2, <1>5 DEF TaskTimeout, Loop
  <1>6. ASSUME NEW id \in Ids, TaskFinish(id)
        PROVE  ReadsExited'
    <2>1. tasks'[id].proc = tasks[id].proc
      <3>1. tasks[id] \in Task
        BY DEF Ids
      <3>2. [tasks[id] EXCEPT !.timer = FALSE].proc = tasks[id].proc
        BY <3>1 DEF Task
      <3> QED BY <1>6, <3>2 DEF TaskFinish, Ids
    <2> QED BY <1>6, <2>1 DEF TaskFinish, ReadsExited
  <1>7. ASSUME NEW id \in Ids, FinishCallback(id)
        PROVE  ReadsExited'
    BY <1>2, <1>7
    DEF FinishCallback, DumpFinish, DumpRetry, NoAnswer, Refusal,
        SetBootbankFinish, UpgradeFinish, EndOfFile
  <1>8. CASE IgnoreSysupgrade \/ ReceiveOther \/ FwbankListenTimeout
    BY <1>1, <1>8 DEF IgnoreSysupgrade, ReceiveOther, FwbankListenTimeout
  <1>9. ASSUME NEW id \in Ids, Script(id)
        PROVE  ReadsExited'
    BY <1>9, ScriptKeepsEnd DEF Script, ReadsExited, Ids
  <1>10. ASSUME NEW j \in jobs, Job(j)
         PROVE  ReadsExited'
    BY <1>1, <1>10 DEF Job
  <1>11. CASE UNCHANGED vars
    BY <1>1, <1>11 DEF vars
  <1> QED
    BY <1>3, <1>4, <1>5, <1>6, <1>7, <1>8, <1>9, <1>10, <1>11
    DEF Next, Daemon

\* A failing attempt is one more that has ended.
LEMMA RetryEnds ==
    ASSUME FInv, ReadsExited, Ledgered', NEW id \in Ids, DumpRetry(id)
    PROVE  Cardinality(EndedDumps') >= Cardinality(EndedDumps) + 1
  <1>1. Ledgered /\ tasks' = Closed(id) /\ tasks[id].kind = "dump"
    BY DEF DumpRetry, EndOfFile, FInv
  <1>2. Keeps(tasks, tasks', id) /\ ~Owned(tasks'[id])
    BY <1>1, ClosedKeeps
  <1>3. id \in EndedDumps'
    BY <1>1, <1>2 DEF Keeps, EndedDumps, DumpTasks, Ids
  <1>4. id \notin EndedDumps
    <2>1. reading = id /\ id # 0
      BY DEF DumpRetry, EndOfFile
    <2> QED BY <2>1 DEF ReadsExited, EndedDumps, Owned
  <1>5. /\ EndedDumps \subseteq EndedDumps' /\ IsFiniteSet(EndedDumps')
        /\ Cardinality(EndedDumps) \in Nat /\ Cardinality(EndedDumps') \in Nat
    BY <1>1, <1>2, DumpsKept
  <1>6. EndedDumps # EndedDumps'
    BY <1>3, <1>4
  <1>7. Cardinality(EndedDumps) < Cardinality(EndedDumps')
    BY <1>5, <1>6, FS_Subset
  <1> QED BY <1>5, <1>7

\* There is no dump, and no attempt is missing.
Attempted ==
    up /\ dump = 0 /\ Len(tasks) < MaxForks =>
        \/ dumpTimer
        \/ \E id \in DumpTasks : Owned(tasks[id])
        \/ Cardinality(DumpTasks) > FWBANK_DUMP_MAX_RETRIES

AInv == FInv /\ ReadsExited /\ Tried /\ Attempted

\* Without faults a fork succeeds below the bound of the model.
LEMMA ForkAttempts ==
    ASSUME "fork" \notin Disturbances, NEW ts \in Seq(Task),
           InitGlobalFwbankDump(ts)
    PROVE  Len(tasks') < MaxForks => \E id \in DumpTasks' : Owned(tasks'[id])
  <1> DEFINE t == NewTask(ts, "dump", 0, NoReq)
  <1>1. \/ tasks' = Append(ts, t)
        \/ Len(ts) >= MaxForks /\ tasks' = ts
    BY DEF InitGlobalFwbankDump, TaskFork
  <1>2. t.kind = "dump" /\ Owned(t)
    BY DEF NewTask, Owned
  <1> HIDE DEF t
  <1>3. CASE tasks' = Append(ts, t)
    <2>1. /\ Len(ts) + 1 \in DOMAIN tasks'
          /\ tasks'[Len(ts) + 1] = t
      BY <1>3
    <2> QED BY <1>2, <2>1 DEF DumpTasks, Ids
  <1>4. CASE Len(ts) >= MaxForks /\ tasks' = ts
    BY <1>4, FwBankAssumption
  <1> QED BY <1>1, <1>3, <1>4

LEMMA AttemptStep ==
    ASSUME "fork" \notin Disturbances, AInv, [Next]_vars
    PROVE  AInv'
  <1>0. FInv /\ FInv' /\ Ledgered /\ Ledgered' /\ ReadsExited /\ ReadsExited'
    BY InvStep, ReadsStep DEF AInv, FInv
  <1>1. /\ tasks \in Seq(Task) /\ tasks' \in Seq(Task)
        /\ retry \in 0..FWBANK_DUMP_MAX_RETRIES
        /\ FWBANK_DUMP_MAX_RETRIES \in Nat /\ MaxForks \in Nat
        /\ Tried /\ Attempted
    BY <1>0, FwBankAssumption DEF AInv, FInv, Rest, Ledgered, Good
  <1>2. \E k : /\ Keeps(tasks, tasks', k)
               /\ \/ ~Callback /\ k = 0
                  \/ k \in Ids /\ FinishCallback(k)
    BY <1>0, CallbackKeeps, OthersKeep DEF Callback
  <1>3. PICK k : /\ Keeps(tasks, tasks', k)
                 /\ \/ ~Callback /\ k = 0
                    \/ k \in Ids /\ FinishCallback(k)
    BY <1>2
  <1>4. /\ DumpTasks \subseteq DumpTasks'
        /\ Cardinality(EndedDumps) \in Nat /\ Cardinality(EndedDumps') \in Nat
        /\ Cardinality(DumpTasks) \in Nat /\ Cardinality(DumpTasks') \in Nat
        /\ Cardinality(EndedDumps) <= Cardinality(EndedDumps')
        /\ Cardinality(DumpTasks) <= Cardinality(DumpTasks')
        /\ Cardinality(EndedDumps') <= Cardinality(DumpTasks')
    BY <1>0, <1>3, DumpsKept
  <1>5. Len(tasks) <= Len(tasks')
    <2>1. DOMAIN tasks = 1..Len(tasks) /\ DOMAIN tasks' = 1..Len(tasks')
          /\ Len(tasks) \in Nat /\ Len(tasks') \in Nat
      BY <1>1
    <2>2. 1..Len(tasks) \subseteq 1..Len(tasks')
      BY <1>3, <2>1 DEF Keeps
    <2> QED BY <2>1, <2>2
  \* The retry is counted when the attempt has ended, and scheduled.
  <1>6. CASE \E id \in Ids : DumpRetry(id)
    <2>1. PICK id \in Ids : DumpRetry(id)
      BY <1>6
    <2>2. Cardinality(EndedDumps') >= Cardinality(EndedDumps) + 1
      BY <1>0, <2>1, RetryEnds
    <2>3. CASE retry < FWBANK_DUMP_MAX_RETRIES
      <3>1. retry' = retry + 1 /\ dumpTimer' = TRUE
        BY <2>1, <2>3 DEF DumpRetry
      <3> QED BY <1>0, <1>1, <1>4, <2>2, <3>1 DEF AInv, Tried, Attempted
    <2>4. CASE ~(retry < FWBANK_DUMP_MAX_RETRIES)
      <3>1. retry' = retry /\ retry = FWBANK_DUMP_MAX_RETRIES
        BY <1>1, <2>1, <2>4 DEF DumpRetry
      <3>2. Cardinality(DumpTasks') > FWBANK_DUMP_MAX_RETRIES
        BY <1>1, <1>4, <2>2, <3>1 DEF Tried
      <3> QED
        BY <1>0, <1>1, <1>4, <2>2, <3>1, <3>2 DEF AInv, Tried, Attempted
    <2> QED BY <2>3, <2>4
  <1>7. CASE ~(\E id \in Ids : DumpRetry(id))
    <2>1. retry' = retry
      BY <1>7
      DEF Next, vars, Client, SetBootbankHandler, UpgradeHandler, Handle,
          SetBootFirmwareImage,
          Daemon, InitFwbankDump, FwbankDumpTimer, TaskTimeout, TaskFinish,
          FinishCallback, DumpFinish, NoAnswer, Refusal, SetBootbankFinish,
          UpgradeFinish, IgnoreSysupgrade, ReceiveAvailable, ReceiveOther,
          FwbankListenTimeout, Script, Job, cache
    <2>2. Tried'
      BY <1>1, <1>4, <2>1 DEF Tried
    <2>3. Attempted'
      <3> SUFFICES ASSUME up', dump' = 0, Len(tasks') < MaxForks
                   PROVE  \/ dumpTimer'
                          \/ \E id \in DumpTasks' : Owned(tasks'[id])
                          \/ Cardinality(DumpTasks') > FWBANK_DUMP_MAX_RETRIES
        BY DEF Attempted
      <3>1. CASE InitFwbankDump \/ FwbankDumpTimer
        BY <1>1, <3>1, ForkAttempts DEF InitFwbankDump, FwbankDumpTimer
      <3>2. CASE ~(InitFwbankDump \/ FwbankDumpTimer)
        <4>1. up /\ dumpTimer' = dumpTimer
          BY <1>7, <3>2
          DEF Next, vars, Client, SetBootbankHandler, UpgradeHandler, Handle,
              SetBootFirmwareImage,
              Daemon, TaskTimeout, TaskFinish, FinishCallback, DumpFinish,
              NoAnswer, Refusal, SetBootbankFinish, UpgradeFinish,
              IgnoreSysupgrade, ReceiveAvailable, ReceiveOther,
              FwbankListenTimeout, Script, Job, cache
        <4>2. ASSUME NEW id \in Ids, DumpFinish(id)
              PROVE  FALSE
          <5>1. Sound(tasks[id])
            BY <1>0 DEF Ledgered, Good, Ids
          <5> QED BY <4>2, <5>1 DEF DumpFinish, EndOfFile, Sound
        <4>3. dump = 0
          BY <1>7, <3>2, <4>2
          DEF Next, vars, Client, SetBootbankHandler, UpgradeHandler, Handle,
              SetBootFirmwareImage,
              Daemon, TaskTimeout, TaskFinish, FinishCallback,
              NoAnswer, Refusal, SetBootbankFinish, UpgradeFinish,
              IgnoreSysupgrade, ReceiveAvailable, ReceiveOther,
              FwbankListenTimeout, Script, Job, cache
        <4>4. \/ dumpTimer
              \/ \E id \in DumpTasks : Owned(tasks[id])
              \/ Cardinality(DumpTasks) > FWBANK_DUMP_MAX_RETRIES
          BY <1>1, <1>5, <4>1, <4>3 DEF Attempted
        <4>5. ASSUME NEW id \in DumpTasks, Owned(tasks[id])
              PROVE  id \in DumpTasks' /\ Owned(tasks'[id])
          <5>1. id # k
            <6>1. CASE k = 0
              BY <1>1, <6>1 DEF DumpTasks, Ids
            <6>2. CASE k \in Ids /\ FinishCallback(k)
              <7>1. tasks[k].kind # "dump"
                BY <1>7, <4>2, <6>2
                DEF FinishCallback, NoAnswer, Refusal, SetBootbankFinish,
                    UpgradeFinish, EndOfFile
              <7> QED BY <7>1 DEF DumpTasks
            <6> QED BY <1>3, <6>1, <6>2
          <5> QED BY <1>3, <1>4, <4>5, <5>1 DEF Keeps, DumpTasks, Ids
        <4> QED BY <1>1, <1>4, <4>1, <4>4, <4>5
      <3> QED BY <3>1, <3>2
    <2> QED BY <1>0, <2>2, <2>3 DEF AInv
  <1> QED BY <1>6, <1>7

\* The daemon gives up on the dump only after the first attempt and all the
\* retries have failed, however attempts overlap and whatever refreshes
\* requests and upgrades cause in between (fwbank.c:326-334).
THEOREM AttemptsUsedUp == Spec => []DumpAttempted
  <1>1. CASE "fork" \in Disturbances
    <2>1. DumpAttempted
      BY <1>1 DEF DumpAttempted
    <2>2. []("fork" \in Disturbances)
      BY <1>1, PTL
    <2>3. "fork" \in Disturbances => DumpAttempted
      BY DEF DumpAttempted
    <2> QED BY <2>2, <2>3, PTL
  <1>2. CASE "fork" \notin Disturbances
    <2>1. Init => AInv
      <3> SUFFICES ASSUME Init PROVE AInv
        OBVIOUS
      <3>1. FInv
        BY InitInv
      <3>2. EndedDumps = {} /\ retry = 0 /\ reading = 0 /\ ~up
        BY DEF Init, EndedDumps, DumpTasks, Ids
      <3>3. Tried
        BY <3>2, FS_EmptySet DEF Tried
      <3> QED BY <3>1, <3>2, <3>3 DEF AInv, ReadsExited, Attempted
    <2>2. AInv /\ [Next]_vars => AInv'
      BY <1>2, AttemptStep
    <2>3. AInv => DumpAttempted
      BY DEF AInv, Attempted, DumpAttempted
    <2> QED BY <2>1, <2>2, <2>3, PTL DEF Spec
  <1> QED BY <1>1, <1>2

-----------------------------------------------------------------------------
(***************************************************************************)
(* The service the daemon implements                                       *)
(***************************************************************************)
\* A request whose script is still to run has not been answered, no dump is
\* ahead of the banks, and an upgrade that goes on was requested.
NotYet ==
    \A i \in Ids : tasks[i].script = "todo" /\ tasks[i].req \in Requests
                   => reqs[tasks[i].req] # "answered"
Snaps == \A i \in Ids : tasks[i].snap <= hw
Begun == jobs # {} => Ran # {}

ServiceInv == FInv /\ ReadsExited /\ NotYet /\ Snaps /\ Begun

\* A step of the service, or one it does not see.
ServiceStep == Service!Next \/ UNCHANGED <<reqs, Ran, hw, dump>>

\* No script runs from ts to us; a task that is new has not begun.
Alike(ts, us) ==
    /\ DOMAIN ts \subseteq DOMAIN us
    /\ \A i \in DOMAIN ts :
          /\ us[i].req = ts[i].req /\ us[i].snap = ts[i].snap
          /\ us[i].script = "todo" <=> ts[i].script = "todo"
    /\ \A i \in DOMAIN us \ DOMAIN ts :
          us[i].script = "todo" /\ us[i].snap = 0

LEMMA OneAlike ==
    ASSUME NEW ts \in Seq(Task), NEW id \in DOMAIN ts, NEW u,
           u.req = ts[id].req, u.snap = ts[id].snap,
           u.script = "todo" <=> ts[id].script = "todo"
    PROVE  Alike(ts, [ts EXCEPT ![id] = u])
  <1> DEFINE us == [ts EXCEPT ![id] = u]
  <1>1. DOMAIN us = DOMAIN ts
    OBVIOUS
  <1>2. \A i \in DOMAIN ts : us[i] = IF i = id THEN u ELSE ts[i]
    OBVIOUS
  <1> HIDE DEF us
  <1>3. Alike(ts, us)
    BY <1>1, <1>2 DEF Alike
  <1> QED BY <1>3 DEF us

LEMMA ForkAlike ==
    ASSUME NEW old, NEW ts \in Seq(Task), Alike(old, ts), NEW t,
           t.script = "todo", t.snap = 0
    PROVE  Alike(old, Append(ts, t))
  <1> DEFINE us == Append(ts, t)
  <1>1. /\ DOMAIN us = DOMAIN ts \cup {Len(ts) + 1}
        /\ Len(ts) + 1 \notin DOMAIN ts
        /\ us[Len(ts) + 1] = t
        /\ \A i \in DOMAIN ts : us[i] = ts[i]
    OBVIOUS
  <1> HIDE DEF us
  <1>2. Alike(old, us)
    BY <1>1 DEF Alike
  <1> QED BY <1>2 DEF us

LEMMA DumpAlike ==
    ASSUME NEW old, NEW ts \in Seq(Task), Alike(old, ts),
           InitGlobalFwbankDump(ts)
    PROVE  Alike(old, tasks')
  <1> DEFINE t == NewTask(ts, "dump", 0, NoReq)
  <1>1. tasks' = ts \/ tasks' = Append(ts, t)
    BY DEF InitGlobalFwbankDump, TaskFork
  <1>2. t.script = "todo" /\ t.snap = 0
    BY DEF NewTask
  <1> HIDE DEF t
  <1> QED BY <1>1, <1>2, ForkAlike

LEMMA ClosedAlike ==
    ASSUME Ledgered, NEW id \in Ids
    PROVE  Alike(tasks, Closed(id))
  <1> DEFINE held == IF tasks[id].script = "over" THEN {}
                     ELSE tasks[id].holds
             u == CloseTask(tasks[id], held)
  <1>1. tasks \in Seq(Task) /\ tasks[id] \in Task /\ id \in DOMAIN tasks
    BY DEF Ledgered, Good, Ids
  <1>2. Closed(id) = [tasks EXCEPT ![id] = u]
    BY <1>1 DEF Closed, CloseTask
  <1>3. /\ u.req = tasks[id].req /\ u.snap = tasks[id].snap
        /\ u.script = tasks[id].script
    BY <1>1 DEF CloseTask, Task
  <1> HIDE DEF u
  <1> QED BY <1>1, <1>2, <1>3, OneAlike

LEMMA NothingChanged == Alike(tasks, tasks)
  BY DEF Alike

\* When no script runs, the service sees only the requests, the dump and what
\* an upgrade installs.
LEMMA AlikeStep ==
    ASSUME FInv, FInv', Alike(tasks, tasks'), Snaps, Begun,
           hw' \in {hw, hw + 1}, jobs' # {} => jobs # {}
    PROVE  Ran' = Ran /\ Snaps' /\ Begun'
  <1>1. Ran' = Ran
    BY DEF Alike, Ran, Ids
  <1>2. Begun'
    BY <1>1 DEF Begun
  <1>3. Snaps'
    <2>1. hw \in Nat /\ hw' \in Nat /\ hw <= hw'
      BY DEF FInv, Rest
    <2>2. ASSUME NEW i \in Ids'
          PROVE  tasks'[i].snap <= hw'
      <3>1. CASE i \in Ids
        <4>1. tasks'[i].snap = tasks[i].snap
          BY <3>1 DEF Alike, Ids
        <4>2. tasks[i].snap <= hw
          BY <3>1 DEF Snaps
        <4>3. tasks[i].snap \in Nat
          BY <3>1, Fields DEF FInv, Ledgered, Good, Ids
        <4> QED BY <2>1, <4>1, <4>2, <4>3
      <3>2. CASE i \notin Ids
        <4>1. tasks'[i].snap = 0
          BY <3>2 DEF Alike, Ids
        <4> QED BY <2>1, <4>1
      <3> QED BY <3>1, <3>2
    <2> QED BY <2>2 DEF Snaps
  <1> QED BY <1>1, <1>2, <1>3

\* If no request is answered either, those still to run stay unanswered.
LEMMA AlikeNotYet ==
    ASSUME FInv, FInv', Alike(tasks, tasks'), NotYet,
           \A r \in Requests : reqs'[r] = "answered" => reqs[r] = "answered",
           \A i \in Ids' \ Ids : tasks'[i].req \in Requests =>
                                    reqs'[tasks'[i].req] # "answered"
    PROVE  NotYet'
  <1> SUFFICES ASSUME NEW i \in Ids', tasks'[i].script = "todo",
                      tasks'[i].req \in Requests
               PROVE  reqs'[tasks'[i].req] # "answered"
    BY DEF NotYet
  <1>1. CASE i \in Ids
    <2>1. tasks[i].script = "todo" /\ tasks[i].req = tasks'[i].req
      BY <1>1 DEF Alike, Ids
    <2> QED BY <1>1, <2>1 DEF NotYet
  <1> QED BY <1>1

\* The refresh of the dump forks for nobody.
LEMMA DumpForNobody ==
    ASSUME NEW ts, ts \in Seq(Task), InitGlobalFwbankDump(ts),
           NEW i \in DOMAIN tasks' \ DOMAIN ts
    PROVE  tasks'[i].req \notin Requests
  <1> DEFINE t == NewTask(ts, "dump", 0, NoReq)
  <1>1. tasks' = ts \/ tasks' = Append(ts, t)
    BY DEF InitGlobalFwbankDump, TaskFork
  <1>2. t.req = NoReq /\ NoReq \notin Requests
    BY FwBankAssumption DEF NewTask
  <1> HIDE DEF t
  <1>3. tasks' = Append(ts, t) /\ i = Len(ts) + 1
    BY <1>1
  <1> QED BY <1>2, <1>3

\* What no request sees.
LEMMA HiddenStep ==
    ASSUME ServiceInv, FInv', Alike(tasks, tasks'), reqs' = reqs,
           dump' = dump, hw' = hw, jobs' # {} => jobs # {},
           \A i \in Ids' \ Ids : tasks'[i].req \notin Requests
    PROVE  NotYet' /\ Snaps' /\ Begun' /\ ServiceStep
  <1>1. Ran' = Ran /\ Snaps' /\ Begun'
    BY AlikeStep DEF ServiceInv
  <1>2. NotYet'
    BY AlikeNotYet DEF ServiceInv
  <1> QED BY <1>1, <1>2 DEF ServiceStep

LEMMA HandleService ==
    ASSUME ServiceInv, FInv', NEW r \in Requests, NEW kind, NEW bank,
           Handle(kind, r, bank)
    PROVE  NotYet' /\ Snaps' /\ Begun' /\ ServiceStep
  <1> DEFINE t == NewTask(tasks, kind, bank, r)
  <1>0. tasks \in Seq(Task) /\ reqs \in [Requests -> States]
    BY DEF ServiceInv, FInv, Ledgered, Good
  <1>1. PICK after \in TaskFork(tasks, kind, bank, r) :
           /\ tasks' = after
           /\ reqs' = [reqs EXCEPT ![r] = IF after = tasks THEN "refused"
                                          ELSE "deferred"]
    BY DEF Handle
  <1>2. tasks' = tasks \/ tasks' = Append(tasks, t)
    BY <1>1 DEF TaskFork
  <1>3. t.script = "todo" /\ t.snap = 0 /\ t.req = r
    BY DEF NewTask
  <1> HIDE DEF t
  <1>4. Alike(tasks, tasks')
    BY <1>0, <1>2, <1>3, ForkAlike, NothingChanged
  <1>5. UNCHANGED <<hw, jobs, dump>>
    BY DEF Handle, banks, cache
  <1>6. Ran' = Ran /\ Snaps' /\ Begun'
    BY <1>4, <1>5, AlikeStep DEF ServiceInv
  <1>7. \/ reqs' = [reqs EXCEPT ![r] = "refused"]
        \/ reqs' = [reqs EXCEPT ![r] = "deferred"]
    BY <1>1
  <1>8. \A q \in Requests : reqs'[q] = "answered" =>
                               reqs[q] = "answered" /\ q # r
    BY <1>0, <1>7
  <1>9. \A i \in Ids' \ Ids : tasks'[i].req = r
    BY <1>0, <1>2, <1>3 DEF Ids
  <1>10. NotYet'
    BY <1>4, <1>8, <1>9, AlikeNotYet DEF ServiceInv
  <1>11. Service!Accept(r)
    BY <1>5, <1>6, <1>7 DEF Service!Accept, Handle, Calls
  <1> QED BY <1>6, <1>10, <1>11 DEF ServiceStep, Service!Next

LEMMA CallService ==
    ASSUME ServiceInv, FInv', NEW r \in Requests, SetBootFirmwareImage(r)
    PROVE  NotYet' /\ Snaps' /\ Begun' /\ ServiceStep
  <1> DEFINE t == NewTask(tasks, "set_bootbank", 0, NoReq)
  <1>0. /\ tasks \in Seq(Task) /\ reqs \in [Requests -> States]
        /\ NoReq \notin Requests
    BY FwBankAssumption DEF ServiceInv, FInv, Ledgered, Good
  <1>1. /\ reqs[r] = "new" /\ reqs' = [reqs EXCEPT ![r] = "called"]
        /\ tasks' = tasks \/ tasks' = Append(tasks, t)
        /\ UNCHANGED <<hw, jobs, dump>>
    BY DEF SetBootFirmwareImage, Calls, TaskFork, banks, cache
  <1>2. t.script = "todo" /\ t.snap = 0 /\ t.req = NoReq
    BY DEF NewTask
  <1> HIDE DEF t
  <1>3. Alike(tasks, tasks')
    BY <1>0, <1>1, <1>2, ForkAlike, NothingChanged
  <1>4. Ran' = Ran /\ Snaps' /\ Begun'
    BY <1>1, <1>3, AlikeStep DEF ServiceInv
  <1>5. \A q \in Requests : reqs'[q] = "answered" => reqs[q] = "answered"
    BY <1>0, <1>1
  <1>6. \A i \in Ids' \ Ids : tasks'[i].req \notin Requests
    BY <1>0, <1>1, <1>2 DEF Ids
  <1>7. NotYet'
    BY <1>3, <1>5, <1>6, AlikeNotYet DEF ServiceInv
  <1>8. Service!Accept(r)
    BY <1>1, <1>4 DEF Service!Accept
  <1> QED BY <1>4, <1>7, <1>8 DEF ServiceStep, Service!Next

\* A script runs: at most once for its request, which was deferred and is so
\* still, or was given up.
LEMMA ActsService ==
    ASSUME ServiceInv, FInv', NEW id \in Ids, tasks[id].script = "todo",
           NEW result, NEW n, ScriptResult(id, result, n),
           n \in Nat, n <= hw, reqs' = reqs, dump' = dump,
           tasks[id].kind = "dump" => hw' = hw,
           tasks[id].kind # "upgrade" => jobs' = jobs,
           hw' \in {hw, hw + 1}
    PROVE  NotYet' /\ Snaps' /\ Begun' /\ ServiceStep
  <1> DEFINE t == tasks[id]
             q == t.req
             got == IF t.proc = "live" THEN result ELSE t.result
             u == ActTask(t, got, n)
  <1>0. /\ tasks \in Seq(Task) /\ t \in Task /\ id \in DOMAIN tasks
        /\ Ledger(tasks, reqs) /\ hw \in Nat /\ reqs \in [Requests -> States]
        /\ NoReq \notin Requests
    BY FwBankAssumption DEF ServiceInv, FInv, Rest, Ledgered, Good, Ids
  <1>1. tasks' = [tasks EXCEPT ![id] = u]
    BY DEF ScriptResult, ActTask
  <1>2. u.req = q /\ u.script = "acted" /\ u.snap = n
    BY <1>0 DEF Task, ActTask
  <1> HIDE DEF u
  <1>3. /\ DOMAIN tasks' = DOMAIN tasks
        /\ \A i \in DOMAIN tasks : tasks'[i] = IF i = id THEN u ELSE tasks[i]
    BY <1>0, <1>1
  <1>4. NotYet'
    BY <1>2, <1>3 DEF ServiceInv, NotYet, Ids
  <1>5. Snaps'
    <2>1. hw \in Nat /\ hw' \in Nat /\ hw <= hw'
      BY <1>0
    <2>2. ASSUME NEW i \in Ids'
          PROVE  tasks'[i].snap <= hw'
      <3>1. CASE i = id
        <4>1. tasks'[i].snap = n
          BY <1>2, <1>3, <3>1 DEF Ids
        <4> QED BY <2>1, <4>1
      <3>2. CASE i # id
        <4>1. i \in Ids /\ tasks'[i] = tasks[i]
          BY <1>3, <3>2 DEF Ids
        <4>2. tasks[i].snap <= hw
          BY <4>1 DEF ServiceInv, Snaps
        <4>3. tasks[i].snap \in Nat
          BY <1>0, <4>1, Fields DEF Ids
        <4> QED BY <2>1, <4>1, <4>2, <4>3
      <3> QED BY <3>1, <3>2
    <2> QED BY <2>2 DEF Snaps
  <1>s. Serves(t, reqs)
    BY <1>0 DEF Ledger
  <1>6. CASE q = NoReq
    <2>1. t.kind # "upgrade" /\ (hw' = hw \/ Called(reqs))
      BY <1>0, <1>6, <1>s DEF Serves
    <2>2. Ran' = Ran
      BY <1>0, <1>2, <1>3, <1>6 DEF Ran, Ids
    <2>3. Begun'
      BY <2>1, <2>2 DEF ServiceInv, Begun
    <2>4. CASE hw' = hw
      BY <1>4, <1>5, <2>2, <2>3, <2>4 DEF ServiceStep
    <2>5. CASE hw' = hw + 1 /\ Called(reqs)
      <3>1. Service!Install
        BY <2>2, <2>5 DEF Service!Install, Called
      <3> QED BY <1>4, <1>5, <2>3, <3>1 DEF ServiceStep, Service!Next
    <2> QED BY <2>1, <2>4, <2>5
  <1>7. CASE q # NoReq
    <2>1. q \in Requests /\ reqs[q] \notin {"new", "refused", "called"}
      BY <1>s, <1>7 DEF Serves
    <2>2. reqs[q] \in {"deferred", "unanswered"}
      <3>1. reqs[q] # "answered"
        BY <2>1 DEF ServiceInv, NotYet
      <3>2. reqs[q] \in States
        BY <1>0, <2>1
      <3> QED BY <2>1, <3>1, <3>2 DEF States
    <2>3. q \notin Ran
      BY <1>0, <2>1 DEF Ran, Ids, Ledger
    <2>4. Ran' = Ran \cup {q}
      BY <1>0, <1>2, <1>3, <2>1 DEF Ran, Ids
    <2>5. Begun'
      BY <2>4 DEF Begun
    <2>6. Service!Run(q)
      BY <2>2, <2>3, <2>4 DEF Service!Run
    <2> QED BY <1>4, <1>5, <2>1, <2>5, <2>6 DEF ServiceStep, Service!Next
  <1> QED BY <1>6, <1>7

LEMMA ScriptService ==
    ASSUME ServiceInv, FInv', NEW id \in Ids, Script(id)
    PROVE  NotYet' /\ Snaps' /\ Begun' /\ ServiceStep
  <1>0. /\ tasks \in Seq(Task) /\ tasks[id] \in Task /\ id \in DOMAIN tasks
        /\ hw \in Nat
    BY DEF ServiceInv, FInv, Rest, Ledgered, Good, Ids
  <1>1. reqs' = reqs /\ dump' = dump
    BY DEF Script, cache
  <1>2. CASE ScriptDump(id)
    <2>1. hw' = hw /\ jobs' = jobs
      BY <1>2 DEF ScriptDump, banks
    <2> QED BY <1>0, <1>1, <1>2, <2>1, ActsService DEF ScriptDump
  <1>3. CASE ScriptSetBootbank(id)
    <2>1. ScriptResult(id, "ok", 0) /\ hw' = hw + 1 /\ jobs' = jobs
          /\ tasks[id].script = "todo" /\ tasks[id].kind = "set_bootbank"
      BY <1>3 DEF ScriptSetBootbank
    <2> QED BY <1>0, <1>1, <2>1, ActsService
  <1>4. CASE ScriptUpgrade(id)
    <2>1. ScriptResult(id, "ok", 0) /\ hw' = hw
          /\ tasks[id].script = "todo" /\ tasks[id].kind = "upgrade"
      BY <1>4 DEF ScriptUpgrade
    <2> QED BY <1>0, <1>1, <2>1, ActsService
  <1>5. CASE ScriptFails(id)
    <2>1. PICK result \in {"no", "bad"} : ScriptResult(id, result, 0)
      BY <1>5 DEF ScriptFails
    <2>2. tasks[id].script = "todo" /\ hw' = hw /\ jobs' = jobs
      BY <1>5 DEF ScriptFails, banks
    <2> QED BY <1>0, <1>1, <2>1, <2>2, ActsService
  <1>6. CASE ScriptEnds(id) \/ ChildExits(id)
    <2> DEFINE t == tasks[id]
               held == IF t.proc = "done" THEN {} ELSE t.holds
    <2>1. PICK u : /\ tasks' = [tasks EXCEPT ![id] = u]
                   /\ u.req = t.req /\ u.snap = t.snap
                   /\ u.script = "todo" <=> t.script = "todo"
      <3>1. CASE ScriptEnds(id)
        <4>1. tasks' = [tasks EXCEPT ![id] = EndTask(t, held)]
          BY <3>1 DEF ScriptEnds, EndTask
        <4>2. /\ EndTask(t, held).req = t.req /\ EndTask(t, held).snap = t.snap
              /\ EndTask(t, held).script = "over" /\ t.script = "acted"
          BY <1>0, <3>1 DEF Task, EndTask, ScriptEnds
        <4> QED BY <4>1, <4>2
      <3>2. CASE ChildExits(id)
        <4>1. tasks' = [tasks EXCEPT ![id] = [t EXCEPT !.proc = "exited"]]
          BY <3>2 DEF ChildExits
        <4>2. LET u == [t EXCEPT !.proc = "exited"]
              IN  u.req = t.req /\ u.snap = t.snap /\ u.script = t.script
          BY <1>0, Exits DEF Kin
        <4> QED BY <4>1, <4>2
      <3> QED BY <1>6, <3>1, <3>2
    <2>2. Alike(tasks, tasks')
      BY <1>0, <2>1, OneAlike
    <2>3. hw' = hw /\ jobs' = jobs /\ Ids' = Ids
      BY <1>0, <1>6, <2>1 DEF ScriptEnds, ChildExits, banks, Ids
    <2> QED BY <1>1, <2>2, <2>3, HiddenStep
  <1> QED BY <1>2, <1>3, <1>4, <1>5, <1>6 DEF Script

\* The event loop notices the time and the end of a child.
LEMMA NoticeService ==
    ASSUME ServiceInv, FInv', NEW id \in Ids, TaskTimeout(id) \/ TaskFinish(id)
    PROVE  NotYet' /\ Snaps' /\ Begun' /\ ServiceStep
  <1> DEFINE t == tasks[id]
  <1>0. tasks \in Seq(Task) /\ t \in Task /\ id \in DOMAIN tasks
    BY DEF ServiceInv, FInv, Ledgered, Good, Ids
  <1>1. UNCHANGED <<reqs, dump, hw, jobs>>
    BY DEF TaskTimeout, TaskFinish, banks, cache
  <1>2. \A u : u = [t EXCEPT !.timer = FALSE]
                  => u.req = t.req /\ u.snap = t.snap /\ u.script = t.script
    BY <1>0 DEF Task
  <1>3. \A u : u = [t EXCEPT !.timer = FALSE, !.proc = "exited",
                             !.result = "none"]
                  => u.req = t.req /\ u.snap = t.snap /\ u.script = t.script
    BY <1>0 DEF Task
  <1>4. \E u : /\ tasks' = [tasks EXCEPT ![id] = u]
               /\ \/ u = [t EXCEPT !.timer = FALSE]
                  \/ u = [t EXCEPT !.timer = FALSE, !.proc = "exited",
                                   !.result = "none"]
    <2>1. CASE TaskFinish(id)
      BY <2>1 DEF TaskFinish
    <2>2. CASE TaskTimeout(id) /\ t.proc = "live"
      BY <2>2 DEF TaskTimeout
    <2>3. CASE TaskTimeout(id) /\ t.proc # "live"
      BY <2>3 DEF TaskTimeout
    <2> QED BY <2>1, <2>2, <2>3
  <1>5. PICK u : /\ tasks' = [tasks EXCEPT ![id] = u]
                 /\ u.req = t.req /\ u.snap = t.snap /\ u.script = t.script
    BY <1>2, <1>3, <1>4
  <1>6. Alike(tasks, tasks')
    BY <1>0, <1>5, OneAlike
  <1>7. Ids' = Ids
    BY <1>0, <1>5 DEF Ids
  <1> QED BY <1>1, <1>6, <1>7, HiddenStep

\* A request ends with its task: answered, if its script has run.
LEMMA CompleteService ==
    ASSUME ServiceInv, FInv', NEW id \in Ids, reading = id, id # 0,
           tasks[id].kind # "dump", Alike(tasks, tasks'),
           NEW answer \in {"answered", "unanswered"}, Complete(id, answer),
           answer = "answered" => tasks[id].result # "none",
           UNCHANGED <<hw, jobs, dump>>,
           \A i \in Ids' \ Ids : tasks'[i].req \notin Requests
    PROVE  NotYet' /\ Snaps' /\ Begun' /\ ServiceStep
  <1> DEFINE t == tasks[id]
             q == t.req
  <1>0. /\ tasks \in Seq(Task) /\ t \in Task /\ id \in DOMAIN tasks
        /\ Ledger(tasks, reqs) /\ reqs \in [Requests -> States]
        /\ Sound(t) /\ NoReq \notin Requests
    BY FwBankAssumption DEF ServiceInv, FInv, Ledgered, Good, Ids
  <1>1. Ran' = Ran /\ Snaps' /\ Begun'
    BY AlikeStep DEF ServiceInv
  <1>n. ASSUME q = NoReq
        PROVE  NotYet' /\ Snaps' /\ Begun' /\ ServiceStep
    <2>1. reqs' = reqs
      BY <1>n DEF Complete
    <2> QED BY <2>1, HiddenStep
  <1> SUFFICES ASSUME q # NoReq
               PROVE  NotYet' /\ Snaps' /\ Begun' /\ ServiceStep
    BY <1>n
  <1>2. q \in Requests /\ q # NoReq
    <2>1. Serves(t, reqs)
      BY <1>0 DEF Ledger
    <2> QED BY <2>1 DEF Serves
  <1>3. t.proc = "exited"
    BY DEF ServiceInv, ReadsExited
  <1>4. reqs[q] = "deferred"
    BY <1>0, <1>2, <1>3 DEF Ledger, Owned
  <1>5. reqs' = [reqs EXCEPT ![q] = answer]
    BY <1>2 DEF Complete
  <1>6. answer = "answered" => t.script # "todo" /\ q \in Ran
    BY <1>0, <1>2 DEF Sound, Ran, Ids
  <1>7. ServiceStep
    <2>1. CASE answer = "answered"
      <3>1. Service!Answer(q)
        BY <1>1, <1>4, <1>5, <1>6, <2>1 DEF Service!Answer
      <3> QED BY <1>2, <3>1 DEF ServiceStep, Service!Next
    <2>2. CASE answer = "unanswered"
      <3>1. Service!GiveUp(q)
        BY <1>1, <1>4, <1>5, <2>2 DEF Service!GiveUp
      <3> QED BY <1>2, <3>1 DEF ServiceStep, Service!Next
    <2> QED BY <2>1, <2>2
  <1>8. NotYet'
    <2> SUFFICES ASSUME NEW i \in Ids', tasks'[i].script = "todo",
                        tasks'[i].req \in Requests
                 PROVE  reqs'[tasks'[i].req] # "answered"
      BY DEF NotYet
    <2>1. i \in Ids
      OBVIOUS
    <2>2. tasks[i].script = "todo" /\ tasks[i].req = tasks'[i].req
      BY <2>1 DEF Alike, Ids
    <2>3. reqs[tasks[i].req] # "answered"
      BY <2>1, <2>2 DEF ServiceInv, NotYet
    <2>4. CASE tasks[i].req = q
      <3>1. i = id
        BY <1>0, <1>2, <2>1, <2>4 DEF Ledger, Ids
      <3>2. answer = "unanswered"
        BY <1>6, <2>2, <3>1
      <3> QED BY <1>0, <1>2, <1>5, <2>2, <2>4, <3>2
    <2>5. CASE tasks[i].req # q
      BY <1>0, <1>5, <2>2, <2>3, <2>5
    <2> QED BY <2>4, <2>5
  <1> QED BY <1>1, <1>7, <1>8

LEMMA CallbackService ==
    ASSUME ServiceInv, FInv', NEW id \in Ids, FinishCallback(id)
    PROVE  NotYet' /\ Snaps' /\ Begun' /\ ServiceStep
  <1> DEFINE t == tasks[id]
  <1>0. /\ tasks \in Seq(Task) /\ t \in Task /\ id \in DOMAIN tasks
        /\ Sound(t) /\ Ledgered /\ hw \in Nat
    BY DEF ServiceInv, FInv, Rest, Ledgered, Good, Ids
  <1>1. Alike(tasks, Closed(id)) /\ DOMAIN Closed(id) = Ids
    BY <1>0, ClosedAlike, TaskCloses DEF Ledgered
  <1>2. tasks' = Closed(id) => /\ Alike(tasks, tasks')
                               /\ Ids' = Ids
    BY <1>1 DEF Ids
  <1>3. CASE DumpFinish(id)
    <2>1. /\ tasks' = Closed(id) /\ dump' = t.snap /\ t.kind = "dump"
          /\ t.result = "ok" /\ UNCHANGED <<reqs, hw, jobs>>
      BY <1>3 DEF DumpFinish, EndOfFile, banks
    <2>2. Ran' = Ran /\ Snaps' /\ Begun'
      BY <1>2, <2>1, AlikeStep DEF ServiceInv
    <2>3. NotYet'
      BY <1>2, <2>1, AlikeNotYet DEF ServiceInv
    <2>4. dump' \in 1..hw
      <3>1. t.snap \in Nat /\ t.snap # 0 /\ t.snap <= hw
        BY <1>0, <2>1, Fields DEF Sound, ServiceInv, Snaps
      <3> QED BY <1>0, <2>1, <3>1
    <2>5. Service!Refresh
      BY <2>1, <2>2, <2>4 DEF Service!Refresh
    <2> QED BY <2>2, <2>3, <2>5 DEF ServiceStep, Service!Next
  <1>4. CASE DumpRetry(id)
    <2>1. tasks' = Closed(id) /\ UNCHANGED <<reqs, dump, hw, jobs>>
      BY <1>4 DEF DumpRetry, banks
    <2> QED BY <1>2, <2>1, HiddenStep
  <1>5. ASSUME NEW kind \in {"set_bootbank", "upgrade"},
               NoAnswer(id, kind) \/ Refusal(id, kind)
        PROVE  NotYet' /\ Snaps' /\ Begun' /\ ServiceStep
    <2>1. /\ tasks' = Closed(id) /\ t.kind # "dump" /\ reading = id /\ id # 0
          /\ UNCHANGED <<dump, hw, jobs>>
      BY <1>5 DEF NoAnswer, Refusal, EndOfFile, banks, cache
    <2>2. PICK answer \in {"answered", "unanswered"} :
             /\ Complete(id, answer)
             /\ answer = "answered" => t.result # "none"
      BY <1>5 DEF NoAnswer, Refusal
    <2> QED BY <1>2, <2>1, <2>2, CompleteService
  <1>6. CASE UpgradeFinish(id)
    <2>1. /\ tasks' = Closed(id) /\ t.kind # "dump" /\ reading = id /\ id # 0
          /\ UNCHANGED <<dump, hw, jobs>> /\ t.result # "none"
          /\ Complete(id, "answered")
      BY <1>6 DEF UpgradeFinish, EndOfFile, banks, cache
    <2> QED BY <1>2, <2>1, CompleteService
  <1>7. CASE SetBootbankFinish(id)
    <2>1. /\ InitGlobalFwbankDump(Closed(id))
          /\ t.kind # "dump" /\ reading = id /\ id # 0
          /\ UNCHANGED <<dump, hw, jobs>> /\ t.result # "none"
          /\ Complete(id, "answered")
      BY <1>7 DEF SetBootbankFinish, EndOfFile, banks, cache
    <2>2. Closed(id) \in Seq(Task)
      BY <1>0, TaskCloses DEF Ledgered, Good
    <2>3. Alike(tasks, tasks')
      BY <1>0, <1>1, <2>1, <2>2, DumpAlike
    <2>4. \A i \in Ids' \ Ids : tasks'[i].req \notin Requests
      BY <1>1, <2>1, <2>2, DumpForNobody DEF Ids
    <2> QED BY <2>1, <2>3, <2>4, CompleteService
  <1> QED BY <1>3, <1>4, <1>5, <1>6, <1>7 DEF FinishCallback

LEMMA JobService ==
    ASSUME ServiceInv, FInv', NEW j \in jobs, Job(j)
    PROVE  NotYet' /\ Snaps' /\ Begun' /\ ServiceStep
  <1>1. UNCHANGED <<tasks, reqs, dump>> /\ hw' \in {hw, hw + 1} /\ Ids' = Ids
    BY DEF Job, JobDownloads, JobEnds, cache, Ids
  <1>2. Ran' = Ran /\ Snaps' /\ Begun'
    BY <1>1, NothingChanged, AlikeStep DEF ServiceInv
  <1>3. NotYet'
    BY <1>1 DEF ServiceInv, NotYet
  <1>4. ServiceStep
    <2>1. CASE hw' = hw
      BY <1>1, <1>2, <2>1 DEF ServiceStep
    <2>2. CASE hw' = hw + 1
      <3>1. Ran # {}
        BY DEF ServiceInv, Begun
      <3>2. Service!Install
        BY <1>1, <1>2, <2>2, <3>1 DEF Service!Install
      <3> QED BY <3>2 DEF ServiceStep, Service!Next
    <2> QED BY <1>1, <2>1, <2>2
  <1> QED BY <1>2, <1>3, <1>4

LEMMA ServiceNext ==
    ASSUME ServiceInv, [Next]_vars
    PROVE  ServiceInv' /\ ServiceStep
  <1>0. FInv /\ FInv' /\ ReadsExited' /\ tasks \in Seq(Task)
    BY InvStep, ReadsStep DEF ServiceInv, FInv, Ledgered, Good
  <1> DEFINE Goal == NotYet' /\ Snaps' /\ Begun' /\ ServiceStep
  <1>1. CASE Client
    <2>1. PICK r \in Requests : \/ \E kind, bank : Handle(kind, r, bank)
                                \/ SetBootFirmwareImage(r)
      BY <1>1 DEF Client, SetBootbankHandler, UpgradeHandler
    <2>2. Goal
      BY <1>0, <2>1, HandleService, CallService
    <2> QED BY <1>0, <2>2 DEF ServiceInv
  <1>2. CASE InitFwbankDump \/ FwbankDumpTimer \/ ReceiveAvailable
    <2>1. InitGlobalFwbankDump(tasks) /\ UNCHANGED <<reqs, dump, hw, jobs>>
      BY <1>2 DEF InitFwbankDump, FwbankDumpTimer, ReceiveAvailable, banks,
                  cache
    <2>2. Alike(tasks, tasks')
      BY <1>0, <2>1, NothingChanged, DumpAlike
    <2>3. \A i \in Ids' \ Ids : tasks'[i].req \notin Requests
      BY <1>0, <2>1, DumpForNobody DEF Ids
    <2>4. Goal
      BY <1>0, <2>1, <2>2, <2>3, HiddenStep
    <2> QED BY <1>0, <2>4 DEF ServiceInv
  <1>3. CASE \E id \in Ids : TaskTimeout(id) \/ TaskFinish(id)
    <2>1. Goal
      BY <1>0, <1>3, NoticeService
    <2> QED BY <1>0, <2>1 DEF ServiceInv
  <1>4. CASE \E id \in Ids : FinishCallback(id)
    <2>1. Goal
      BY <1>0, <1>4, CallbackService
    <2> QED BY <1>0, <2>1 DEF ServiceInv
  <1>5. CASE \/ IgnoreSysupgrade \/ ReceiveOther \/ FwbankListenTimeout
             \/ UNCHANGED vars
    <2>1. UNCHANGED <<tasks, reqs, dump, hw, jobs>>
      BY <1>5 DEF IgnoreSysupgrade, ReceiveOther, FwbankListenTimeout, vars,
                  banks, cache
    <2>2. Alike(tasks, tasks') /\ Ids' = Ids
      BY <2>1, NothingChanged DEF Ids
    <2>3. Goal
      BY <1>0, <2>1, <2>2, HiddenStep
    <2> QED BY <1>0, <2>3 DEF ServiceInv
  <1>6. CASE \E id \in Ids : Script(id)
    <2>1. Goal
      BY <1>0, <1>6, ScriptService
    <2> QED BY <1>0, <2>1 DEF ServiceInv
  <1>7. CASE \E j \in jobs : Job(j)
    <2>1. Goal
      BY <1>0, <1>7, JobService
    <2> QED BY <1>0, <2>1 DEF ServiceInv
  <1> QED
    BY <1>1, <1>2, <1>3, <1>4, <1>5, <1>6, <1>7 DEF Next, Daemon

\* The daemon implements BankService, whatever fails, overlaps or comes late:
\* no request runs its script twice, none is answered before its script has
\* run, none ends twice, and the dump always shows a state the banks were in
\* (fwbank.c:96-98, 190-192, 288-324, 507-541).
THEOREM ServiceImplemented == Spec => Served
  <1>1. Init => ServiceInv /\ Service!Init
    <2> SUFFICES ASSUME Init PROVE ServiceInv /\ Service!Init
      OBVIOUS
    <2>0. tasks = <<>> /\ DOMAIN tasks = {} /\ jobs = {} /\ reading = 0
      BY DEF Init
    <2>1. FInv /\ Ids = {} /\ jobs = {} /\ reading = 0
      BY <2>0, InitInv DEF Ids
    <2>2. Ran = {}
      BY <2>1 DEF Ran
    <2>3. ServiceInv
      BY <2>1 DEF ServiceInv, ReadsExited, NotYet, Snaps, Begun
    <2>4. Service!Init
      BY <2>2 DEF Init, Service!Init
    <2> QED BY <2>3, <2>4
  <1>2. ServiceInv /\ [Next]_vars
           => ServiceInv' /\ [Service!Next]_<<reqs, Ran, hw, dump>>
    <2> SUFFICES ASSUME ServiceInv, [Next]_vars
                 PROVE  /\ ServiceInv'
                        /\ [Service!Next]_<<reqs, Ran, hw, dump>>
      OBVIOUS
    <2> QED BY ServiceNext DEF ServiceStep
  <1> QED BY <1>1, <1>2, PTL DEF Spec, Served, Service!Spec

=============================================================================
