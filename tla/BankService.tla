----------------------------- MODULE BankService -----------------------------
(***************************************************************************)
(* What sysmngr promises of the firmware banks (src/src/fwbank.c) to the   *)
(* clients that change them and to the readers of its dump, who see        *)
(* nothing of its tasks, timers and pipes: a request runs its script at    *)
(* most once, and not at all when it is refused; it gets an answer only    *)
(* after its script has run, and one end.  The script of a request that    *)
(* ended unanswered may still run.  Calls of the data model are not        *)
(* answered.  The banks change by those scripts and calls, and by what an  *)
(* upgrade installs.  The dump shows a state the banks were in, not always *)
(* a later one than before.                                                *)
(***************************************************************************)
EXTENDS Naturals

CONSTANT
    Requests   \* the calls clients will make

VARIABLES
    reqs,      \* the calls: ubus requests, or of the data model
    ran,       \* the requests whose script has run
    hw,        \* how often the banks have changed
    dump       \* the state of the banks the dump shows, 0 before the first

Init ==
    /\ reqs = [r \in Requests |-> "new"]
    /\ ran = {}
    /\ hw = 1
    /\ dump = 0

Accept(r) ==
    /\ reqs[r] = "new"
    /\ reqs' \in {[reqs EXCEPT ![r] = "refused"],
                  [reqs EXCEPT ![r] = "deferred"],
                  [reqs EXCEPT ![r] = "called"]}
    /\ UNCHANGED <<ran, hw, dump>>

Run(r) ==
    /\ reqs[r] \in {"deferred", "unanswered"} /\ r \notin ran
    /\ ran' = ran \cup {r}
    /\ hw' \in {hw, hw + 1}
    /\ UNCHANGED <<reqs, dump>>

Answer(r) ==
    /\ reqs[r] = "deferred" /\ r \in ran
    /\ reqs' = [reqs EXCEPT ![r] = "answered"]
    /\ UNCHANGED <<ran, hw, dump>>

GiveUp(r) ==
    /\ reqs[r] = "deferred"
    /\ reqs' = [reqs EXCEPT ![r] = "unanswered"]
    /\ UNCHANGED <<ran, hw, dump>>

\* The end of an upgrade, or a call of the data model.
Install ==
    /\ ran # {} \/ \E r \in Requests : reqs[r] = "called"
    /\ hw' = hw + 1
    /\ UNCHANGED <<reqs, ran, dump>>

Refresh ==
    /\ dump' \in 1..hw
    /\ UNCHANGED <<reqs, ran, hw>>

Next ==
    \/ \E r \in Requests : Accept(r) \/ Run(r) \/ Answer(r) \/ GiveUp(r)
    \/ Install
    \/ Refresh

Spec == Init /\ [][Next]_<<reqs, ran, hw, dump>>

=============================================================================
