------------------------------ MODULE MCFwBank ------------------------------
(***************************************************************************)
(* Instances of FwBank for TLC: one or two banks, one or two requests, one *)
(* retry instead of ten, and as many forks as the requests and their       *)
(* refreshes need.                                                         *)
(***************************************************************************)
EXTENDS FwBank, TLC

OneBank == {1}
TwoBanks == {1, 2}

\* The faults of the different runs.
BadAnswers == {"bad", "slow", "no_bank"}
AllFaults == {"bad", "slow", "fork", "early", "concurrent", "no_bank"}
SlowScripts == {"slow", "concurrent"}
Overlapping == {"concurrent"}
EarlyEnds == {"early"}
Upgrades == {"upgrades"}

Symmetric == Permutations(Requests)

=============================================================================
