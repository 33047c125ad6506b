------------------------------ MODULE MCReboots ------------------------------
(***************************************************************************)
(* Instances of Reboots for TLC.  The limits of the code (15 retries, 32   *)
(* entries) are scaled down to 1 or 2 so that they are reached and passed  *)
(* within a few boots.                                                     *)
(***************************************************************************)
EXTENDS Reboots

\* Values written to MaxRebootEntries; -1 stands for REBOOT_MAX_ENTRIES.
AnyEntries == {-1, 0, 1}
TwoEntries == {2}
ZeroEntries == {0}
NoEntries == {}

\* What the environment does in the different runs.
PowerCuts == {"power_cut"}
RemoteReboots == {"remote"}
SlowReboots == {"remote", "slow"}
EarlyReboots == {"remote", "early"}
AnyDisturbance == {"power_cut", "remote", "early", "slow", "clock_lost"}

=============================================================================
