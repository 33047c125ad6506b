---------------------------- MODULE MCCpuMonitor ----------------------------
(***************************************************************************)
(* Instances of CpuMonitor for TLC: rings of one to three samples instead  *)
(* of thirty, loads whose averages fall on both sides of the thresholds.   *)
(***************************************************************************)
EXTENDS CpuMonitor

TwoLevels == {50, 90}
NoThresholds == {}

NoMemory == {"unreadable", "no_memory"}
OneOrThree == {1, 3}

=============================================================================
