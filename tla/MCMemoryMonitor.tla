--------------------------- MODULE MCMemoryMonitor ---------------------------
(***************************************************************************)
(* Instances of MemoryMonitor for TLC: the default thresholds 80 and 60,   *)
(* a utilisation below, between and above them, a controller that may swap *)
(* the thresholds, and a few readings of the clock.                        *)
(***************************************************************************)
EXTENDS MemoryMonitor

ThreeLevels == {50, 70, 90}
BothThresholds == {60, 80}

Unreadable == {"unreadable"}

=============================================================================
