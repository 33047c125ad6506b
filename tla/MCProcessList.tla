---------------------------- MODULE MCProcessList ----------------------------
(***************************************************************************)
(* Instances of ProcessList for TLC: up to three processes, with and       *)
(* without a refresh interval, a few changes and failures.                 *)
(***************************************************************************)
EXTENDS ProcessList

Both == {0, 60}
ScanAndAnswer == {"scan_fails", "answer_lost"}
EarlyRead == {"scan_fails", "early_read"}

=============================================================================
