-------------------------------- MODULE Alarm --------------------------------
(***************************************************************************)
(* What a monitor of memory or CPU utilisation promises to a controller:   *)
(* a critical state is announced at most once, and not announced again     *)
(* before its end has been recorded.  It may go unannounced, when the      *)
(* daemon dies between the record and the event.                           *)
(***************************************************************************)
EXTENDS Naturals

VARIABLES
    critical,  \* a critical state is recorded
    told       \* events sent since the last recorded end

Init == critical = FALSE /\ told = 0

Reach ==
    /\ ~critical
    /\ critical' = TRUE
    /\ UNCHANGED told

Announce ==
    /\ critical
    /\ told = 0
    /\ told' = 1
    /\ UNCHANGED critical

Ended ==
    /\ critical
    /\ critical' = FALSE
    /\ told' = 0

Next == Reach \/ Announce \/ Ended

Spec == Init /\ [][Next]_<<critical, told>>

=============================================================================
