---------------------------- MODULE MCActivation ----------------------------
(***************************************************************************)
(* An instance of Activation for TLC, with two ticks to a minute: windows  *)
(* long enough for two sleeps of the script, that begin within a minute,   *)
(* meet, overlap, start at once or are one too many, and two calls.        *)
(***************************************************************************)
EXTENDS Activation

W(start, end, mode) == [start |-> start, end |-> end, mode |-> mode]

Windows ==
    {<<W(3, 12, "WhenIdle")>>,
     <<W(0, 3, "WhenIdle"), W(3, 9, "WhenIdle")>>,
     <<W(2, 7, "WhenIdle"), W(7, 7, "Immediately"), W(8, 9, "AnyTime")>>,
     <<W(2, 8, "WhenIdle"), W(4, 10, "WhenIdle")>>,
     <<W(4, 6, "ConfirmationNeeded")>>}

=============================================================================
