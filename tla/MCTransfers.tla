---------------------------- MODULE MCTransfers ----------------------------
(***************************************************************************)
(* An instance of Transfers for TLC: two operations, each of any kind, so  *)
(* that any two may overlap, and calls that take every way through the     *)
(* checks.                                                                 *)
(***************************************************************************)
EXTENDS Transfers

C(kind, url, sum, bank, auto) ==
    [kind |-> kind, url |-> url, sum |-> sum, bank |-> bank, auto |-> auto]

\* Two downloads to different banks, one with AutoActivate; uploads that may
\* fail; a file that is restored without a copy, and a refused command.
AllCalls ==
    {C("Download", "http", "known", 1, FALSE),
     C("Download", "http", "none", 2, TRUE),
     C("Backup", "http", "none", 0, FALSE),
     C("Backup", "unsupported", "none", 0, FALSE),
     C("Restore", "http", "known", 0, FALSE),
     C("Restore", "file", "none", 0, FALSE),
     C("Restore", "missing", "none", 0, FALSE)}

=============================================================================
