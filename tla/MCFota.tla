------------------------------- MODULE MCFota -------------------------------
(* Small instances of Fota for TLC. *)
EXTENDS Fota

(* Two updates, a job that goes back to the factory version, and a job for *)
(* another type.                                                           *)
SomeJobs    == 1 .. 4
SomeVersion == <<2, 3, 1, 2>>
TwoJobs     == 1 .. 2
TwoVersions == <<2, 3>>
=============================================================================
