----------------------------- MODULE MCStartup -----------------------------
(* A countdown of three seconds, advanced by one second or by two. *)
EXTENDS Startup

MCAdvances == {1, 2}
=============================================================================
