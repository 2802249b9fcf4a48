----------------------------- MODULE MCCommands -----------------------------
(* A small instance of Commands for TLC: one more named command than the   *)
(* ring has slots, a nameless REBOOT and a configuration.                  *)
EXTENDS Commands

CONSTANTS c1, c2, c3, reboot, config

MCCommand  == {c1, c2, c3, reboot}
MCReboot   == {reboot}
MCWindowed == {c2}
MCConfig   == {config}
=============================================================================
