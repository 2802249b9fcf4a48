----------------------------- MODULE MCAckQueue -----------------------------
(* Small instances of AckQueue for TLC.                                    *)
EXTENDS AckQueue

CONSTANTS cloud, app

OneThread  == {cloud}
TwoThreads == {cloud, app}
=============================================================================
