--------------------------- MODULE MCHelixSession ---------------------------
(***************************************************************************)
(* Instances of HelixSession for TLC.                                      *)
(***************************************************************************)
EXTENDS HelixSession

CONSTANTS b1,      \* a bus
          k1, k2,  \* the threads that close the session
          d1, d2   \* the devices

OneBus == {b1}
OneCloser == {k1}
TwoClosers == {k1, k2}
TwoDevices == {d1, d2}
=============================================================================
