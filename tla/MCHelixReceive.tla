--------------------------- MODULE MCHelixReceive ---------------------------
(***************************************************************************)
(* Instances of HelixReceive for TLC: a bus on one of two channels and one *)
(* that subscribes to every channel.                                       *)
(***************************************************************************)
EXTENDS HelixReceive

CONSTANTS b1, b2

TwoBuses == {b1, b2}
TwoChannels == {"ch1", "ch2"}
OneAndAll == [b \in TwoBuses |-> IF b = b1 THEN "ch1" ELSE "all"]
OneBus == {b1}
One == [b \in OneBus |-> "ch1"]
=============================================================================
