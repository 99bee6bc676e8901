---------------------------- MODULE MCHelixSend -----------------------------
(***************************************************************************)
(* Instances of HelixSend for TLC: two threads on one manager.  The first  *)
(* sends messages of every kind, at the lengths where the codec changes    *)
(* its mind, the other one of 64 bytes again and again.                    *)
(***************************************************************************)
EXTENDS HelixSend

CONSTANTS s1, s2, m1

MCSenders == {s1, s2}
MCManagers == {m1}
MCManagerOf == [s \in MCSenders |-> m1]

Message(flags, dlc, len) == [flags |-> flags, dlc |-> dlc, bytes |-> len, zeros |-> 0]

ClassicMessages ==
  {Message({}, len, len) : len \in {8}}
    \cup {Message({"remote"}, 4, 0)}

FdMessages ==
  {Message({"fd", "brs"}, len, len) : len \in {9, 12, 65}}

MCMessagesOf ==
  [s \in MCSenders |-> IF s = s1 THEN ClassicMessages \cup FdMessages
                                 ELSE {Message({"fd"}, 64, 64)}]
=============================================================================
