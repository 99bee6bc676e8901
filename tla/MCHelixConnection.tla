------------------------- MODULE MCHelixConnection -------------------------
(***************************************************************************)
(* Instances of HelixConnection for TLC: three buses on one backend.       *)
(***************************************************************************)
EXTENDS HelixConnection, TLC

CONSTANTS b1, b2, b3,  \* the buses
          s1, s2       \* the crypto sessions

MCBuses == {b1, b2, b3}

\* Two buses share a HelixSession, the third has its own.
TwoSessions ==
  [b \in MCBuses |-> [endpoint |-> "dev", session |-> IF b = b3 THEN s2 ELSE s1,
                      batch |-> FALSE]]

\* All three share one HelixSession.
OneSession ==
  [b \in MCBuses |-> [endpoint |-> "dev", session |-> s1, batch |-> FALSE]]

\* Two buses on one HelixSession, for the temporal properties.
MCPair == {b1, b2}
PairConfig == [b \in MCPair |-> OneSession[b]]

\* Buses with the same configuration are interchangeable.
PairSymmetry == Permutations({b1, b2})
=============================================================================
