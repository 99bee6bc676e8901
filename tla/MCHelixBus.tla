----------------------------- MODULE MCHelixBus -----------------------------
(***************************************************************************)
(* An instance of HelixBus for TLC.                                        *)
(***************************************************************************)
EXTENDS HelixBus, TLC

CONSTANTS t1, t2, t3  \* the threads

MCThreads == {t1, t2, t3}

ThreadSymmetry == Permutations(MCThreads)
=============================================================================
