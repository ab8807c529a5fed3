---------------------------- MODULE MCTransport -----------------------------
(***************************************************************************)
(* A gateway with two threads and a core, with deaths and restarts of both. *)
(***************************************************************************)
EXTENDS Transport, TLC

CONSTANTS g1, g2, gateway, m1, m2, m3, k1, k2

MCThreads == {g1, g2}
MCProcesses == {gateway}
MCProcessOf == [t \in MCThreads |-> gateway]
MCCalls == {m1, m2, m3}
MCCores == {k1, k2}

MCSymmetry == Permutations(MCThreads) \cup Permutations(MCCalls) \cup Permutations(MCCores)
=============================================================================
