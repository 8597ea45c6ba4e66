------------------------ MODULE MCCrossProcessLock ------------------------
(* Two processes sharing a store: small leases, so that a lease can be    *)
(* renewed, run out and be taken over several times.                      *)
EXTENDS CrossProcessLock, TLC

CONSTANTS app, nse, t1, t2

ProcessSymmetry == Permutations(Process) \cup Permutations(Thread)
=============================================================================
