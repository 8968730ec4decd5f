-------------------------------- MODULE MCShm --------------------------------
(* Small instances of Shm for TLC.                                          *)
EXTENDS Shm, TLC

CONSTANTS p1, p2, p3, m1, m2

Symmetry == Permutations(Procs) \cup Permutations(Pages)
=============================================================================
