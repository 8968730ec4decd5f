-------------------------------- MODULE MCFs --------------------------------
(* Up to four processes: a test, its children and a child of grind's.      *)
EXTENDS Fs
CONSTANTS p1, p2, p3, p4
=============================================================================
