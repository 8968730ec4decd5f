----------------------------- MODULE MCFileWrite -----------------------------
(* Small instances of FileWrite for TLC.                                    *)
EXTENDS FileWrite, TLC

CONSTANTS p1, p2
=============================================================================
