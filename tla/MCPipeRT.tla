------------------------------ MODULE MCPipeRT ------------------------------
(* Small instances of PipeRT for TLC.                                      *)
EXTENDS PipeRT

CONSTANTS p1, p2, p3
=============================================================================
