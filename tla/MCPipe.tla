------------------------------- MODULE MCPipe --------------------------------
(* A small instance of Pipe for TLC.                                         *)
EXTENDS Pipe
=============================================================================
