------------------------------ MODULE MCConsole ------------------------------
(* Small instances, for TLC, of what is behind a descriptor (kernel/file.c): *)
(* the console (module Console), with readers and with writers, or a regular *)
(* file (FileWrite).  A behaviour is one of them; the other's state does not *)
(* change.                                                                   *)
EXTENDS Console

CONSTANTS Procs, Blocks, MAXFILE, DiskBlocks, MAXOPBLOCKS

VARIABLES on, file, spare, free, lock, fd, pc, asked, done, good

filevars == <<file, spare, free, lock, fd, pc, asked, done, good>>
allvars == <<on, vars, filevars>>

F == INSTANCE FileWrite WITH Lengths <- Blocks, data <- file, n <- asked, i <- done

ASSUME FileWriteAssumption == F!FileWriteAssumption

InitAll == on \in {"input", "output", "file"} /\ Init /\ F!Init

(* Beside the writers only plain characters are typed.  Of the data that a   *)
(* process writes to the file its first block or all can be read, and        *)
(* O_APPEND comes with O_WRONLY.                                             *)
NextAll ==
    \/ on = "input" /\ Next /\ UNCHANGED <<on, filevars>> /\ writer' = writer
    \/ /\ on = "output" /\ Next /\ UNCHANGED <<on, filevars>> /\ reader' = reader
       /\ \A i \in DOMAIN cons.buf : cons'.buf[i] \in {"x", NONE}
    \/ /\ on = "file" /\ F!Next /\ UNCHANGED <<on, vars>>
       /\ \A p \in Procs : good'[p] \in {1, asked'[p]} /\ (fd'[p].append => fd'[p].writable = 1)

(* The two modules' fairness, each for the behaviours in which it moves.     *)
FairAll ==
    /\ WF_vars(on = "output" /\ (Driver \/ Sent))
    /\ \A p \in Procs : WF_filevars(on = "file" /\ (F!WriteTurn(p) \/ F!WriteReturns(p)))

SpecAll == InitAll /\ [][NextAll]_allvars /\ FairAll

(* uartstart() sends what uartputc() accepted.                               *)
AcceptedDrains == on = "output" => OutputDrains

(* bmap(), balloc() and itrunc() lose no block and hand none out twice.      *)
BlocksAccounted == F!BlocksAccounted

(* A write() of several turns is in the file in one piece (filewrite()).     *)
WriteInOnePiece == F!WriteInOnePiece

(* filewrite() returns, unless disk space or the data to write has run out.  *)
WriteEnds == F!WriteEnds
=============================================================================
