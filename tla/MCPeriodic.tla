----------------------------- MODULE MCPeriodic ------------------------------
(* Small instances, for TLC, of two devices processes wait for: the clock   *)
(* (module Periodic) and the disk (Virtio).  A behaviour is one of either;  *)
(* the other's state does not change.  The disk is taken with three buffers *)
(* and descriptors for one request; and with two buffers in use, one of     *)
(* them for reading, and descriptors for both requests.                     *)
EXTENDS Periodic

CONSTANTS NONE, b1, b2, b3

VARIABLES on, req, disk, dev, sectors, intr

diskvars == <<req, disk, dev, sectors, intr>>
allvars == <<on, vars, diskvars>>

V1 == INSTANCE Virtio WITH Bufs <- {b1, b2, b3}, Blocks <- {1}, Vals <- {0, 1},
                           NUM <- 4, WRAP <- 4
V2 == INSTANCE Virtio WITH Bufs <- {b1, b2, b3}, Blocks <- {1}, Vals <- {0, 1},
                           NUM <- 6, WRAP <- 6

InitAll ==
    /\ on \in {"clock", "disk1", "disk2"}
    /\ Init
    /\ IF on = "disk1" THEN V1!Init ELSE V2!Init
    /\ on = "clock" => sectors = <<0>>

NextAll ==
    \/ on = "clock" /\ Next /\ UNCHANGED <<on, diskvars>>
    \/ on = "disk1" /\ V1!Next /\ UNCHANGED <<on, vars>>
    \/ /\ on = "disk2" /\ V2!Next /\ UNCHANGED <<on, vars>>
       /\ req'[b3] = req[b3] /\ (req'[b2].at # "idle" => req'[b2].write = 0)

(* The two modules' fairness, each for the behaviours in which it moves.    *)
Hardware ==
    \/ on = "clock" /\ ClockStep /\ UNCHANGED <<on, diskvars>>
    \/ on = "disk1" /\ (V1!Device \/ V1!Interrupt) /\ UNCHANGED <<on, vars>>
    \/ on = "disk2" /\ (V2!Device \/ V2!Interrupt) /\ UNCHANGED <<on, vars>>

FairAll ==
    /\ WF_allvars(Hardware)
    /\ \A p \in Slots : SF_vars(on = "clock" /\ InKernel(p))
    /\ \A b \in {b1, b2, b3} :
          WF_diskvars(\/ on = "disk1" /\ V1!Driver(b)
                      \/ on = "disk2" /\ V2!Driver(b))

SpecAll == InitAll /\ [][NextAll]_allvars /\ FairAll

(* virtio_disk_rw() transfers the block once between its start and return.  *)
ImplementsDevice == V1!ImplementsDevice

(* Every descriptor of virtio_disk.c is free or in one request's chain.     *)
DescriptorsAccounted ==
    /\ on = "disk1" => V1!DescriptorsAccounted
    /\ on = "disk2" => V2!DescriptorsAccounted

(* No completion is missed by virtio_disk_intr(), and calls return.         *)
RequestsEnd == V1!RequestsEnd
=============================================================================
