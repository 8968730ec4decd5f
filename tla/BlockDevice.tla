----------------------------- MODULE BlockDevice -----------------------------
(***************************************************************************)
(* What virtio_disk_rw() of kernel/virtio_disk.c promises to kernel/bio.c: *)
(* a call moves the block between the buffer and the disk once, at some    *)
(* moment between its start and its return, and touches no other buffer    *)
(* and no other block.  The calls of different buffers overlap freely.     *)
(***************************************************************************)
CONSTANTS Bufs, Blocks, Vals, NONE

VARIABLES
    sectors,    \* the blocks on the disk
    call        \* the call made for each buffer, with the buffer's contents

device == <<sectors, call>>

NoCall == [at |-> "idle"]

DeviceInit ==
    /\ sectors \in [Blocks -> Vals]
    /\ call = [b \in Bufs |-> NoCall]

(* v is what the buffer holds; what it holds does not matter for a read.   *)
Begin(b, k, w, v) ==
    /\ call[b] = NoCall
    /\ call' = [call EXCEPT ![b] = [at |-> "begun", blockno |-> k, write |-> w, data |-> v]]
    /\ UNCHANGED sectors

Transfer(b) ==
    /\ call[b].at = "begun"
    /\ IF call[b].write = 1
       THEN /\ sectors' = [sectors EXCEPT ![call[b].blockno] = call[b].data]
            /\ call' = [call EXCEPT ![b].at = "done"]
       ELSE /\ call' = [call EXCEPT ![b].at = "done", ![b].data = sectors[call[b].blockno]]
            /\ UNCHANGED sectors

(* The caller has the block in call[b].data.                               *)
End(b) ==
    /\ call[b].at = "done"
    /\ call' = [call EXCEPT ![b] = NoCall]
    /\ UNCHANGED sectors

DeviceNext ==
    \E b \in Bufs :
        \/ \E k \in Blocks : Begin(b, k, 0, NONE) \/ \E v \in Vals : Begin(b, k, 1, v)
        \/ Transfer(b)
        \/ End(b)

DeviceSpec == DeviceInit /\ [][DeviceNext]_device
=============================================================================
