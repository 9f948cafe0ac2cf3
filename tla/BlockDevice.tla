---------------------------- MODULE BlockDevice ----------------------------
(***************************************************************************)
(* What virtio_disk_rw() promises its callers: the transfer between the    *)
(* buffer and the block happens at one instant between the call and the    *)
(* return.                                                                 *)
(***************************************************************************)
CONSTANTS
    Buf,      \* the buffers, each of a different block
    Data,
    Garbage   \* what a buffer holds before the block is read into it

VARIABLES
    platter,  \* the contents of the blocks
    buf,      \* the contents of the buffers
    op,       \* the request in progress for each buffer
    done      \* the buffers whose request has been performed

bdvars == <<platter, buf, op, done>>

Init ==
    /\ platter \in [Buf -> Data]
    /\ buf = [b \in Buf |-> Garbage]
    /\ op = [b \in Buf |-> "none"]
    /\ done = {}

Call(b, o) ==
    /\ op[b] = "none"
    /\ op' = [op EXCEPT ![b] = o]
    /\ \E d \in Data : buf' = [buf EXCEPT ![b] = IF o = "write" THEN d ELSE Garbage]
    /\ UNCHANGED <<platter, done>>

Transfer(b) ==
    /\ op[b] # "none" /\ b \notin done
    /\ done' = done \cup {b}
    /\ IF op[b] = "write"
         THEN platter' = [platter EXCEPT ![b] = buf[b]] /\ UNCHANGED buf
         ELSE buf' = [buf EXCEPT ![b] = platter[b]] /\ UNCHANGED platter
    /\ UNCHANGED op

\* The caller takes its buffer back.
Return(b) ==
    /\ b \in done /\ done' = done \ {b}
    /\ op' = [op EXCEPT ![b] = "none"]
    /\ buf' = [buf EXCEPT ![b] = Garbage]
    /\ UNCHANGED platter

Next ==
    \E b \in Buf :
        \/ Transfer(b) \/ Return(b)
        \/ \E o \in {"read", "write"} : Call(b, o)

Spec == Init /\ [][Next]_bdvars
=============================================================================
