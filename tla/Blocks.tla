------------------------------- MODULE Blocks -------------------------------
(***************************************************************************)
(* What the buffer cache promises (the header comment of kernel/bio.c):    *)
(* one copy of every block, which one process at a time may use.  That     *)
(* copies come and go as buffers are recycled is not visible.              *)
(***************************************************************************)
CONSTANTS Proc, Block, Data, None

VARIABLES
    content,  \* what whoever locks the block reads
    disk,     \* the block on the disk
    holder    \* the process that has the block locked

blvars == <<content, disk, holder>>

Init ==
    /\ disk \in [Block -> Data]
    /\ content = disk
    /\ holder = [k \in Block |-> None]

\* bread() returns.
Lock(p, k) ==
    /\ holder[k] = None
    /\ holder' = [holder EXCEPT ![k] = p]
    /\ UNCHANGED <<content, disk>>

Modify(p, k, d) ==
    /\ holder[k] = p
    /\ content' = [content EXCEPT ![k] = d]
    /\ UNCHANGED <<disk, holder>>

\* bwrite().
Write(p, k) ==
    /\ holder[k] = p
    /\ disk' = [disk EXCEPT ![k] = content[k]]
    /\ UNCHANGED <<content, holder>>

\* brelse().
Unlock(p, k) ==
    /\ holder[k] = p
    /\ holder' = [holder EXCEPT ![k] = None]
    /\ UNCHANGED <<content, disk>>

Next ==
    \E p \in Proc, k \in Block :
        \/ Lock(p, k) \/ Write(p, k) \/ Unlock(p, k)
        \/ \E d \in Data : Modify(p, k, d)

Spec == Init /\ [][Next]_blvars
=============================================================================
