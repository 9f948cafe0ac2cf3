-------------------------------- MODULE Fifo --------------------------------
(***************************************************************************)
(* What a pipe promises while it exists: a bounded queue of bytes, taken   *)
(* in the order they were put, each at most once.                          *)
(***************************************************************************)
EXTENDS Naturals, Sequences

CONSTANTS Byte, Size

VARIABLES exists, queue

Init == exists = FALSE /\ queue = <<>>

Create  == ~exists /\ exists' = TRUE /\ queue' = <<>>
Destroy == exists /\ exists' = FALSE /\ queue' = <<>>
Put(c)  == exists /\ Len(queue) < Size /\ queue' = Append(queue, c) /\ UNCHANGED exists
Get     == exists /\ queue # <<>> /\ queue' = Tail(queue) /\ UNCHANGED exists

Next == Create \/ Destroy \/ Get \/ \E c \in Byte : Put(c)

Spec == Init /\ [][Next]_<<exists, queue>>
=============================================================================
