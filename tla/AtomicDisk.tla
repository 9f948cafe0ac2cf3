----------------------------- MODULE AtomicDisk -----------------------------
(***************************************************************************)
(* What the logging layer promises its callers (the header comment of      *)
(* kernel/log.c): a disk on which every file-system operation is atomic    *)
(* with respect to crashes.                                                *)
(*                                                                         *)
(*   mem     what the running operations read and write                    *)
(*   stable  what the disk holds after a crash and the recovery            *)
(*   open    the operations between begin_op() and end_op()                *)
(*                                                                         *)
(* The stable contents change in one step only, Commit, and only while no  *)
(* operation is open: they are always the effect of a set of whole         *)
(* operations.                                                             *)
(***************************************************************************)
CONSTANTS Proc, Block, Data, Zero

VARIABLES mem, stable, open

advars == <<mem, stable, open>>

Init ==
    /\ mem = [b \in Block |-> Zero]
    /\ stable = [b \in Block |-> Zero]
    /\ open = {}

Begin(p) ==
    /\ p \notin open
    /\ open' = open \cup {p}
    /\ UNCHANGED <<mem, stable>>

Write(p, b, d) ==
    /\ p \in open
    /\ mem' = [mem EXCEPT ![b] = d]
    /\ UNCHANGED <<stable, open>>

End(p) ==
    /\ p \in open
    /\ open' = open \ {p}
    /\ UNCHANGED <<mem, stable>>

Commit ==
    /\ open = {}
    /\ stable' = mem
    /\ UNCHANGED <<mem, open>>

Crash ==
    /\ mem' = stable
    /\ open' = {}
    /\ UNCHANGED stable

Next ==
    \/ \E p \in Proc : Begin(p) \/ End(p)
    \/ \E p \in Proc, b \in Block, d \in Data : Write(p, b, d)
    \/ Commit
    \/ Crash

Spec == Init /\ [][Next]_advars
=============================================================================
