----------------------------- MODULE VirtioDisk -----------------------------
(***************************************************************************)
(* The virtio disk driver (kernel/virtio_disk.c) and the device.           *)
(*                                                                         *)
(* vdisk_lock is a spinlock: virtio_disk_rw() is one step from acquire or  *)
(* the return of a sleep() to the next sleep() or the release.  The        *)
(* interrupt handler is several, since the device goes on while it runs;   *)
(* it keeps the lock throughout.  The device takes requests off the avail  *)
(* ring, finishes them in any order, and raises its interrupt some time    *)
(* after it has written the used ring.                                     *)
(*                                                                         *)
(* The buffer cache has at most one buffer per block, and whoever asks for *)
(* a transfer holds the buffer's sleep-lock: a buffer stands for its block *)
(* and for the process that waits for the transfer.                        *)
(*                                                                         *)
(* A ring entry that has been read, and ops[] of a chain that has been     *)
(* freed, are dead until they are written again, and the contents of a     *)
(* buffer are no concern of the driver between two requests: the model     *)
(* clears them.                                                            *)
(*                                                                         *)
(* A definition placed just before another one of its kind and named for   *)
(* what it gets wrong is a fault the properties are tested against; no     *)
(* action uses it.                                                         *)
(***************************************************************************)
EXTENDS Integers, FiniteSets

CONSTANTS
    Buf,       \* the buffers, each of a different block, each locked by a process
    Data,      \* contents of a block
    Garbage,   \* a buffer that has not been read yet
    None,
    NUM,       \* descriptors, and entries of each ring (virtio.h)
    WRAP       \* the range of the ring indices: 2^16 in the code

ASSUME DiskAssumption ==
    /\ NUM \in Nat /\ NUM >= 3 /\ WRAP \in Nat /\ WRAP > NUM /\ WRAP % NUM = 0
    /\ Garbage \notin Data

Desc == 0 .. NUM - 1
Idx  == 0 .. WRAP - 1
Op   == {"read", "write", "none"}

VARIABLES
    free, desc,         \* the descriptors: which are free; [addr, next, more]
    ops, infob, status, \* per first descriptor of a chain: request, info.b, info.status
    avail, avail_idx,   \* the ring the driver writes
    used, used_ridx,    \* the ring the device writes, and used->idx
    used_idx,           \* how far the driver has looked in it
    intr,               \* the handler: "off", or "loop" with vdisk_lock held
    seen, working,      \* the device: how far it has read avail; requests it works on
    late, irq,          \* used entries not yet signalled; the interrupt status register
    pc, want, idx,      \* callers: location, read or write, idx[0]
    bdisk,              \* b->disk
    buf, platter,       \* the contents of the buffers and of the disk
    panicked

descvars == <<free, desc, ops, infob, status>>
ringvars == <<avail, avail_idx, used, used_ridx, used_idx>>
devvars  == <<seen, working, late, irq>>
callvars == <<pc, want, idx, bdisk>>
datavars == <<buf, platter>>
vars == <<descvars, ringvars, devvars, callvars, datavars, intr, panicked>>

NoDesc == [addr |-> None, next |-> 0, more |-> FALSE]
NoReq  == [op |-> "none", sector |-> None]

\* virtio_disk_init().
Init ==
    /\ free = Desc /\ desc = [i \in Desc |-> NoDesc]
    /\ ops = [i \in Desc |-> NoReq]
    /\ infob = [i \in Desc |-> None] /\ status = [i \in Desc |-> 0]
    /\ avail = [i \in Desc |-> None] /\ avail_idx = 0
    /\ used = [i \in Desc |-> None] /\ used_ridx = 0 /\ used_idx = 0
    /\ intr = "off"
    /\ seen = 0 /\ working = {} /\ late = FALSE /\ irq = FALSE
    /\ pc = [b \in Buf |-> "idle"] /\ want = [b \in Buf |-> "none"]
    /\ idx = [b \in Buf |-> 0] /\ bdisk = [b \in Buf |-> 0]
    /\ buf = [b \in Buf |-> Garbage]
    /\ platter \in [Buf -> Data]
    /\ panicked = FALSE

Unlocked == intr = "off" /\ ~panicked
Incr(i) == (i + 1) % WRAP

(***************************************************************************)
(* The descriptors.                                                        *)
(***************************************************************************)
\* alloc3_desc() takes the three free descriptors with the least numbers, in order.
alloc3_desc(i, j, k) ==
    /\ {i, j, k} \subseteq free /\ i < j /\ j < k
    /\ \A m \in free \ {i, j} : k <= m
CanAlloc3 == Cardinality(free) >= 3

\* The chain that free_chain(i) walks.
ChainButLast(i) == {i} \cup (IF desc[i].more THEN {desc[i].next} ELSE {})
Chain(i) ==
    {i} \cup IF desc[i].more
               THEN {desc[i].next} \cup
                    IF desc[desc[i].next].more THEN {desc[desc[i].next].next} ELSE {}
               ELSE {}

\* wakeup(&disk.free[0]), which free_desc() calls, in the locations q.
WakeNobody(q) == q
WakeFree(q) == [b \in Buf |-> IF q[b] = "nodesc" THEN "retry" ELSE q[b]]

(***************************************************************************)
(* virtio_disk_rw().                                                       *)
(***************************************************************************)
\* Formats the descriptors, appends the chain to the avail ring and sleeps on b.
Submit(b, w) ==
    \E i, j, k \in free :
      /\ alloc3_desc(i, j, k)
      /\ free' = free \ {i, j, k}
      /\ ops' = [ops EXCEPT ![i] = [op |-> w, sector |-> b]]
      /\ desc' = [desc EXCEPT ![i] = [addr |-> i, next |-> j, more |-> TRUE],
                              ![j] = [addr |-> b, next |-> k, more |-> TRUE],
                              ![k] = [addr |-> i, next |-> 0, more |-> FALSE]]
      /\ status' = [status EXCEPT ![i] = 255]
      /\ infob' = [infob EXCEPT ![i] = b]
      /\ bdisk' = [bdisk EXCEPT ![b] = 1]
      /\ avail' = [avail EXCEPT ![avail_idx % NUM] = i]
      /\ avail_idx' = Incr(avail_idx)
      /\ idx' = [idx EXCEPT ![b] = i]
      /\ pc' = [pc EXCEPT ![b] = "wait"]

\* alloc3_desc() gives back what it got, waking whoever waits, and b sleeps on free[0].
NoDescriptors(b) ==
    /\ pc' = [(IF free # {} THEN WakeFree(pc) ELSE pc) EXCEPT ![b] = "nodesc"]
    /\ UNCHANGED <<descvars, avail, avail_idx, idx, bdisk>>

Start(b, w) ==
    /\ IF CanAlloc3 THEN Submit(b, w) ELSE NoDescriptors(b)
    /\ want' = [want EXCEPT ![b] = w]
    /\ UNCHANGED <<used, used_ridx, used_idx, devvars, platter, intr, panicked>>

virtio_disk_rw(b, op, d) ==
    /\ Unlocked /\ pc[b] = "idle"
    /\ buf' = [buf EXCEPT ![b] = IF op = "write" THEN d ELSE Garbage]
    /\ Start(b, op)

\* sleep(&disk.free[0]) returns.
retry(b) ==
    /\ Unlocked /\ pc[b] = "retry"
    /\ Start(b, want[b])
    /\ UNCHANGED buf

\* The condition of  while(b->disk == 1) sleep(b, ...).
NotAsked(b) == FALSE
InFlight(b) == bdisk[b] = 1

\* sleep(b) returns too early: a kill() ends it.
rewait(b) ==
    /\ Unlocked /\ pc[b] = "woken" /\ InFlight(b)
    /\ pc' = [pc EXCEPT ![b] = "wait"]
    /\ UNCHANGED <<descvars, ringvars, devvars, want, idx, bdisk, datavars, intr, panicked>>

\* sleep(b) returns and the request is finished: free_chain() and return.
finish(b) ==
    /\ Unlocked /\ pc[b] = "woken" /\ ~InFlight(b)
    /\ infob' = [infob EXCEPT ![idx[b]] = None]
    /\ panicked' = (Chain(idx[b]) \cap free # {})
    /\ free' = free \cup Chain(idx[b])
    /\ desc' = [i \in Desc |-> IF i \in Chain(idx[b]) THEN NoDesc ELSE desc[i]]
    /\ pc' = WakeFree([pc EXCEPT ![b] = "idle"])
    /\ want' = [want EXCEPT ![b] = "none"] /\ idx' = [idx EXCEPT ![b] = 0]
    /\ ops' = [ops EXCEPT ![idx[b]] = NoReq] /\ buf' = [buf EXCEPT ![b] = Garbage]
    /\ UNCHANGED <<status, ringvars, devvars, bdisk, platter, intr>>

\* kill(b) makes a sleeper runnable; it holds none of the locks here.
kill(b) ==
    /\ pc[b] \in {"wait", "nodesc"} /\ ~panicked
    /\ pc' = [pc EXCEPT ![b] = IF @ = "wait" THEN "woken" ELSE "retry"]
    /\ UNCHANGED <<descvars, ringvars, devvars, want, idx, bdisk, datavars, intr, panicked>>

(***************************************************************************)
(* virtio_disk_intr(), which the PLIC never runs twice at a time.          *)
(***************************************************************************)
\* acquire(&vdisk_lock), acknowledge the interrupt.
intr_ack ==
    /\ Unlocked /\ irq
    /\ irq' = FALSE
    /\ intr' = "loop"
    /\ UNCHANGED <<descvars, ringvars, seen, working, late, callvars, datavars, panicked>>

UsedNext == Incr(used_idx)

\* One turn of the loop over the used ring.
intr_loop ==
    /\ intr = "loop" /\ used_idx # used_ridx
    /\ LET id == used[used_idx % NUM]  x == infob[id] IN
         /\ panicked' = (status[id] # 0)
         /\ bdisk' = [bdisk EXCEPT ![x] = 0]
         /\ pc' = [pc EXCEPT ![x] = IF @ = "wait" THEN "woken" ELSE @]
    /\ used' = [used EXCEPT ![used_idx % NUM] = None]
    /\ used_idx' = UsedNext
    /\ UNCHANGED <<descvars, avail, avail_idx, used_ridx, devvars, want, idx, datavars, intr>>

\* The handler leaves its loop only when it has seen every entry.
DrainedOrNot == TRUE
Drained == used_idx = used_ridx

intr_end ==
    /\ intr = "loop" /\ Drained
    /\ intr' = "off"
    /\ UNCHANGED <<descvars, ringvars, devvars, callvars, datavars, panicked>>

(***************************************************************************)
(* The device.                                                             *)
(***************************************************************************)
\* It takes a request off the avail ring.
DevTake ==
    /\ seen # avail_idx
    /\ working' = working \cup {avail[seen % NUM]}
    /\ avail' = [avail EXCEPT ![seen % NUM] = None]
    /\ seen' = Incr(seen)
    /\ UNCHANGED <<descvars, avail_idx, used, used_ridx, used_idx, late, irq, callvars,
                   datavars, intr, panicked>>

\* It performs a request: follows the chain to the buffer and to the status byte,
\* transfers the data, and writes the used ring.
DevDone(h) ==
    LET x == desc[desc[h].next].addr
        s == desc[desc[desc[h].next].next].addr IN
    /\ h \in working
    /\ IF ops[h].op = "write"
         THEN platter' = [platter EXCEPT ![ops[h].sector] = buf[x]] /\ UNCHANGED buf
         ELSE buf' = [buf EXCEPT ![x] = platter[ops[h].sector]] /\ UNCHANGED platter
    /\ status' = [status EXCEPT ![s] = 0]
    /\ used' = [used EXCEPT ![used_ridx % NUM] = h]
    /\ used_ridx' = Incr(used_ridx)
    /\ working' = working \ {h}
    /\ late' = TRUE
    /\ UNCHANGED <<free, desc, ops, infob, avail, avail_idx, used_idx, seen, irq, callvars,
                   intr, panicked>>

\* It raises its interrupt for the entries it has written.
DevInterrupt ==
    /\ late
    /\ irq' = TRUE /\ late' = FALSE
    /\ UNCHANGED <<descvars, ringvars, seen, working, callvars, datavars, intr, panicked>>

Device == DevTake \/ (\E h \in Desc : DevDone(h)) \/ DevInterrupt
Handler == intr_ack \/ intr_loop \/ intr_end
Caller(b) == retry(b) \/ rewait(b) \/ finish(b)

Next ==
    \/ \E b \in Buf : virtio_disk_rw(b, "read", Garbage)
    \/ \E b \in Buf, d \in Data : virtio_disk_rw(b, "write", d)
    \/ \E b \in Buf : Caller(b) \/ kill(b)
    \/ Handler
    \/ Device

Spec == Init /\ [][Next]_vars

(***************************************************************************)
(* Properties.                                                             *)
(***************************************************************************)
TypeOK ==
    /\ free \subseteq Desc
    /\ desc \in [Desc -> [addr : Desc \cup Buf \cup {None}, next : Desc, more : BOOLEAN]]
    /\ ops \in [Desc -> [op : Op, sector : Buf \cup {None}]]
    /\ infob \in [Desc -> Buf \cup {None}] /\ status \in [Desc -> {0, 255}]
    /\ avail \in [Desc -> Desc \cup {None}] /\ avail_idx \in Idx
    /\ used \in [Desc -> Desc \cup {None}] /\ used_ridx \in Idx /\ used_idx \in Idx
    /\ intr \in {"off", "loop"} /\ late \in BOOLEAN /\ irq \in BOOLEAN
    /\ seen \in Idx /\ working \subseteq Desc
    /\ pc \in [Buf -> {"idle", "nodesc", "retry", "wait", "woken"}]
    /\ want \in [Buf -> Op]
    /\ idx \in [Buf -> Desc] /\ bdisk \in [Buf -> {0, 1}]
    /\ buf \in [Buf -> Data \cup {Garbage}] /\ platter \in [Buf -> Data]
    /\ panicked \in BOOLEAN

Submitted == {b \in Buf : pc[b] \in {"wait", "woken"}}

\* Descriptors are neither shared nor lost: the chains of the requests in flight are disjoint,
\* three long, and what they do not use is free.
ChainsPartition ==
    /\ free = Desc \ UNION {Chain(idx[b]) : b \in Submitted}
    /\ \A b, q \in Submitted : b # q => Chain(idx[b]) \cap Chain(idx[q]) = {}
    /\ \A b \in Submitted : Cardinality(Chain(idx[b])) = 3

\* Nobody sleeps for descriptors while there are three: free_desc() wakes every sleeper.
NoDescIsShort == (\E b \in Buf : pc[b] = "nodesc") => ~CanAlloc3

\* Neither free_desc() nor virtio_disk_intr() ever panics.
NeverPanics == ~panicked

\* No interrupt is lost, though the device goes on while the handler runs: as long as the
\* used ring has an entry the driver has not seen, the handler runs or will run.
UsedIsSeen == used_idx # used_ridx => intr = "loop" \/ irq \/ late

\* The chain heads in a ring from index i up to index j.
Entries(ring, i, j) == {ring[k % NUM] : k \in {(i + n) % WRAP : n \in 0 .. ((j - i) % WRAP) - 1}}

\* A caller asleep on its buffer is waited on: its request is on its way to the device, in
\* it, or on its way back, in exactly one of these places, and only those requests are.
SleeperAwaited ==
    LET coming == Entries(avail, seen, avail_idx)
        going  == Entries(used, used_idx, used_ridx) IN
    /\ {b \in Buf : pc[b] = "wait"} \subseteq {b \in Buf : bdisk[b] = 1}
    /\ {idx[b] : b \in {q \in Submitted : bdisk[q] = 1}} = coming \cup working \cup going
    /\ coming \cap working = {} /\ coming \cap going = {} /\ working \cap going = {}

\* No completion is lost between the device and the caller that sleeps for it: UsedIsSeen and
\* SleeperAwaited.
CompletionsReach == UsedIsSeen /\ SleeperAwaited

BD == INSTANCE BlockDevice WITH
        op <- want,
        done <- {b \in Submitted : status[idx[b]] = 0}

\* virtio_disk_rw() returns only after the device has performed this very request, whatever
\* the order in which the device finishes and however often kill() ends a sleep early.
PerformsRequest == BD!Spec
=============================================================================
