-------------------------------- MODULE Log --------------------------------
(***************************************************************************)
(* The write-ahead log (kernel/log.c) over the buffer cache (kernel/bio.c) *)
(* and a disk that keeps its contents across crashes.                      *)
(*                                                                         *)
(* log.lock is a spinlock, so the code between acquire(&log.lock) and the  *)
(* matching release or sleep is one step.  commit() runs without it: every *)
(* bwrite() of commit() and of the recovery is two steps, the transfer and *)
(* its completion, and a crash between them leaves the block torn (a block *)
(* is two 512-byte sectors).  The header is the exception: its             *)
(* (1+LOGSIZE)*4 bytes lie in the first sector.                            *)
(*                                                                         *)
(* A definition placed just before another one of its kind and named for   *)
(* what it gets wrong (BpinForgotten before Bpin) is a fault the           *)
(* properties are tested against; no action uses it.                       *)
(***************************************************************************)
EXTENDS Integers, Sequences, FiniteSets, Functions

CONSTANTS
    Proc,         \* processes that make file-system calls
    Block,        \* home block numbers
    Data, Zero,   \* contents of a block; Zero is what mkfs writes
    Torn, None,   \* a half-written block; no block, no holder
    MAXOPBLOCKS,  \* the reservation per operation (param.h)
    LOGSIZE,      \* blocks the log is taken to hold (param.h)
    LogBlocks,    \* sb.nlog: blocks of the log on disk, header included
    OpBlocks      \* distinct blocks an operation really writes

ASSUME LogAssumption ==
    /\ IsFiniteSet(Proc)
    /\ Zero \in Data /\ Torn \notin Data /\ None \notin Data /\ None # Torn
    /\ None \notin Block /\ None \notin Proc
    /\ MAXOPBLOCKS \in Nat \ {0} /\ LOGSIZE \in Nat \ {0}
    /\ MAXOPBLOCKS <= LOGSIZE
    /\ LogBlocks \in Nat \ {0} /\ OpBlocks \in 1 .. MAXOPBLOCKS

VARIABLES
    home, logd, hdr,                    \* the disk: home blocks, log blocks, log header
    cache, pin, holder,                 \* per block: cached data, pins, lock holder
    lh, outstanding, committing, tail,  \* struct log, and the index of commit's loops
    pc, cur, used,                      \* per process: where it is, its buffer, blocks logged
    boot, panicked                      \* progress of recover_from_log(); the kernel's panic

diskvars  == <<home, logd, hdr>>
cachevars == <<cache, pin, holder>>
logvars   == <<lh, outstanding, committing, tail>>
procvars  == <<pc, cur, used>>
vars      == <<diskvars, cachevars, logvars, procvars, boot, panicked>>

Slots == 1 .. (LogBlocks - 1)
InOp  == {"op", "dirty", "logged"}
CommitPc == {"commit", "write_log", "write_log_io", "install", "install_io",
             "clear", "committed"}
PC == {"down", "idle", "reading", "begin", "asleep"} \cup InOp \cup CommitPc
Boot == {"read_head", "install", "install_io", "clear", "up"}

Init ==
    /\ home = [b \in Block |-> Zero]
    /\ logd = [i \in Slots |-> Zero]
    /\ hdr = <<>>
    /\ cache = [b \in Block |-> None]
    /\ pin = [b \in Block |-> 0]
    /\ holder = [b \in Block |-> None]
    /\ lh = <<>> /\ outstanding = 0 /\ committing = FALSE /\ tail = 0
    /\ pc = [p \in Proc |-> "down"]
    /\ cur = [p \in Proc |-> None]
    /\ used = [p \in Proc |-> {}]
    /\ boot = "read_head"
    /\ panicked = "no"

Running == boot = "up" /\ panicked = "no"
Goto(p, l) == pc' = [pc EXCEPT ![p] = l]

(***************************************************************************)
(* The buffer cache as the log uses it.                                    *)
(***************************************************************************)
\* The contents bread() returns: the cached ones, else the disk's.
BufData(b) == IF cache[b] = None THEN home[b] ELSE cache[b]

\* bread(): takes the buffer's sleep-lock and fills it from the disk if need be.
Bread(p, b) ==
    /\ holder[b] = None
    /\ holder' = [holder EXCEPT ![b] = p]

\* bpin() and bunpin() count, in the buffer's refcnt, the pins of block b.
Bpin(b)   == [pin EXCEPT ![b] = @ + 1]
BunpinForgotten(b) == pin
Bunpin(b) == [pin EXCEPT ![b] = @ - 1]

\* bget() recycles a buffer nobody holds or has pinned (refcnt == 0).
Evict(b) ==
    /\ cache[b] # None /\ pin[b] = 0 /\ holder[b] = None
    /\ ~(boot = "install_io" /\ b = lh[tail + 1]) /\ panicked = "no"
    /\ cache' = [cache EXCEPT ![b] = None]
    /\ UNCHANGED <<diskvars, pin, holder, logvars, procvars, boot, panicked>>

\* readi() outside any operation, as fileread() calls it.
Read(p, b) ==
    /\ Running /\ pc[p] = "idle"
    /\ Bread(p, b)
    /\ cache' = [cache EXCEPT ![b] = BufData(b)]
    /\ Goto(p, "reading") /\ cur' = [cur EXCEPT ![p] = b]
    /\ UNCHANGED <<diskvars, pin, logvars, used, boot, panicked>>

\* brelse() of the buffer p holds.
Brelse(p) ==
    /\ Running /\ pc[p] \in {"reading", "logged"}
    /\ holder' = [holder EXCEPT ![cur[p]] = None]
    /\ Goto(p, IF pc[p] = "reading" THEN "idle" ELSE "op")
    /\ cur' = [cur EXCEPT ![p] = None]
    /\ UNCHANGED <<diskvars, cache, pin, logvars, used, boot, panicked>>

(***************************************************************************)
(* begin_op(), log_write(), end_op().                                      *)
(***************************************************************************)
\* wakeup(&log): the sleepers go round the loop of begin_op() again.
WakeupNobody(q) == q
Wakeup(q) == [p \in Proc |-> IF q[p] = "asleep" THEN "begin" ELSE q[p]]

NoSpaceForOthers == Len(lh) + outstanding * MAXOPBLOCKS > LOGSIZE
NoSpace == Len(lh) + (outstanding + 1) * MAXOPBLOCKS > LOGSIZE
MustWaitForSpace == NoSpace
MustWait == committing \/ NoSpace

\* One turn of the loop of begin_op().
begin_op(p) ==
    /\ Running /\ pc[p] \in {"idle", "begin"}
    /\ IF MustWait
         THEN Goto(p, "asleep") /\ UNCHANGED outstanding
         ELSE Goto(p, "op") /\ outstanding' = outstanding + 1
    /\ UNCHANGED <<diskvars, cachevars, lh, committing, tail, cur, used, boot, panicked>>

\* A caller's  bp = bread(...); modify bp->data.  OpBlocks is the callers' discipline.
Modify(p, b, d) ==
    /\ Running /\ pc[p] = "op"
    /\ Cardinality(used[p] \cup {b}) <= OpBlocks
    /\ Bread(p, b)
    /\ cache' = [cache EXCEPT ![b] = d]
    /\ Goto(p, "dirty") /\ cur' = [cur EXCEPT ![p] = b]
    /\ UNCHANGED <<diskvars, pin, logvars, used, boot, panicked>>

TooBig == Len(lh) >= LOGSIZE \/ Len(lh) >= LogBlocks - 1

LogWritePanic ==
    IF TooBig THEN "too big a transaction"
    ELSE IF outstanding < 1 THEN "log_write outside of trans" ELSE "no"

\* log_write(): absorbs a block the transaction already has, else pins and appends it.
\* A panic keeps log.lock: nothing but a reboot follows.
log_write(p) ==
    /\ Running /\ pc[p] = "dirty"
    /\ panicked' = LogWritePanic
    /\ IF LogWritePanic # "no" \/ cur[p] \in Range(lh)
         THEN UNCHANGED <<lh, pin>>
         ELSE /\ pin' = Bpin(cur[p])
              /\ lh' = Append(lh, cur[p])
    /\ Goto(p, "logged")
    /\ used' = [used EXCEPT ![p] = @ \cup {cur[p]}]
    /\ UNCHANGED <<diskvars, cache, holder, outstanding, committing, tail, cur, boot>>

\* end_op(): the last outstanding operation commits, the others wake the sleepers.
\* (After its panic nothing but a reboot follows.)
end_op(p) ==
    /\ Running /\ pc[p] = "op"
    /\ outstanding' = outstanding - 1
    /\ used' = [used EXCEPT ![p] = {}]
    /\ panicked' = IF committing THEN "log committing" ELSE panicked
    /\ IF outstanding - 1 = 0
         THEN committing' = TRUE /\ Goto(p, "commit")
         ELSE UNCHANGED committing /\ pc' = Wakeup([pc EXCEPT ![p] = "idle"])
    /\ UNCHANGED <<diskvars, cachevars, lh, tail, cur, boot>>

(***************************************************************************)
(* commit(), by the process whose end_op() was the last.                   *)
(***************************************************************************)
TransactionOfSeveral == Len(lh) > 1
Transaction == Len(lh) > 0

commit(p) ==
    /\ Running /\ pc[p] = "commit"
    /\ Goto(p, IF Transaction THEN "write_log" ELSE "committed")
    /\ tail' = 0
    /\ UNCHANGED <<diskvars, cachevars, lh, outstanding, committing, cur, used, boot, panicked>>

\* write_log(): copy a block from the cache to the log and start the write ...
write_log(p) ==
    /\ Running /\ pc[p] = "write_log" /\ tail < Len(lh)
    /\ Bread(p, lh[tail + 1])
    /\ cache' = [cache EXCEPT ![lh[tail + 1]] = BufData(lh[tail + 1])]
    /\ logd' = [logd EXCEPT ![tail + 1] = Torn]
    /\ Goto(p, "write_log_io")
    /\ UNCHANGED <<home, hdr, pin, logvars, cur, used, boot, panicked>>

\* ... and the write completes, both buffers are released.
write_log_io(p) ==
    /\ Running /\ pc[p] = "write_log_io"
    /\ logd' = [logd EXCEPT ![tail + 1] = cache[lh[tail + 1]]]
    /\ holder' = [holder EXCEPT ![lh[tail + 1]] = None]
    /\ tail' = tail + 1
    /\ Goto(p, "write_log")
    /\ UNCHANGED <<home, hdr, cache, pin, lh, outstanding, committing, cur, used, boot, panicked>>

LogWrittenButOne == tail + 1 >= Len(lh)
LogWritten == tail = Len(lh)

\* write_head() after write_log(): the commit point.
write_head(p) ==
    /\ Running /\ pc[p] = "write_log" /\ LogWritten
    /\ hdr' = lh
    /\ tail' = 0
    /\ Goto(p, "install")
    /\ UNCHANGED <<home, logd, cachevars, lh, outstanding, committing, cur, used, boot, panicked>>

\* install_trans(0): copy a log block to its home buffer and start the write ...
install_trans(p) ==
    /\ Running /\ pc[p] = "install" /\ tail < Len(lh)
    /\ Bread(p, lh[tail + 1])
    /\ cache' = [cache EXCEPT ![lh[tail + 1]] = logd[tail + 1]]
    /\ home' = [home EXCEPT ![lh[tail + 1]] = Torn]
    /\ Goto(p, "install_io")
    /\ UNCHANGED <<logd, hdr, pin, logvars, cur, used, boot, panicked>>

\* ... and the write completes, the buffer is unpinned and released.
install_io(p) ==
    /\ Running /\ pc[p] = "install_io"
    /\ home' = [home EXCEPT ![lh[tail + 1]] = cache[lh[tail + 1]]]
    /\ pin' = Bunpin(lh[tail + 1])
    /\ holder' = [holder EXCEPT ![lh[tail + 1]] = None]
    /\ tail' = tail + 1
    /\ Goto(p, "install")
    /\ UNCHANGED <<logd, hdr, cache, lh, outstanding, committing, cur, used, boot, panicked>>

\* log.lh.n = 0, after the last block is installed.
reset_head(p) ==
    /\ Running /\ pc[p] = "install" /\ tail = Len(lh)
    /\ lh' = <<>>
    /\ Goto(p, "clear")
    /\ UNCHANGED <<diskvars, cachevars, outstanding, committing, tail, cur, used, boot, panicked>>

\* The second write_head(): erase the transaction from the log.
clear_head(p) ==
    /\ Running /\ pc[p] = "clear"
    /\ hdr' = lh
    /\ Goto(p, "committed")
    /\ UNCHANGED <<home, logd, cachevars, logvars, cur, used, boot, panicked>>

\* The end of end_op(), log.lock held again.
end_commit(p) ==
    /\ Running /\ pc[p] = "committed"
    /\ committing' = FALSE
    /\ pc' = Wakeup([pc EXCEPT ![p] = "idle"])
    /\ UNCHANGED <<diskvars, cachevars, lh, outstanding, tail, cur, used, boot, panicked>>

(***************************************************************************)
(* A crash loses everything but the disk.  Then the first process runs     *)
(* initlog() before any other process exists.                              *)
(***************************************************************************)
Crash ==
    /\ cache' = [b \in Block |-> None]
    /\ pin' = [b \in Block |-> 0]
    /\ holder' = [b \in Block |-> None]
    /\ lh' = <<>> /\ outstanding' = 0 /\ committing' = FALSE /\ tail' = 0
    /\ pc' = [p \in Proc |-> "down"]
    /\ cur' = [p \in Proc |-> None]
    /\ used' = [p \in Proc |-> {}]
    /\ boot' = "read_head"
    /\ panicked' = "no"
    /\ UNCHANGED diskvars

read_head ==
    /\ boot = "read_head"
    /\ lh' = hdr
    /\ tail' = 0
    /\ boot' = "install"
    /\ UNCHANGED <<diskvars, cachevars, outstanding, committing, procvars, panicked>>

\* install_trans(1): as install_trans(0), but nothing is pinned and nobody else runs.
recover_install ==
    /\ boot = "install" /\ tail < Len(lh)
    /\ cache' = [cache EXCEPT ![lh[tail + 1]] = logd[tail + 1]]
    /\ home' = [home EXCEPT ![lh[tail + 1]] = Torn]
    /\ boot' = "install_io"
    /\ UNCHANGED <<logd, hdr, pin, holder, logvars, procvars, panicked>>

recover_install_io ==
    /\ boot = "install_io"
    /\ home' = [home EXCEPT ![lh[tail + 1]] = cache[lh[tail + 1]]]
    /\ tail' = tail + 1
    /\ boot' = "install"
    /\ UNCHANGED <<logd, hdr, cachevars, lh, outstanding, committing, procvars, panicked>>

recover_reset ==
    /\ boot = "install" /\ tail = Len(lh)
    /\ lh' = <<>>
    /\ boot' = "clear"
    /\ UNCHANGED <<diskvars, cachevars, outstanding, committing, tail, procvars, panicked>>

recover_clear ==
    /\ boot = "clear"
    /\ hdr' = lh
    /\ boot' = "up"
    /\ pc' = [p \in Proc |-> "idle"]
    /\ UNCHANGED <<home, logd, cachevars, logvars, cur, used, panicked>>

Recovery == read_head \/ recover_install \/ recover_install_io \/ recover_reset \/ recover_clear

Committer(p) ==
    \/ commit(p) \/ write_log(p) \/ write_log_io(p) \/ write_head(p)
    \/ install_trans(p) \/ install_io(p) \/ reset_head(p) \/ clear_head(p) \/ end_commit(p)

Next ==
    \/ \E p \in Proc : begin_op(p) \/ log_write(p) \/ end_op(p)
    \/ \E p \in Proc : Committer(p) \/ Brelse(p)
    \/ \E p \in Proc, b \in Block : Read(p, b)
    \/ \E p \in Proc, b \in Block, d \in Data : Modify(p, b, d)
    \/ \E b \in Block : Evict(b)
    \/ Recovery
    \/ Crash

Spec == Init /\ [][Next]_vars

\* Every process that is past the start of a call is scheduled again and again,
\* and a call makes finitely many writes before its end_op().
Fairness ==
    /\ WF_vars(Recovery)
    /\ \A p \in Proc :
         /\ WF_vars(Brelse(p) \/ log_write(p) \/ Committer(p))
         /\ WF_vars(pc[p] = "begin" /\ begin_op(p))
         /\ SF_vars(end_op(p))

FairSpec == Spec /\ Fairness

(***************************************************************************)
(* Properties.                                                             *)
(***************************************************************************)
TypeOK ==
    /\ home \in [Block -> Data \cup {Torn}]
    /\ logd \in [Slots -> Data \cup {Torn}]
    /\ hdr \in Seq(Block)
    /\ cache \in [Block -> Data \cup {Torn, None}]
    /\ pin \in [Block -> Nat]
    /\ holder \in [Block -> Proc \cup {None}]
    /\ lh \in Seq(Block) /\ outstanding \in Nat
    /\ committing \in BOOLEAN /\ tail \in Nat
    /\ pc \in [Proc -> PC]
    /\ cur \in [Proc -> Block \cup {None}]
    /\ used \in [Proc -> SUBSET Block]
    /\ boot \in Boot
    /\ panicked \in {"no", "too big a transaction", "log_write outside of trans",
                     "log committing"}

\* What recover_from_log() would leave on the disk if the machine stopped now.
Recovered ==
    [b \in Block |-> IF b \in Range(hdr)
                       THEN logd[CHOOSE i \in DOMAIN hdr : hdr[i] = b]
                       ELSE home[b]]

\* What a process that reads block b through the cache sees.
Contents == [b \in Block |-> BufData(b)]

Active == {p \in Proc : pc[p] \in InOp}

AD == INSTANCE AtomicDisk WITH
        mem <- IF boot = "up" THEN Contents ELSE Recovered,
        stable <- Recovered,
        open <- Active

\* The log makes operations atomic across crashes: whenever the machine stops, recovery
\* leaves the disk as it was after some set of whole operations, the same set readers saw.
CrashAtomic == AD!Spec

\* log.c:12-16: a transaction is committed only while no FS system call is active, so a
\* half-finished call is never written; outstanding is exactly the number of active calls.
CommitAlone ==
    /\ committing => Active = {}
    /\ outstanding = Cardinality(Active)
    /\ Cardinality({p \in Proc : pc[p] \in CommitPc}) = IF committing THEN 1 ELSE 0

\* When the last outstanding end_op() has returned, everything that was written is on the
\* disk for good: a crash from here on loses nothing.
IdleIsDurable ==
    Running /\ outstanding = 0 /\ ~committing => Contents = Recovered

\* log_write() pins a block once per transaction and install_trans() drops exactly that pin:
\* no logged block can leave the cache before it is installed, no pin outlives its commit.
PinnedIffLogged ==
    Running => \A b \in Block :
        pin[b] = Cardinality({i \in DOMAIN lh : /\ lh[i] = b
            /\ i > IF \E p \in Proc : pc[p] \in {"install", "install_io"} THEN tail ELSE 0})

\* What the active calls may still add to the transaction: MAXOPBLOCKS each, less the
\* blocks they have logged.
Reserved == {r \in Active \X (1 .. MAXOPBLOCKS) : r[2] > Cardinality(used[r[1]])}

\* begin_op() admits a call only if the log can take all that every active call may still
\* write, on top of what it holds: the log never outgrows LOGSIZE.
SpaceReserved ==
    Running /\ ~committing => Len(lh) + Cardinality(Reserved) <= LOGSIZE

\* The space begin_op() reserves is enough: no call meets a panic of log.c.
NeverPanics == panicked = "no"

\* Calls that run together fit in the log together: SpaceReserved and NeverPanics.
OperationsFit == SpaceReserved /\ NeverPanics

\* A sleep-lock is not fair: reads outside operations that never stop can keep the
\* committer from a buffer for ever.
ReadersNeverStop == []<>(\E p \in Proc : pc[p] = "reading")

\* Whoever sleeps in begin_op() is woken by an end_op() or by the end of the commit: no
\* wakeup(&log) is missed.
WokenUp == ReadersNeverStop \/ \A p \in Proc : pc[p] = "asleep" ~> pc[p] # "asleep"
=============================================================================
