------------------------------- MODULE Bcache -------------------------------
(***************************************************************************)
(* The buffer cache (kernel/bio.c) with its sleep-locks                    *)
(* (kernel/sleeplock.c): bread, bwrite, brelse, bpin and bunpin.           *)
(*                                                                         *)
(* What runs under bcache.lock, and what runs under the spinlock inside a  *)
(* sleep-lock, is one step.  A disk transfer is one step: the process that *)
(* waits for it has the buffer locked.  A process has one buffer at a      *)
(* time.                                                                   *)
(*                                                                         *)
(* The callers are those of the log: a buffer that differs from its block  *)
(* is pinned before it is released (log_write), and unpinned once it is    *)
(* written (install_trans).                                                *)
(*                                                                         *)
(* A definition placed just before another one of its kind and named for   *)
(* what it gets wrong is a fault the properties are tested against; no     *)
(* action uses it.                                                         *)
(***************************************************************************)
EXTENDS Naturals, FiniteSets, SequencesExt

CONSTANTS
    Proc,
    Buf,        \* the NBUF buffers
    Block, Data,
    None,
    MaxPinned   \* blocks the log pins at a time

ASSUME BcacheAssumption ==
    /\ IsFiniteSet(Proc) /\ IsFiniteSet(Buf)
    /\ None \notin Proc \cup Buf \cup Block \cup Data
    /\ MaxPinned \in Nat

VARIABLES
    list,                      \* the list from bcache.head.next, most recently used first
    blockno, valid, refcnt,    \* struct buf; blockno None: the dev 0 of binit()
    data,
    locked,                    \* the sleep-lock's holder
    platter,                   \* the disk
    pinned,                    \* the blocks the log has pinned
    pc, ask, b,                \* processes: location, block asked for, struct buf *b
    panicked

bufvars == <<list, blockno, valid, refcnt>>
vars == <<bufvars, data, locked, platter, pinned, pc, ask, b, panicked>>

PC == {"idle", "lock", "asleep", "filling", "hold", "released"}

\* binit().
Init ==
    /\ list \in {s \in [1 .. Cardinality(Buf) -> Buf] : ToSet(s) = Buf}
    /\ blockno = [i \in Buf |-> None] /\ valid = [i \in Buf |-> FALSE]
    /\ refcnt = [i \in Buf |-> 0]
    /\ data = [i \in Buf |-> None] /\ locked = [i \in Buf |-> None]
    /\ platter \in [Block -> Data]
    /\ pinned = {}
    /\ pc = [p \in Proc |-> "idle"] /\ ask = [p \in Proc |-> None] /\ b = [p \in Proc |-> None]
    /\ panicked = FALSE

Goto(p, l) == pc' = [pc EXCEPT ![p] = l]

(***************************************************************************)
(* bget(), under bcache.lock.                                              *)
(***************************************************************************)
Cached(k) == {i \in Buf : blockno[i] = k}

\* The block is cached: one more reference, then acquiresleep().
bget_cached(p, k) ==
    /\ pc[p] = "idle" /\ ~panicked
    /\ \E i \in Cached(k) :
         /\ refcnt' = [refcnt EXCEPT ![i] = @ + 1]
         /\ b' = [b EXCEPT ![p] = i]
    /\ ask' = [ask EXCEPT ![p] = k]
    /\ Goto(p, "lock")
    /\ UNCHANGED <<list, blockno, valid, data, locked, platter, pinned, panicked>>

\* A buffer may be recycled when nobody refers to it.
UnlockedOnly(i) == locked[i] = None
Unused(i) == refcnt[i] = 0

\* The least recently used unused buffer: the last one of the list.
Victims == {n \in DOMAIN list : Unused(list[n])}

bget_recycle(p, k) ==
    /\ pc[p] = "idle" /\ ~panicked
    /\ Cached(k) = {}
    /\ \E n \in Victims : LET i == list[n] IN
         /\ \A m \in Victims : m <= n
         /\ blockno' = [blockno EXCEPT ![i] = k]
         /\ valid' = [valid EXCEPT ![i] = FALSE]
         /\ refcnt' = [refcnt EXCEPT ![i] = 1]
         /\ b' = [b EXCEPT ![p] = i]
    /\ ask' = [ask EXCEPT ![p] = k]
    /\ Goto(p, "lock")
    /\ UNCHANGED <<list, data, locked, platter, pinned, panicked>>

\* panic("bget: no buffers")
bget_panic(p, k) ==
    /\ pc[p] = "idle" /\ ~panicked
    /\ Cached(k) = {} /\ Victims = {}
    /\ panicked' = TRUE
    /\ UNCHANGED <<bufvars, data, locked, platter, pinned, pc, ask, b>>

(***************************************************************************)
(* acquiresleep(), releasesleep().                                         *)
(***************************************************************************)
acquiresleep(p) ==
    /\ pc[p] = "lock" /\ ~panicked
    /\ IF locked[b[p]] # None
         THEN Goto(p, "asleep") /\ UNCHANGED locked
         ELSE /\ locked' = [locked EXCEPT ![b[p]] = p]
              /\ Goto(p, IF valid[b[p]] THEN "hold" ELSE "filling")
    /\ UNCHANGED <<bufvars, data, platter, pinned, ask, b, panicked>>

\* A kill() ends the sleep early.
kill(p) ==
    /\ pc[p] = "asleep" /\ ~panicked
    /\ Goto(p, "lock")
    /\ UNCHANGED <<bufvars, data, locked, platter, pinned, ask, b, panicked>>

\* wakeup(lk).
WakeupNobody(i) == pc
Wakeup(i) == [q \in Proc |-> IF pc[q] = "asleep" /\ b[q] = i THEN "lock" ELSE pc[q]]

(***************************************************************************)
(* bread(), bwrite(), brelse(), bpin(), bunpin().                          *)
(***************************************************************************)
\* bread() of a buffer that is not valid.
FillFrom(p) == platter[blockno[b[p]]]

bread(p) ==
    /\ pc[p] = "filling" /\ ~panicked
    /\ data' = [data EXCEPT ![b[p]] = FillFrom(p)]
    /\ valid' = [valid EXCEPT ![b[p]] = TRUE]
    /\ Goto(p, "hold")
    /\ UNCHANGED <<list, blockno, refcnt, locked, platter, pinned, ask, b, panicked>>

\* A caller changes the data.
Modify(p, d) ==
    /\ pc[p] = "hold" /\ ~panicked
    /\ blockno[b[p]] \in pinned \/ Cardinality(pinned) < MaxPinned
    /\ data' = [data EXCEPT ![b[p]] = d]
    /\ UNCHANGED <<bufvars, locked, platter, pinned, pc, ask, b, panicked>>

\* bwrite() and brelse() panic unless the caller has the lock.
holdingsleep(p) == locked[b[p]] = p

bwrite(p) ==
    /\ pc[p] = "hold" /\ holdingsleep(p) /\ ~panicked
    /\ platter' = [platter EXCEPT ![blockno[b[p]]] = data[b[p]]]
    /\ UNCHANGED <<bufvars, data, locked, pinned, pc, ask, b, panicked>>

Same(p) == data[b[p]] = platter[blockno[b[p]]]

Pin(i) == [refcnt EXCEPT ![i] = @ + 1]

bpin(p) ==
    /\ pc[p] = "hold" /\ ~panicked
    /\ ask[p] \notin pinned /\ Cardinality(pinned) < MaxPinned
    /\ refcnt' = Pin(b[p])
    /\ pinned' = pinned \cup {ask[p]}
    /\ UNCHANGED <<list, blockno, valid, data, locked, platter, pc, ask, b, panicked>>

bunpin(p) ==
    /\ pc[p] = "hold" /\ ~panicked
    /\ ask[p] \in pinned /\ Same(p)
    /\ refcnt' = [refcnt EXCEPT ![b[p]] = @ - 1]
    /\ pinned' = pinned \ {ask[p]}
    /\ UNCHANGED <<list, blockno, valid, data, locked, platter, pc, ask, b, panicked>>

\* brelse() unlocks the buffer first ...
brelse(p) ==
    /\ pc[p] = "hold" /\ holdingsleep(p) /\ ~panicked
    /\ Same(p) \/ ask[p] \in pinned
    /\ locked' = [locked EXCEPT ![b[p]] = None]
    /\ pc' = [Wakeup(b[p]) EXCEPT ![p] = "released"]
    /\ UNCHANGED <<bufvars, data, platter, pinned, ask, b, panicked>>

\* ... and then, under bcache.lock, drops the reference; the last one moves the buffer to
\* the head of the list.
Kept(i) == refcnt
Dropped(i) == [refcnt EXCEPT ![i] = @ - 1]

\* The list with buffer i moved to its head, the others in their order.
ToFront(i) ==
    LET n == CHOOSE n \in DOMAIN list : list[n] = i
    IN [m \in DOMAIN list |-> IF m = 1 THEN i ELSE IF m <= n THEN list[m - 1] ELSE list[m]]

brelse_ref(p) ==
    /\ pc[p] = "released" /\ ~panicked
    /\ refcnt' = Dropped(b[p])
    /\ list' = IF refcnt'[b[p]] = 0 THEN ToFront(b[p]) ELSE list
    /\ b' = [b EXCEPT ![p] = None] /\ ask' = [ask EXCEPT ![p] = None]
    /\ Goto(p, "idle")
    /\ UNCHANGED <<blockno, valid, data, locked, platter, pinned, panicked>>

\* panic() loops for ever.
panic == panicked /\ UNCHANGED vars

Next ==
    \/ panic
    \/ \E p \in Proc, k \in Block : bget_cached(p, k) \/ bget_recycle(p, k) \/ bget_panic(p, k)
    \/ \E p \in Proc : acquiresleep(p) \/ kill(p) \/ bread(p) \/ bwrite(p)
    \/ \E p \in Proc : bpin(p) \/ bunpin(p) \/ brelse(p) \/ brelse_ref(p)
    \/ \E p \in Proc, d \in Data : Modify(p, d)

Spec == Init /\ [][Next]_vars

(***************************************************************************)
(* Properties.                                                             *)
(***************************************************************************)
TypeOK ==
    /\ list \in [1 .. Cardinality(Buf) -> Buf]
    /\ blockno \in [Buf -> Block \cup {None}] /\ valid \in [Buf -> BOOLEAN]
    /\ refcnt \in [Buf -> Nat]
    /\ data \in [Buf -> Data \cup {None}] /\ locked \in [Buf -> Proc \cup {None}]
    /\ platter \in [Block -> Data] /\ pinned \subseteq Block
    /\ pc \in [Proc -> PC] /\ ask \in [Proc -> Block \cup {None}]
    /\ b \in [Proc -> Buf \cup {None}]
    /\ panicked \in BOOLEAN

\* No block is cached twice, however many processes miss on it at the same time.
OneBufferPerBlock == \A k \in Block : Cardinality(Cached(k)) <= 1

\* refcnt counts the processes that have or wait for the buffer, and the log's pin: a buffer
\* that a process waits for is not recycled before the process has the lock.
RefcntExact ==
    \A i \in Buf : refcnt[i] = Cardinality({p \in Proc : b[p] = i}) +
                               (IF blockno[i] \in pinned THEN 1 ELSE 0)

\* Nobody sleeps for a lock that is free: releasesleep() misses no sleeper.
SleeperHasHolder == \A p \in Proc : pc[p] = "asleep" => locked[b[p]] # None

\* The cache's bookkeeping agrees with its users in every interleaving: OneBufferPerBlock,
\* RefcntExact and SleeperHasHolder.
BuffersInOrder == OneBufferPerBlock /\ RefcntExact /\ SleeperHasHolder

\* What whoever locks a block will find, and who has it locked.
Contents == [k \in Block |-> IF \E i \in Cached(k) : valid[i]
                               THEN data[CHOOSE i \in Cached(k) : valid[i]]
                               ELSE platter[k]]
Holder == [k \in Block |-> IF \E p \in Proc : pc[p] = "hold" /\ ask[p] = k
                             THEN CHOOSE p \in Proc : pc[p] = "hold" /\ ask[p] = k
                             ELSE None]

BL == INSTANCE Blocks WITH content <- Contents, disk <- platter, holder <- Holder

\* The cache is transparent: whoever locks a block finds what was last written to it, alone,
\* though its buffer may have been recycled in between or while it waited.
Transparent == BL!Spec
=============================================================================
