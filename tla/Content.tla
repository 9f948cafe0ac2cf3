------------------------------ MODULE Content -------------------------------
(***************************************************************************)
(* The contents of inodes: the bitmap of blocks, bmap(), readi(), writei() *)
(* and itrunc() of fs.c, called by fileread(), filewrite() and filestat()  *)
(* of file.c and by sys_open() with O_TRUNC, on the disk that mkfs makes.  *)
(*                                                                         *)
(* A step is what a process does while it holds the buffer of one block; a *)
(* locked inode has its holder in lock.  A block is what bread() shows     *)
(* (see Blocks); begin_op() and end_op() are counted here, and what they   *)
(* promise is in Log.  Space may run out, and a copy from or to a process  *)
(* may fail after any number of bytes.  The bytes of a failed copy are in  *)
(* a buffer that nobody logs, and are gone when it is recycled.            *)
(*                                                                         *)
(* A definition placed just before another one of its kind and named for   *)
(* what it gets wrong is a fault the properties are tested against.        *)
(***************************************************************************)
EXTENDS Mkfs, FiniteSets, TLC

CONSTANTS
    Proc, None,
    Tag,           \* the byte that a process writes, by process
    File,          \* open files
    ofile,         \* p->ofile: the open files of a process
    Ip,            \* the inode of an open file
    Writable,      \* the ones open for writing
    Sizes,         \* the lengths that calls ask for
    WORD,          \* the number of values of a uint
    MAXOPBLOCKS,
    MaxCalls       \* a bound on the calls of a behaviour

ASSUME ContentAssumption ==
    /\ Ip \in [File -> Inum] /\ ofile \in [Proc -> SUBSET File] /\ Writable \subseteq File /\ None \notin Proc
    /\ Tag \in [Proc -> Nat] /\ Sizes \subseteq Nat \ {0} /\ MAXOPBLOCKS \in Nat
    /\ \A n \in Sizes : MAXFILE * BSIZE + n < WORD

VARIABLES
    bitmap, blk, dinode,   \* the disk as the buffer cache shows it
    unlogged,              \* what the disk has of blocks with bytes that are not logged
    lh,                    \* log.lh: the blocks that the next commit writes
    inode, lock,           \* addrs and size of struct inode, and who holds ip->lock
    off,                   \* f->off
    outstanding,           \* log.outstanding
    th,                    \* what a process does
    panic,
    shown,                 \* a locked inode's bytes when it was locked
    calls

vars == <<bitmap, blk, dinode, unlogged, lh, inode, lock, off, outstanding, th, panic, shown, calls>>
log == <<unlogged, lh>>
disk == <<bitmap, blk, dinode, log>>

\* In a call: the file f, n bytes asked for, i of them done by earlier chunks; in this
\* chunk len bytes asked for, tot done (or -1), at their offset in the file; addr and k are
\* the block in use and the block of the bitmap; logged the blocks the operation wrote.
Idle == [pc |-> "user", op |-> "none", f |-> None, n |-> 0, i |-> 0, len |-> 0, tot |-> 0, at |-> 0,
         addr |-> 0, k |-> 0, todo |-> <<>>, got |-> <<>>, logged |-> {}]

\* Nobody has locked an inode.
Nothing == [shown |-> <<>>, kept |-> <<>>]

Init ==
    /\ bitmap = Bitmap /\ blk = Image.blk /\ dinode = Image.dinode
    /\ unlogged = <<>> /\ lh = {}
    /\ inode = Image.dinode /\ lock = [n \in Inum |-> None]
    /\ off = [f \in File |-> 0] /\ outstanding = 0
    /\ th = [p \in Proc |-> Idle] /\ panic = "" /\ shown = [n \in Inum |-> Nothing] /\ calls = 0

At(p, l) == panic = "" /\ th[p].pc = l
Goto(p, t) == th' = [th EXCEPT ![p] = t]
InodeOf(p) == Ip[th[p].f]

\* The bytes of an inode: as a read finds them now, and once all buffers are recycled.
Now == [blk |-> blk, dinode |-> inode]
BytesIn(x, n) == [j \in 1 .. inode[n].size |-> x[BlockOf(Now, n, (j - 1) \div BSIZE)][(j - 1) % BSIZE]]
Bytes(n) == [shown |-> BytesIn(blk, n), kept |-> BytesIn(unlogged @@ blk, n)]

\* log_write() of the blocks S: with a block all the bytes in its buffer are logged.
log_write(S) ==
    lh' = lh \cup S /\ unlogged' = [b \in DOMAIN unlogged \ S |-> unlogged[b]]

Logs(p, t, S) == Goto(p, [t EXCEPT !.logged = @ \cup S]) /\ log_write(S)

\* The first m bytes of a copy are in the buffer of b and not logged.  They are written all the same if b
\* is in the log already.
scribble(b, m) ==
    unlogged' = IF m = 0 \/ b \in lh THEN unlogged ELSE unlogged @@ b :> blk[b]

(***************************************************************************)
(* The beginning and the end of calls.                                     *)
(***************************************************************************)
Call(p, t) ==
    /\ At(p, "user") /\ calls < MaxCalls /\ calls' = calls + 1 /\ Goto(p, t)
    /\ UNCHANGED <<disk, inode, lock, off, outstanding, panic, shown>>

filewrite(p) == \E f \in Writable \cap ofile[p], n \in Sizes :
    Call(p, [Idle EXCEPT !.pc = "chunk", !.op = "write", !.f = f, !.n = n])
\* A length of -1 is the largest uint to readi(); filewrite() does nothing with it.
fileread(p) == \E f \in ofile[p], n \in Sizes \cup {WORD - 1} :
    Call(p, [Idle EXCEPT !.pc = "chunk", !.op = "read", !.f = f, !.n = n])
filestat(p) == \E f \in ofile[p] : Call(p, [Idle EXCEPT !.pc = "chunk", !.op = "stat", !.f = f])
open_trunc(p) == \E f \in Writable \cap ofile[p] : Call(p, [Idle EXCEPT !.pc = "chunk", !.op = "trunc", !.f = f])

InTrans(op) == op \in {"write", "trunc"}

\* begin_op() if the call changes the disk, ilock(), and on with t.
EvenIfLocked(n) == TRUE
Unlocked(n) == lock[n] = None
Enter(p, op, t) ==
    /\ At(p, "chunk") /\ th[p].op = op /\ Unlocked(InodeOf(p))
    /\ lock' = [lock EXCEPT ![InodeOf(p)] = p]
    /\ shown' = [shown EXCEPT ![InodeOf(p)] = Bytes(InodeOf(p))]
    /\ outstanding' = outstanding + (IF InTrans(op) THEN 1 ELSE 0)
    /\ Goto(p, t)
    /\ UNCHANGED <<disk, inode, off, panic, calls>>

\* A chunk that the log has room for.
MaxUnhalved == (MAXOPBLOCKS - 1 - 1 - 2) * BSIZE
MaxChunk == ((MAXOPBLOCKS - 1 - 1 - 2) \div 2) * BSIZE

Allowed(o, n1, size) == o <= size /\ (o + n1) % WORD >= o
writei_for(p, t, o, n1, size) ==
    Enter(p, "write", IF ~Allowed(o, n1, size) \/ (o + n1) % WORD > MAXFILE * BSIZE
                      THEN [t EXCEPT !.pc = "end", !.len = n1, !.tot = -1]
                      ELSE [t EXCEPT !.pc = "bmap", !.len = n1, !.tot = 0, !.at = o])
writei(p) ==
    LET t == th[p]
    IN writei_for(p, t, off[t.f], Min({t.n - t.i, MaxChunk}), inode[Ip[t.f]].size)

readi_for(p, t, o, size) ==
    Enter(p, "read", IF ~Allowed(o, t.n, size) \/ o = size THEN [t EXCEPT !.pc = "end"]
                     ELSE [t EXCEPT !.pc = "bmap", !.len = Min({t.n, size - o}), !.at = o])
readi(p) == readi_for(p, th[p], off[th[p].f], inode[InodeOf(p)].size)

stati(p) == Enter(p, "stat", [th[p] EXCEPT !.pc = "end", !.got = <<inode[InodeOf(p)].size>>])

\* The end: f->off, iunlock(), end_op(), and the next chunk of a write.
end_op(t) ==
    /\ outstanding' = outstanding - (IF InTrans(t.op) THEN 1 ELSE 0)
    /\ lh' = IF outstanding' = 0 THEN {} ELSE lh
More(t) == t.op = "write" /\ t.tot = t.len /\ t.i + t.tot < t.n
finish(p) ==
    LET t == th[p]
    IN /\ At(p, "end")
       /\ off' = [off EXCEPT ![t.f] = IF t.tot > 0 THEN @ + t.tot ELSE @]
       /\ lock' = [lock EXCEPT ![InodeOf(p)] = None]
       /\ shown' = [shown EXCEPT ![InodeOf(p)] = Nothing]
       /\ end_op(t)
       /\ Goto(p, IF More(t) THEN [Idle EXCEPT !.pc = "chunk", !.op = t.op, !.f = t.f, !.n = t.n, !.i = t.i + t.tot]
                  ELSE Idle)
       /\ UNCHANGED <<bitmap, blk, dinode, unlogged, inode, panic, calls>>

(***************************************************************************)
(* bmap() and balloc().                                                    *)
(***************************************************************************)
bmap_at(p, t, n, bn) ==
    IF bn >= MAXFILE THEN panic' = "bmap: out of range" /\ UNCHANGED th
    ELSE /\ Goto(p, IF BlockOf(Now, n, bn) # 0
                    THEN [t EXCEPT !.pc = "copy", !.addr = BlockOf(Now, n, bn)]
                    ELSE [t EXCEPT !.pc = "balloc", !.k = 0])
         /\ UNCHANGED panic
bmap(p) ==
    /\ At(p, "bmap") /\ bmap_at(p, th[p], InodeOf(p), th[p].at \div BSIZE)
    /\ UNCHANGED <<disk, inode, lock, off, outstanding, shown, calls>>

\* A new block b for block bn of inode n: the block itself, or first an indirect block.
bzero(x, b) == [x EXCEPT ![b] = Zeroes]
new_direct(p, n, j, b) ==
    /\ inode' = [inode EXCEPT ![n].addrs[j] = b] /\ blk' = bzero(blk, b)
    /\ Logs(p, [th[p] EXCEPT !.pc = "bmap"], {bmapstart + th[p].k, b})
new_entry(p, ind, j, b) ==
    /\ blk' = [bzero(blk, b) EXCEPT ![ind][j] = b] /\ UNCHANGED inode
    /\ Logs(p, [th[p] EXCEPT !.pc = "bmap"], {bmapstart + th[p].k, b, ind})
new_block(p, n, bn, b) ==
    /\ bitmap' = [bitmap EXCEPT ![b] = TRUE]
    /\ IF bn < NDIRECT THEN new_direct(p, n, bn, b)
       ELSE IF inode[n].addrs[NDIRECT] = 0 THEN new_direct(p, n, NDIRECT, b)
       ELSE new_entry(p, inode[n].addrs[NDIRECT], bn - NDIRECT, b)
    /\ UNCHANGED <<dinode, panic>>

\* After a loop that ends early or not.
After(t) == [t EXCEPT !.pc = IF t.op = "write" THEN "update" ELSE "end"]

FreeIn(k) == {b \in Block : b \div BPB = k /\ ~bitmap[b]}
balloc_in(p, t, free) ==
    IF free # {} /\ outstanding = 0
    THEN panic' = "log_write outside of trans" /\ UNCHANGED <<disk, inode, th>>
    ELSE IF free # {} THEN new_block(p, InodeOf(p), t.at \div BSIZE, Min(free))
    ELSE /\ Goto(p, IF (t.k + 1) * BPB < FSSIZE THEN [t EXCEPT !.k = @ + 1] ELSE After(t))
         /\ UNCHANGED <<disk, inode, panic>>
balloc(p) ==
    /\ At(p, "balloc") /\ balloc_in(p, th[p], FreeIn(th[p].k))
    /\ UNCHANGED <<lock, off, outstanding, shown, calls>>

(***************************************************************************)
(* The loops of readi() and writei(), and iupdate().                       *)
(***************************************************************************)
Left(t) == Min({t.len - t.tot, BSIZE - (t.at % BSIZE)})
Stepped(t, m) == [t EXCEPT !.pc = "bmap", !.tot = @ + m, !.at = @ + m, !.addr = 0]
Looped(t) == IF t.tot < t.len THEN t ELSE After(t)

\* The first m bytes of what is to be copied are in the buffer.
Filled(p, t, m) ==
    [j \in 0 .. BSIZE - 1 |-> IF j >= t.at % BSIZE /\ j < (t.at % BSIZE) + m THEN Tag[p] ELSE blk[t.addr][j]]

copyin(p) ==
    LET t == th[p]
    IN /\ At(p, "copy") /\ t.op = "write"
       /\ \/ /\ blk' = [blk EXCEPT ![t.addr] = Filled(p, t, Left(t))]
             /\ Logs(p, Looped(Stepped(t, Left(t))), {t.addr})
          \/ /\ \E m \in 0 .. Left(t) - 1 :
                   blk' = [blk EXCEPT ![t.addr] = Filled(p, t, m)] /\ scribble(t.addr, m)
             /\ Goto(p, After(t)) /\ UNCHANGED lh
       /\ UNCHANGED <<bitmap, dinode, inode, lock, off, outstanding, panic, shown, calls>>

copyout(p) ==
    LET t == th[p]
    IN /\ At(p, "copy") /\ t.op = "read"
       /\ \/ Goto(p, Looped(Stepped([t EXCEPT !.got = @ \o
                [j \in 1 .. Left(t) |-> blk[t.addr][(t.at % BSIZE) + j - 1]]], Left(t))))
          \/ Goto(p, After([t EXCEPT !.tot = -1, !.got = <<>>]))
       /\ UNCHANGED <<disk, inode, lock, off, outstanding, panic, shown, calls>>

IBLOCK(n) == inodestart + (n \div IPB)
iupdate(p, n, ip) ==
    /\ inode' = [inode EXCEPT ![n] = ip] /\ dinode' = [dinode EXCEPT ![n] = ip]
    /\ Logs(p, [th[p] EXCEPT !.pc = "end"], {IBLOCK(n)})

SizeAskedFor(size, t) == Max({size, t.at - t.tot + t.len})
NewSize(size, t) == IF t.at > size THEN t.at ELSE size
update(p) ==
    /\ At(p, "update")
    /\ iupdate(p, InodeOf(p), [inode[InodeOf(p)] EXCEPT !.size = NewSize(@, th[p])])
    /\ UNCHANGED <<bitmap, blk, lock, off, outstanding, panic, shown, calls>>

(***************************************************************************)
(* itrunc().                                                               *)
(***************************************************************************)
NonZero(s) == SelectSeq(s, LAMBDA b : b # 0)
Direct(ip) == NonZero([j \in 1 .. NDIRECT |-> ip.addrs[j - 1]])
EntriesOnly(ind) == NonZero([j \in 1 .. NINDIRECT |-> blk[ind][j - 1]])
Indirect(ind) == IF ind = 0 THEN <<>> ELSE NonZero([j \in 1 .. NINDIRECT |-> blk[ind][j - 1]]) \o <<ind>>

itrunc(p) ==
    Enter(p, "trunc", [th[p] EXCEPT !.pc = "free",
              !.todo = Direct(inode[InodeOf(p)]) \o Indirect(inode[InodeOf(p)].addrs[NDIRECT])])

bfree(p, t, b) ==
    IF bitmap[b]
    THEN /\ bitmap' = [bitmap EXCEPT ![b] = FALSE] /\ UNCHANGED panic
         /\ Logs(p, [t EXCEPT !.todo = Tail(@)], {bmapstart + (b \div BPB)})
    ELSE panic' = "freeing free block" /\ UNCHANGED <<bitmap, log, th>>
itrunc_free(p) ==
    /\ At(p, "free") /\ th[p].todo # <<>> /\ bfree(p, th[p], Head(th[p].todo))
    /\ UNCHANGED <<blk, dinode, inode, lock, off, outstanding, shown, calls>>

itrunc_end(p) ==
    /\ At(p, "free") /\ th[p].todo = <<>>
    /\ iupdate(p, InodeOf(p), [NoInode EXCEPT !.type = inode[InodeOf(p)].type])
    /\ UNCHANGED <<bitmap, blk, lock, off, outstanding, panic, shown, calls>>

(***************************************************************************)
(* bget() takes a buffer that is not pinned for another block.  The next   *)
(* bread() of b finds what is on the disk.                                 *)
(***************************************************************************)
recycle(b) ==
    /\ panic = "" /\ b \in DOMAIN unlogged
    /\ blk' = [blk EXCEPT ![b] = unlogged[b]] /\ unlogged' = [c \in DOMAIN unlogged \ {b} |-> unlogged[c]]
    /\ UNCHANGED <<bitmap, dinode, lh, inode, lock, off, outstanding, th, panic, shown, calls>>

Calls == \E p \in Proc :
    \/ filewrite(p) \/ fileread(p) \/ filestat(p) \/ open_trunc(p)
    \/ writei(p) \/ readi(p) \/ stati(p) \/ itrunc(p) \/ finish(p)
    \/ bmap(p) \/ balloc(p) \/ copyin(p) \/ copyout(p) \/ update(p)
    \/ itrunc_free(p) \/ itrunc_end(p)
Next == Calls \/ \E b \in Block : recycle(b)

Spec == Init /\ [][Next]_vars

(***************************************************************************)
(* Properties.                                                             *)
(***************************************************************************)
\* Where blocks are used: pairs of a place and a block.
PlacesOf(n, ind) ==
    {<<n, j, inode[n].addrs[j]>> : j \in 0 .. NDIRECT}
    \cup IF ind = 0 THEN {} ELSE {<<n, NDIRECT + 1 + j, blk[ind][j]>> : j \in 0 .. NINDIRECT - 1}
Freeing(n) == lock[n] # None /\ th[lock[n]].pc = "free"
Places(n) ==
    IF Freeing(n) THEN {<<n, j, th[lock[n]].todo[j]>> : j \in DOMAIN th[lock[n]].todo}
    ELSE PlacesOf(n, inode[n].addrs[NDIRECT])

\* However calls interleave, run out of space or fail in the middle, a block is marked in
\* the bitmap if and only if it has exactly one use (balloc(), bmap(), itrunc()); and when no
\* operation is outstanding, so that the log may commit, this is true of the inodes on disk.
BlocksExact ==
    /\ LET places == UNION {Places(n) : n \in Inum}
       IN \A b \in Block :
            Cardinality({x \in places : x[3] = b /\ b # 0}) = IF bitmap[b] /\ b >= nmeta THEN 1 ELSE 0
    /\ \A b \in 0 .. nmeta - 1 : bitmap[b]
    /\ outstanding = 0 => dinode = inode

\* The chunks of filewrite() are small enough: an operation never logs more blocks than
\* MAXOPBLOCKS, also when a write begins and ends inside blocks, needs an indirect block,
\* and each new block is in another block of the bitmap.
OpFits == \A p \in Proc : Cardinality(th[p].logged) <= MAXOPBLOCKS

\* No panic of fs.c or log.c is reached; in particular readi(), which runs outside of a
\* transaction, never finds a block missing and so never makes bmap() allocate one.
NeverPanics == panic = ""

Used == {Ip[f] : f \in File}
Files == INSTANCE ByteFiles WITH
    file   <- [n \in Used |-> IF lock[n] = None THEN Bytes(n) ELSE shown[n]],
    result <- [p \in Proc |-> IF th[p].pc = "end" THEN th[p].got ELSE <<>>],
    Inum <- Used, Byte <- {Tag[p] : p \in Proc}, Chunk <- MaxChunk, Unit <- BSIZE, MaxSize <- MAXFILE * BSIZE

\* The blocks of an inode behave as a sequence of bytes to all the files that are open on
\* it.  The bytes of a chunk that writei() counts are all written at once and stay; a read
\* returns bytes that were there at one moment.  Only of the block where either_copyin()
\* failed may bytes beyond those be seen, and they may vanish again one block at a time, also
\* under a reader's eyes, until a later write of the block makes them stay.
IsByteFiles == Files!Spec
=============================================================================
