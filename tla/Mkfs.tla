-------------------------------- MODULE Mkfs --------------------------------
(***************************************************************************)
(* The file system that mkfs/mkfs.c makes, as a function of the files it   *)
(* is given.  A block is a function from 0 .. BSIZE - 1: bytes and block   *)
(* numbers (of an indirect block) take one place each, and so does an      *)
(* entry of a directory, of which only the inode number is kept.  An image *)
(* is the contents of blocks and inodes and mkfs's two counters.           *)
(***************************************************************************)
EXTENDS Integers, Sequences, FiniteSetsExt

CONSTANTS
    BSIZE, NDIRECT,
    BPB,          \* bits of a block of the bitmap
    IPB,          \* inodes of a block
    FSSIZE, LOGSIZE, NINODES,
    MkfsFiles     \* the contents of the files that mkfs copies

NINDIRECT == BSIZE
MAXFILE == NDIRECT + NINDIRECT

nbitmap == (FSSIZE \div BPB) + 1
ninodeblocks == (NINODES \div IPB) + 1
nmeta == 2 + LOGSIZE + ninodeblocks + nbitmap
inodestart == 2 + LOGSIZE
bmapstart == inodestart + ninodeblocks

ROOTINO == 1
Block == 0 .. FSSIZE - 1
Inum == 1 .. NINODES - 1
Zeroes == [j \in 0 .. BSIZE - 1 |-> 0]

NoInode == [type |-> "free", size |-> 0, addrs |-> [j \in 0 .. NDIRECT |-> 0]]
Empty == [blk |-> [b \in Block |-> Zeroes], dinode |-> [n \in Inum |-> NoInode],
          freeblock |-> nmeta, freeinode |-> 1]

ialloc(img, type) ==
    [img EXCEPT !.dinode[img.freeinode] = [NoInode EXCEPT !.type = type], !.freeinode = @ + 1]

\* Block fbn of an inode, and the image once that block exists.
BlockOf(img, inum, fbn) ==
    IF fbn < NDIRECT THEN img.dinode[inum].addrs[fbn]
    ELSE img.blk[img.dinode[inum].addrs[NDIRECT]][fbn - NDIRECT]
with_direct(img, inum, j) ==
    IF img.dinode[inum].addrs[j] # 0 THEN img
    ELSE [img EXCEPT !.dinode[inum].addrs[j] = img.freeblock, !.freeblock = @ + 1]
with_entry(img, ind, j) ==
    IF img.blk[ind][j] # 0 THEN img
    ELSE [img EXCEPT !.blk[ind][j] = img.freeblock, !.freeblock = @ + 1]
with_indirect(img, inum, j) == with_entry(img, img.dinode[inum].addrs[NDIRECT], j)
with_block(img, inum, fbn) ==
    IF fbn < NDIRECT THEN with_direct(img, inum, fbn)
    ELSE with_indirect(with_direct(img, inum, NDIRECT), inum, fbn - NDIRECT)

\* A byte at the end of an inode; iappend() is its loop, a block at a time.
put(img, inum, off, x) ==
    [img EXCEPT !.blk[BlockOf(img, inum, off \div BSIZE)][off % BSIZE] = x, !.dinode[inum].size = off + 1]
append(img, inum, x) ==
    put(with_block(img, inum, img.dinode[inum].size \div BSIZE), inum, img.dinode[inum].size, x)
RECURSIVE iappend(_, _, _)
iappend(img, inum, s) == IF s = <<>> THEN img ELSE iappend(append(img, inum, Head(s)), inum, Tail(s))

\* A file: its inode, its entry in the root, its contents.
RECURSIVE add_files(_, _)
add_file(img, inum, s) == iappend(iappend(img, ROOTINO, <<inum>>), inum, s)
add_files(img, fs) ==
    IF fs = <<>> THEN img
    ELSE add_files(add_file(ialloc(img, "file"), img.freeinode, Head(fs)), Tail(fs))

\* The size of the root directory becomes a multiple of BSIZE.
RootSize(off) == ((off \div BSIZE) + 1) * BSIZE
fix_root(img) == [img EXCEPT !.dinode[ROOTINO].size = RootSize(@)]

Image == fix_root(add_files(iappend(ialloc(Empty, "dir"), ROOTINO, <<ROOTINO, ROOTINO>>), MkfsFiles))

\* The bitmap: mkfs's balloc() writes only its first block.
Bitmap == [b \in Block |-> b < Image.freeblock]

\* The asserts of mkfs; and a root directory whose last block is not full (the size
\* that fix_root() gives it would otherwise reach into a block that does not exist).
ASSUME MkfsAssumption ==
    /\ Image.freeinode <= NINODES /\ Image.freeblock < BPB /\ Image.freeblock <= FSSIZE
    /\ \A n \in Inum : Image.dinode[n].size <= MAXFILE * BSIZE
    /\ (2 + Len(MkfsFiles)) % BSIZE # 0
=============================================================================
