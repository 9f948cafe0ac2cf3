-------------------------------- MODULE Inode -------------------------------
(***************************************************************************)
(* Inodes, the table that caches them, directories and the system calls    *)
(* that make and remove names: kernel/fs.c from ialloc() to namex(), and   *)
(* open, mkdir, link, unlink, chdir and close of kernel/sysfile.c, run by  *)
(* processes concurrently.                                                 *)
(*                                                                         *)
(* A step is what a process does under one hold of itable.lock, of a block *)
(* of inodes, or of the sleep-lock of an inode, as long as the lock is not *)
(* kept; an inode that stays locked has its holder in lock.  The disk is   *)
(* what bread() shows: the log below makes each system call atomic with    *)
(* respect to crashes (see Log).  The contents of files are left out.      *)
(*                                                                         *)
(* A definition placed just before another one of its kind and named for   *)
(* what it gets wrong is a fault the properties are tested against; no     *)
(* action uses it.                                                         *)
(***************************************************************************)
EXTENDS Integers, Sequences, FiniteSets, FiniteSetsExt

CONSTANTS
    Proc,
    None,
    Name,
    NINODES,   \* inodes on the disk; number 1 is the root directory
    NINODE,    \* entries of itable
    Calls,     \* the system calls each process makes
    Path       \* the paths processes use: names and "..", after "/" if absolute

Op == {"open", "create", "mkdir", "unlink", "link", "chdir"}

ASSUME InodeAssumption ==
    /\ Calls \in [Proc -> SUBSET Op]
    /\ NINODES \in Nat \ {0} /\ NINODE \in Nat /\ NINODE >= NINODES
    /\ None \notin Proc \cup Nat
    /\ ".." \notin Name /\ "/" \notin Name
    /\ \A w \in Path : LET e == IF w[1] = "/" THEN Tail(w) ELSE w
                       IN  e \in Seq(Name \cup {".."}) \ {<<>>}

Inum == 1 .. NINODES
Slot == 1 .. NINODE
Entry == Name \cup {".."}
Root == 1

VARIABLES
    dinode,    \* the inodes on disk
    dir,       \* the contents of directories; 0 is no entry
    inode,     \* itable
    lock,      \* who holds ip->lock
    cwd, open, \* the current directory of a process, and the file it has open
    th         \* what a process does, and the references it holds meanwhile

vars == <<dinode, dir, inode, lock, cwd, open, th>>
disk == <<dinode, dir>>

Blank == [inum |-> 0, ref |-> 0, valid |-> FALSE, type |-> "free", nlink |-> 0]
NoEntries == [e \in Entry |-> 0]
Idle == [pc |-> "user", op |-> "none", path |-> <<>>, inum |-> 0, next |-> "none",
         at |-> None, ip |-> None, dp |-> None, rel |-> None]

\* The root directory made by mkfs; every process has looked up "/" as its directory.
Init ==
    /\ dinode = [n \in Inum |-> IF n = Root THEN [type |-> "dir", nlink |-> 1]
                                ELSE [type |-> "free", nlink |-> 0]]
    /\ dir = [n \in Inum |-> IF n = Root THEN [NoEntries EXCEPT ![".."] = Root] ELSE NoEntries]
    /\ inode = [s \in Slot |-> IF s = 1 THEN [Blank EXCEPT !.inum = Root, !.ref = Cardinality(Proc)]
                               ELSE Blank]
    /\ lock = [s \in Slot |-> None]
    /\ cwd = [p \in Proc |-> 1] /\ open = [p \in Proc |-> None]
    /\ th = [p \in Proc |-> Idle]

At(p, l) == th[p].pc = l

(***************************************************************************)
(* iget(), ilock(), iupdate().                                             *)
(***************************************************************************)
\* The entry of inode n in the table t, or the first empty one.
SlotAlwaysNew(t, n) == Min({s \in Slot : t[s].ref = 0})
SlotOf(t, n) ==
    LET hit == {s \in Slot : t[s].ref > 0 /\ t[s].inum = n}
    IN  IF hit # {} THEN Min(hit) ELSE Min({s \in Slot : t[s].ref = 0})

iget(t, n) ==
    [t EXCEPT ![SlotOf(t, n)] =
        IF @.ref > 0 THEN [@ EXCEPT !.ref = @ + 1] ELSE [Blank EXCEPT !.inum = n, !.ref = 1]]

\* The entry s once ilock() has read it from the disk.
LoadedOnce(s) == [inode[s] EXCEPT !.valid = TRUE]
Loaded(s) ==
    IF inode[s].valid THEN inode[s]
    ELSE LET d == dinode[inode[s].inum]
         IN  [inode[s] EXCEPT !.valid = TRUE, !.type = d.type, !.nlink = d.nlink]

\* ilock() panics on an inode without a type: such a process goes no further (NeverPanics).
Lockable(s) == lock[s] = None /\ Loaded(s).type # "free"
ilock(s) == [inode EXCEPT ![s] = Loaded(s)]

\* The table and the disk after entry s got nlink and iupdate().
Nlink(t, s, n) == [t EXCEPT ![s].nlink = n]
iupdate(d, t, s) == [d EXCEPT ![t[s].inum] = [type |-> t[s].type, nlink |-> t[s].nlink]]

\* The inode a directory names e, or 0; and the directories once n names e.
dirlookup(n, e) == dir[n][e]
dirlink(t, n, e, c) == [t EXCEPT ![n][e] = c]

(***************************************************************************)
(* iput(s), after which the process goes on at l.                          *)
(***************************************************************************)
\* What it needs no longer is forgotten.
Iput(p, r, s, l) ==
    LET q == IF l \in {"bad", "walk", "open", "link", "chdir"} THEN r ELSE [Idle EXCEPT !.ip = r.ip]
    IN  th' = [th EXCEPT ![p] = [q EXCEPT !.pc = "iput", !.rel = s, !.next = l]]

\* The entry s is to be freed on disk: its last reference, and no links.
LastIgnoringRef(s) == inode[s].valid /\ inode[s].nlink = 0
LastIgnoringLinks(s) == inode[s].ref = 1 /\ inode[s].valid
Last(s) == inode[s].ref = 1 /\ inode[s].valid /\ inode[s].nlink = 0

\* ref--; an entry without references says nothing any more.
Dropped(s) == [inode EXCEPT ![s] = IF @.ref = 1 THEN Blank ELSE [@ EXCEPT !.ref = @ - 1]]

\* Back at the caller of iput().
Continue(p) ==
    th' = [th EXCEPT ![p] = IF @.next = "user" THEN Idle
                            ELSE [@ EXCEPT !.pc = th[p].next, !.rel = None, !.next = "none"]]

iput(p) ==
    /\ At(p, "iput")
    /\ LET s == th[p].rel IN
         IF Last(s)
         THEN /\ lock[s] = None /\ lock' = [lock EXCEPT ![s] = p]
              /\ th' = [th EXCEPT ![p].pc = "itrunc"]
              /\ UNCHANGED inode
         ELSE inode' = Dropped(s) /\ Continue(p) /\ UNCHANGED lock
    /\ UNCHANGED <<disk, cwd, open>>

\* itrunc(), type = 0 and iupdate(): from here on ialloc() may take the inode.
itrunc(p) ==
    /\ At(p, "itrunc")
    /\ LET s == th[p].rel IN
         /\ inode' = [inode EXCEPT ![s].type = "free"]
         /\ dinode' = iupdate(dinode, inode', s)
         /\ dir' = [dir EXCEPT ![inode[s].inum] = NoEntries]
    /\ th' = [th EXCEPT ![p].pc = "ifreed"]
    /\ UNCHANGED <<lock, cwd, open>>

\* valid = 0 and releasesleep().
StillValid(s) == inode
Invalid(s) == [inode EXCEPT ![s].valid = FALSE, ![s].nlink = 0]

ifreed(p) ==
    /\ At(p, "ifreed")
    /\ inode' = Invalid(th[p].rel)
    /\ lock' = [lock EXCEPT ![th[p].rel] = None]
    /\ th' = [th EXCEPT ![p].pc = "idrop"]
    /\ UNCHANGED <<disk, cwd, open>>

idrop(p) ==
    /\ At(p, "idrop")
    /\ inode' = Dropped(th[p].rel) /\ Continue(p)
    /\ UNCHANGED <<disk, lock, cwd, open>>

\* iunlockput(dp) at the label bad of sys_unlink(), after a failed create(), and after a
\* dirlink() that found the name.
bad(p) ==
    /\ At(p, "bad")
    /\ lock' = [lock EXCEPT ![th[p].dp] = None]
    /\ Iput(p, [th[p] EXCEPT !.dp = None], th[p].dp,
            IF th[p].op = "link_new" THEN "link_undo" ELSE "user")
    /\ UNCHANGED <<disk, inode, cwd, open>>

(***************************************************************************)
(* namex().                                                                *)
(***************************************************************************)
\* Operations that look up the parent of the path.
Parent == {"create", "mkdir", "unlink", "link_new"}

\* The start of a walk along w, at the root or at the current directory.
Walk(p, r, t, w) ==
    LET absolute == w[1] = "/"
        s == IF absolute THEN SlotOf(t, Root) ELSE cwd[p]
    IN  /\ inode' = IF absolute THEN iget(t, Root) ELSE [t EXCEPT ![s].ref = @ + 1]
        /\ th' = [th EXCEPT ![p] = [r EXCEPT !.pc = "walk", !.at = s,
                                             !.path = IF absolute THEN Tail(w) ELSE w]]

syscall(p, o, w) ==
    /\ At(p, "user")
    /\ o \in {"open", "create"} => open[p] = None
    /\ Walk(p, [Idle EXCEPT !.op = o], inode, w)
    /\ UNCHANGED <<disk, lock, cwd, open>>

\* One element: the directory is locked, looked into, unlocked and put.
walk(p) ==
    /\ At(p, "walk") /\ Lockable(th[p].at)
    /\ LET r == th[p]
           s == r.at
           t == ilock(s)
           last == Tail(r.path) = <<>>
           c == dirlookup(t[s].inum, Head(r.path))
           off == [r EXCEPT !.at = None]
       IN  IF t[s].type = "dir" /\ r.op \in Parent /\ last
           THEN /\ inode' = t
                /\ th' = [th EXCEPT ![p] = [off EXCEPT !.pc = r.op, !.dp = s]]
           ELSE IF t[s].type # "dir" \/ c = 0
           THEN /\ inode' = t
                /\ Iput(p, off, s, IF r.op = "link_new" THEN "link_undo" ELSE "user")
           ELSE /\ inode' = iget(t, c)
                /\ Iput(p, IF last THEN [off EXCEPT !.ip = SlotOf(t, c), !.path = <<>>]
                           ELSE [off EXCEPT !.at = SlotOf(t, c), !.path = Tail(@)],
                        s, IF last THEN r.op ELSE "walk")
    /\ UNCHANGED <<disk, lock, cwd, open>>

(***************************************************************************)
(* sys_open(), sys_chdir() and the close of an open file.                  *)
(***************************************************************************)
\* ilock(ip) after namei() in sys_open(), or after create() found the name.
open_lock(p) ==
    /\ At(p, "open") /\ Lockable(th[p].ip)
    /\ LET s == th[p].ip  t == ilock(s) IN
         /\ inode' = t
         /\ IF th[p].op = "mkdir" \/ (th[p].op = "create" /\ t[s].type = "dir")
            THEN Iput(p, [th[p] EXCEPT !.ip = None], s, "user") /\ UNCHANGED lock
            ELSE /\ lock' = [lock EXCEPT ![s] = p]
                 /\ th' = [th EXCEPT ![p] = [Idle EXCEPT !.pc = "opened", !.ip = s]]
    /\ UNCHANGED <<disk, cwd, open>>

\* The file refers to the inode; or there is no file, or a directory opened for writing.
open_end(p, ok) ==
    /\ At(p, "opened")
    /\ lock' = [lock EXCEPT ![th[p].ip] = None]
    /\ IF ok THEN open' = [open EXCEPT ![p] = th[p].ip] /\ th' = [th EXCEPT ![p] = Idle]
       ELSE Iput(p, [th[p] EXCEPT !.ip = None], th[p].ip, "user") /\ UNCHANGED open
    /\ UNCHANGED <<disk, inode, cwd>>

fileclose(p) ==
    /\ At(p, "user") /\ open[p] # None
    /\ open' = [open EXCEPT ![p] = None]
    /\ Iput(p, Idle, open[p], "user")
    /\ UNCHANGED <<disk, inode, lock, cwd>>

chdir(p) ==
    /\ At(p, "chdir") /\ Lockable(th[p].ip)
    /\ LET s == th[p].ip  t == ilock(s) IN
         /\ inode' = t
         /\ IF t[s].type = "dir"
            THEN Iput(p, th[p], cwd[p], "chdir_end") /\ cwd' = [cwd EXCEPT ![p] = None]
            ELSE Iput(p, [th[p] EXCEPT !.ip = None], s, "user") /\ UNCHANGED cwd
    /\ UNCHANGED <<disk, lock, open>>

chdir_end(p) ==
    /\ At(p, "chdir_end")
    /\ cwd' = [cwd EXCEPT ![p] = th[p].ip]
    /\ th' = [th EXCEPT ![p] = Idle]
    /\ UNCHANGED <<disk, inode, lock, open>>

(***************************************************************************)
(* create().                                                               *)
(***************************************************************************)
create(p) ==
    /\ th[p].op \in {"create", "mkdir"} /\ At(p, th[p].op) /\ Lockable(th[p].dp)
    /\ LET s == th[p].dp  t == ilock(s)  c == dirlookup(t[s].inum, Head(th[p].path)) IN
         IF c # 0
         THEN /\ inode' = iget(t, c)
              /\ Iput(p, [th[p] EXCEPT !.dp = None, !.ip = SlotOf(t, c)], s, "open")
              /\ UNCHANGED lock
         ELSE /\ inode' = t /\ lock' = [lock EXCEPT ![s] = p]
              /\ th' = [th EXCEPT ![p].pc = "ialloc"]
    /\ UNCHANGED <<disk, cwd, open>>

\* The first free inode on disk becomes allocated.
ialloc(p) ==
    /\ At(p, "ialloc")
    /\ LET free == {n \in Inum : dinode[n].type = "free"}  n == Min(free) IN
         IF free = {} THEN th' = [th EXCEPT ![p].pc = "bad"] /\ UNCHANGED dinode
         ELSE /\ dinode' = [dinode EXCEPT ![n] =
                     [type |-> IF th[p].op = "mkdir" THEN "dir" ELSE "file", nlink |-> 0]]
              /\ th' = [th EXCEPT ![p].pc = "ialloc_get", ![p].inum = n]
    /\ UNCHANGED <<dir, inode, lock, cwd, open>>

ialloc_get(p) ==
    /\ At(p, "ialloc_get")
    /\ inode' = iget(inode, th[p].inum)
    /\ th' = [th EXCEPT ![p].pc = "create_ip", ![p].ip = SlotOf(inode, th[p].inum), ![p].inum = 0]
    /\ UNCHANGED <<disk, lock, cwd, open>>

\* The new inode gets its link, its entries and its name in dp; or dirlink() fails and the
\* inode is put without a link.
create_ip(p, ok) ==
    /\ At(p, "create_ip") /\ Lockable(th[p].ip)
    /\ LET s == th[p].ip  d == th[p].dp  isdir == th[p].op = "mkdir"
           n == inode[s].inum
           t == Nlink(ilock(s), s, IF ok THEN 1 ELSE 0)
           u == IF isdir THEN Nlink(t, d, t[d].nlink + 1) ELSE t
       IN  IF ok
           THEN /\ inode' = u
                /\ dinode' = iupdate(iupdate(dinode, u, s), u, d)
                /\ dir' = dirlink(IF isdir THEN dirlink(dir, n, "..", u[d].inum) ELSE dir,
                                  u[d].inum, Head(th[p].path), n)
                /\ lock' = [lock EXCEPT ![s] = p, ![d] = None]
                /\ Iput(p, [th[p] EXCEPT !.dp = None], d, IF isdir THEN "mkdir_end" ELSE "opened")
           ELSE /\ inode' = t /\ dinode' = iupdate(dinode, t, s)
                /\ Iput(p, [th[p] EXCEPT !.ip = None], s, "bad")
                /\ UNCHANGED <<dir, lock>>
    /\ UNCHANGED <<cwd, open>>

mkdir_end(p) ==
    /\ At(p, "mkdir_end")
    /\ lock' = [lock EXCEPT ![th[p].ip] = None]
    /\ Iput(p, [th[p] EXCEPT !.ip = None], th[p].ip, "user")
    /\ UNCHANGED <<disk, inode, cwd, open>>

(***************************************************************************)
(* sys_unlink().                                                           *)
(***************************************************************************)
unlink(p) ==
    /\ At(p, "unlink") /\ Lockable(th[p].dp)
    /\ LET s == th[p].dp  t == ilock(s)  e == Head(th[p].path)  c == dirlookup(t[s].inum, e) IN
         IF e = ".." \/ c = 0
         THEN /\ inode' = t
              /\ Iput(p, [th[p] EXCEPT !.dp = None], s, "user") /\ UNCHANGED lock
         ELSE /\ inode' = iget(t, c) /\ lock' = [lock EXCEPT ![s] = p]
              /\ th' = [th EXCEPT ![p].pc = "unlink_ip", ![p].ip = SlotOf(t, c)]
    /\ UNCHANGED <<disk, cwd, open>>

isdirempty(n) == \A e \in Name : dir[n][e] = 0

unlink_ip(p) ==
    /\ At(p, "unlink_ip") /\ Lockable(th[p].ip)
    /\ Loaded(th[p].ip).nlink >= 1   \* or panic
    /\ LET s == th[p].ip  d == th[p].dp
           t == ilock(s)
           isdir == t[s].type = "dir"
           u == IF isdir THEN Nlink(t, d, t[d].nlink - 1) ELSE t
       IN  IF isdir /\ ~isdirempty(t[s].inum)
           THEN /\ inode' = t
                /\ Iput(p, [th[p] EXCEPT !.ip = None], s, "bad")
                /\ UNCHANGED <<disk, lock>>
           ELSE /\ inode' = u
                /\ dinode' = iupdate(dinode, u, d)
                /\ dir' = dirlink(dir, u[d].inum, Head(th[p].path), 0)
                /\ lock' = [lock EXCEPT ![s] = p, ![d] = None]
                /\ Iput(p, [th[p] EXCEPT !.dp = None], d, "unlink_end")
    /\ UNCHANGED <<cwd, open>>

unlink_end(p) ==
    /\ At(p, "unlink_end")
    /\ LET s == th[p].ip IN
         /\ inode' = Nlink(inode, s, inode[s].nlink - 1)
         /\ dinode' = iupdate(dinode, inode', s)
         /\ lock' = [lock EXCEPT ![s] = None]
         /\ Iput(p, [th[p] EXCEPT !.ip = None], s, "user")
    /\ UNCHANGED <<dir, cwd, open>>

(***************************************************************************)
(* sys_link(): the link is counted first, then the name is made.           *)
(***************************************************************************)
link(p, w) ==
    /\ At(p, "link") /\ Lockable(th[p].ip)
    /\ LET s == th[p].ip  t == ilock(s)  u == Nlink(t, s, t[s].nlink + 1) IN
         IF t[s].type = "dir"
         THEN /\ inode' = t /\ Iput(p, [th[p] EXCEPT !.ip = None], s, "user")
              /\ UNCHANGED dinode
         ELSE /\ dinode' = iupdate(dinode, u, s)
              /\ Walk(p, [th[p] EXCEPT !.op = "link_new"], u, w)
    /\ UNCHANGED <<dir, lock, cwd, open>>

\* dirlink() in the new directory.
link_new(p, ok) ==
    /\ At(p, "link_new") /\ Lockable(th[p].dp)
    /\ LET s == th[p].dp  t == ilock(s)  e == Head(th[p].path)  c == dirlookup(t[s].inum, e) IN
         IF c # 0
         THEN /\ inode' = iget(t, c) /\ lock' = [lock EXCEPT ![s] = p]
              /\ Iput(p, th[p], SlotOf(t, c), "bad") /\ UNCHANGED dir
         ELSE /\ inode' = t
              /\ dir' = IF ok THEN dirlink(dir, t[s].inum, e, inode[th[p].ip].inum) ELSE dir
              /\ Iput(p, [th[p] EXCEPT !.dp = None], s, IF ok THEN "link_end" ELSE "link_undo")
              /\ UNCHANGED lock
    /\ UNCHANGED <<dinode, cwd, open>>

link_end(p) ==
    /\ At(p, "link_end")
    /\ Iput(p, [th[p] EXCEPT !.ip = None], th[p].ip, "user")
    /\ UNCHANGED <<disk, inode, lock, cwd, open>>

link_undo(p) ==
    /\ At(p, "link_undo") /\ Lockable(th[p].ip)
    /\ LET s == th[p].ip  t == ilock(s) IN
         /\ inode' = Nlink(t, s, t[s].nlink - 1)
         /\ dinode' = iupdate(dinode, inode', s)
         /\ Iput(p, [th[p] EXCEPT !.ip = None], s, "user")
    /\ UNCHANGED <<dir, lock, cwd, open>>

Next ==
    \/ \E p \in Proc, w \in Path : link(p, w) \/ \E o \in Calls[p] : syscall(p, o, w)
    \/ \E p \in Proc : iput(p) \/ itrunc(p) \/ ifreed(p) \/ idrop(p) \/ bad(p) \/ walk(p)
    \/ \E p \in Proc : open_lock(p) \/ fileclose(p) \/ chdir(p) \/ chdir_end(p)
    \/ \E p \in Proc : create(p) \/ ialloc(p) \/ ialloc_get(p) \/ mkdir_end(p)
    \/ \E p \in Proc : unlink(p) \/ unlink_ip(p) \/ unlink_end(p) \/ link_end(p) \/ link_undo(p)
    \/ \E p \in Proc, ok \in BOOLEAN : open_end(p, ok) \/ create_ip(p, ok) \/ link_new(p, ok)

Spec == Init /\ [][Next]_vars

(***************************************************************************)
(* Properties.                                                             *)
(***************************************************************************)
\* The pointers to entry s: current directories, open files, and those of system calls under way.
Pointers(s) ==
    {<<p, f>> \in Proc \X {"cwd", "open"} : (IF f = "cwd" THEN cwd[p] ELSE open[p]) = s}
        \cup {<<p, f>> \in Proc \X {"at", "ip", "dp", "rel"} : th[p][f] = s}

\* An inode has at most one entry in the table, and the entry counts exactly the pointers to
\* it: no system call, whichever way it returns, loses or drops a reference.
TableExact ==
    /\ \A s \in Slot : inode[s].ref = Cardinality(Pointers(s))
    /\ \A s, t \in Slot : inode[s].ref > 0 /\ inode[t].ref > 0 /\ inode[s].inum = inode[t].inum => s = t

\* "ref == 1 means no other process can have ip locked, so this acquiresleep() won't block":
\* iput() holds the spinlock itable.lock there.
IputWontBlock ==
    \A p \in Proc : At(p, "iput") /\ Last(th[p].rel) => lock[th[p].rel] = None

\* What the table says about an inode that nobody has locked is what the disk says, and an
\* inode in use is never free on disk.
CacheIsDisk ==
    \A s \in Slot : inode[s].valid /\ lock[s] = None =>
        /\ inode[s].type # "free"
        /\ dinode[inode[s].inum] = [type |-> inode[s].type, nlink |-> inode[s].nlink]

\* The names of inode n in all directories.
Names(n) == {<<d, e>> \in Inum \X Name : dir[d][e] = n}

\* A name leads to an allocated inode whose link count covers all its names.
LinksKeepInodes ==
    \A n \in Inum : Names(n) # {} =>
        dinode[n].type # "free" /\ dinode[n].nlink >= Cardinality(Names(n))

\* "If that was the last reference and the inode has no links to it, free the inode": an
\* allocated inode without links is still referred to, or just being allocated.
UnlinkedIsFreed ==
    \A n \in Inum : dinode[n].type # "free" /\ dinode[n].nlink = 0 =>
        \/ \E s \in Slot : inode[s].ref > 0 /\ inode[s].inum = n
        \/ \E p \in Proc : th[p].inum = n

\* The inode a process is about to lock.
Wanted(r) ==
    CASE r.pc = "walk" -> r.at
      [] r.pc \in {"open", "chdir", "create_ip", "unlink_ip", "link", "link_undo"} -> r.ip
      [] r.pc \in Parent -> r.dp
      [] OTHER -> None

\* Neither panic("ilock: no type") nor panic("unlink: nlink < 1"): whatever has been looked up
\* is allocated, and what is unlinked has a link.
NeverPanics ==
    \A p \in Proc : LET s == Wanted(th[p]) IN
        s # None /\ lock[s] = None =>
            /\ Loaded(s).type # "free"
            /\ At(p, "unlink_ip") => Loaded(s).nlink >= 1

\* Nothing that a name or a process still leads to is freed: LinksKeepInodes and NeverPanics.
UsedInodesStay == LinksKeepInodes /\ NeverPanics

\* The table has one entry for an inode in use, and a valid entry is what is on the disk:
\* TableExact and CacheIsDisk.
TableMirrorsDisk == TableExact /\ CacheIsDisk
=============================================================================
