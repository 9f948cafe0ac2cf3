-------------------------------- MODULE Pipe --------------------------------
(***************************************************************************)
(* Pipes (kernel/pipe.c) and the open files that refer to them             *)
(* (kernel/file.c): sys_pipe, pipewrite, piperead, filedup by fork(),      *)
(* fileclose and pipeclose, by processes that may be killed at any time.   *)
(*                                                                         *)
(* pi->lock is held over many steps, since kill() does not take it: the    *)
(* loops are modelled byte by byte.  What runs under ftable.lock is one    *)
(* step.  There is one page for a pipe; it is allocated again after it has *)
(* been freed.                                                             *)
(*                                                                         *)
(* A definition placed just before another one of its kind and named for   *)
(* what it gets wrong is a fault the properties are tested against; no     *)
(* action uses it.                                                         *)
(***************************************************************************)
EXTENDS Integers, FiniteSets

CONSTANTS
    Proc,
    first,     \* the process that exists at the start
    None,
    Byte,
    NFILE,     \* entries of ftable
    PIPESIZE,
    WRAP,      \* the range of nread and nwrite: 2^32 in the code
    N          \* the bytes a process asks to write or to read

ASSUME PipeAssumption ==
    /\ IsFiniteSet(Proc) /\ first \in Proc /\ None \notin Proc \cup Nat
    /\ NFILE \in Nat /\ NFILE >= 2
    /\ PIPESIZE \in Nat \ {0} /\ WRAP \in Nat /\ WRAP > PIPESIZE /\ WRAP % PIPESIZE = 0
    /\ N \in Nat \ {0}

File == 1 .. NFILE
End  == {"r", "w"}

VARIABLES
    ref,               \* ftable: the count of each open file
    fd,                \* the open file of each process for each end of the pipe
    alloc,             \* the page of the pipe is allocated
    lock,              \* who holds pi->lock
    data, nread, nwrite,
    readopen, writeopen,
    killed,
    pc, i              \* processes: location and loop variable

pipevars == <<data, nread, nwrite, readopen, writeopen>>
filevars == <<ref, fd>>
vars == <<filevars, alloc, lock, pipevars, killed, pc, i>>

Writing == {"write", "write_byte", "write_end"}
Reading == {"read", "read_sleep", "copy", "read_end"}
Asleep  == {"w_asleep", "r_asleep"}
Woken   == {"w_woken", "r_woken"}
PC == {"unborn", "user", "close_r", "close_w", "dead"} \cup Writing \cup Reading \cup Asleep \cup Woken

NoFds == [e \in End |-> None]

Init ==
    /\ ref = [f \in File |-> 0]
    /\ fd = [p \in Proc |-> NoFds]
    /\ alloc = FALSE /\ lock = None
    /\ data = [k \in 0 .. PIPESIZE - 1 |-> None] /\ nread = 0 /\ nwrite = 0
    /\ readopen = FALSE /\ writeopen = FALSE
    /\ killed = [p \in Proc |-> FALSE]
    /\ pc = [p \in Proc |-> IF p = first THEN "user" ELSE "unborn"]
    /\ i = [p \in Proc |-> 0]

Goto(p, l) == pc' = [pc EXCEPT ![p] = l]
Incr(k) == (k + 1) % WRAP

\* wakeup(&pi->nread) and wakeup(&pi->nwrite), in the locations q.
WakeNobody(q) == q
WakeReaders(q) == [p \in Proc |-> IF q[p] = "r_asleep" THEN "r_woken" ELSE q[p]]
WakeWriters(q) == [p \in Proc |-> IF q[p] = "w_asleep" THEN "w_woken" ELSE q[p]]

Empty == nread = nwrite
FullNoWrap == nwrite = nread + PIPESIZE
Full  == nwrite = (nread + PIPESIZE) % WRAP

(***************************************************************************)
(* The open files.  A system call of a killed process is not carried out:  *)
(* usertrap() makes it exit, which closes its files.                       *)
(***************************************************************************)
Syscall(p) == pc[p] = "user" /\ ~killed[p]
FreeFiles == {f \in File : ref[f] = 0}

\* The new pipe.
pipealloc ==
    /\ ~alloc /\ alloc' = TRUE
    /\ readopen' = TRUE /\ writeopen' = TRUE /\ nread' = 0 /\ nwrite' = 0
    /\ UNCHANGED data

fdalloc(p, f0, f1) == fd' = [fd EXCEPT ![p] = [e \in End |-> IF e = "r" THEN f0 ELSE f1]]
argfd(p, e) == fd[p][e]

\* The first two free files, the pipe and two descriptors.  (When one of them cannot be had, what was
\* allocated is closed again.)
sys_pipe(p) ==
    /\ Syscall(p) /\ fd[p] = NoFds
    /\ \E f0 \in FreeFiles, f1 \in FreeFiles :
         /\ f0 < f1 /\ \A f \in FreeFiles \ {f0} : f1 <= f
         /\ ref' = [ref EXCEPT ![f0] = 1, ![f1] = 1] /\ fdalloc(p, f0, f1)
    /\ pipealloc
    /\ UNCHANGED <<lock, killed, pc, i>>

\* filedup() of every open file.
NotDupped(p) == ref
Dupped(p) == [f \in File |-> ref[f] + Cardinality({e \in End : fd[p][e] = f})]

fork(p, q) ==
    /\ Syscall(p) /\ pc[q] = "unborn"
    /\ ref' = Dupped(p)
    /\ fd' = [fd EXCEPT ![q] = fd[p]]
    /\ Goto(q, "user")
    /\ UNCHANGED <<alloc, lock, pipevars, killed, i>>

\* fileclose(), called or by exit(); the last reference goes on to pipeclose().
fileclose(p, e) ==
    /\ pc[p] = "user" /\ fd[p][e] # None
    /\ ref' = [ref EXCEPT ![fd[p][e]] = @ - 1]
    /\ fd' = [fd EXCEPT ![p][e] = None]
    /\ IF ref[fd[p][e]] - 1 > 0 THEN UNCHANGED pc
       ELSE Goto(p, IF e = "r" THEN "close_r" ELSE "close_w")
    /\ UNCHANGED <<alloc, lock, pipevars, killed, i>>

\* When pipeclose() frees the page: both ends are closed.
FreesAtFirst(r, w) == ~r \/ ~w
Frees(r, w) == ~r /\ ~w

pipeclose(p) ==
    /\ pc[p] \in {"close_r", "close_w"} /\ lock = None
    /\ readopen' = (readopen /\ pc[p] # "close_r")
    /\ writeopen' = (writeopen /\ pc[p] # "close_w")
    /\ pc' = LET q == [pc EXCEPT ![p] = "user"]
             IN  IF pc[p] = "close_w" THEN WakeReaders(q) ELSE WakeWriters(q)
    /\ alloc' = (alloc /\ ~Frees(readopen', writeopen'))
    /\ UNCHANGED <<filevars, lock, data, nread, nwrite, killed, i>>

exit(p) ==
    /\ pc[p] = "user" /\ fd[p] = NoFds
    /\ Goto(p, "dead")
    /\ UNCHANGED <<filevars, alloc, lock, pipevars, killed, i>>

\* kill() wakes a sleeper; it does not take pi->lock.
kill(p) ==
    /\ pc[p] \notin {"unborn", "dead"} /\ ~killed[p]
    /\ killed' = [killed EXCEPT ![p] = TRUE]
    /\ Goto(p, CASE pc[p] = "r_asleep" -> "r_woken"
                 [] pc[p] = "w_asleep" -> "w_woken"
                 [] OTHER -> pc[p])
    /\ UNCHANGED <<filevars, alloc, lock, pipevars, i>>

(***************************************************************************)
(* pipewrite().                                                            *)
(***************************************************************************)
\* sys_write() and filewrite() on the end that is writable.
filewrite(p) == Syscall(p) /\ argfd(p, "w") # None

pipewrite(p) ==
    /\ \/ filewrite(p) /\ i' = [i EXCEPT ![p] = 0]
       \/ pc[p] = "w_woken" /\ UNCHANGED i
    /\ lock = None /\ lock' = p
    /\ Goto(p, "write")
    /\ UNCHANGED <<filevars, alloc, pipevars, killed>>

\* The head of the loop: done, or nobody can read, or killed(pr), or a byte to write.
write_loop(p) ==
    /\ pc[p] = "write"
    /\ CASE i[p] = N -> Goto(p, "write_end") /\ UNCHANGED <<lock, i>>
         [] i[p] < N /\ (~readopen \/ killed[p]) ->
              Goto(p, "user") /\ lock' = None /\ i' = [i EXCEPT ![p] = 0]
         [] OTHER -> Goto(p, "write_byte") /\ UNCHANGED <<lock, i>>
    /\ UNCHANGED <<filevars, alloc, pipevars, killed>>

\* The pipe is full: wake the readers and sleep.
write_full(p) ==
    /\ pc[p] = "write_byte" /\ Full
    /\ pc' = [WakeReaders(pc) EXCEPT ![p] = "w_asleep"]
    /\ lock' = None
    /\ UNCHANGED <<filevars, alloc, pipevars, killed, i>>

write_byte(p, c) ==
    /\ pc[p] = "write_byte" /\ ~Full
    /\ data' = [data EXCEPT ![nwrite % PIPESIZE] = c]
    /\ nwrite' = Incr(nwrite)
    /\ i' = [i EXCEPT ![p] = @ + 1]
    /\ Goto(p, "write")
    /\ UNCHANGED <<filevars, alloc, lock, nread, readopen, writeopen, killed>>

\* copyin() fails.
write_fault(p) ==
    /\ pc[p] = "write_byte" /\ ~Full
    /\ Goto(p, "write_end")
    /\ UNCHANGED <<filevars, alloc, lock, pipevars, killed, i>>

write_end(p) ==
    /\ pc[p] = "write_end"
    /\ pc' = [WakeReaders(pc) EXCEPT ![p] = "user"]
    /\ lock' = None
    /\ i' = [i EXCEPT ![p] = 0]
    /\ UNCHANGED <<filevars, alloc, pipevars, killed>>

(***************************************************************************)
(* piperead().                                                             *)
(***************************************************************************)
\* sys_read() and fileread() on the end that is readable.
fileread(p) == Syscall(p) /\ argfd(p, "r") # None

piperead(p) ==
    /\ fileread(p) \/ pc[p] = "r_woken"
    /\ lock = None /\ lock' = p
    /\ Goto(p, "read")
    /\ UNCHANGED <<filevars, alloc, pipevars, killed, i>>

\* The head of the loop that waits for data.
read_loop(p) ==
    /\ pc[p] = "read"
    /\ CASE ~Empty \/ ~writeopen -> Goto(p, "copy") /\ UNCHANGED lock
         [] Empty /\ writeopen /\ killed[p] -> Goto(p, "user") /\ lock' = None
         [] OTHER -> Goto(p, "read_sleep") /\ UNCHANGED lock
    /\ UNCHANGED <<filevars, alloc, pipevars, killed, i>>

\* sleep(&pi->nread, &pi->lock), after the check of killed(pr).
read_sleep(p) ==
    /\ pc[p] = "read_sleep"
    /\ Goto(p, "r_asleep")
    /\ lock' = None
    /\ UNCHANGED <<filevars, alloc, pipevars, killed, i>>

\* One byte; when copyout() fails the byte is gone and the loop ends.
read_byte(p, ok) ==
    /\ pc[p] = "copy" /\ i[p] < N /\ ~Empty
    /\ nread' = Incr(nread)
    /\ i' = [i EXCEPT ![p] = @ + 1]
    /\ Goto(p, IF ok THEN "copy" ELSE "read_end")
    /\ UNCHANGED <<filevars, alloc, lock, data, nwrite, readopen, writeopen, killed>>

read_end(p) ==
    /\ pc[p] = "read_end" \/ (pc[p] = "copy" /\ (i[p] = N \/ Empty))
    /\ pc' = [WakeWriters(pc) EXCEPT ![p] = "user"]
    /\ lock' = None
    /\ i' = [i EXCEPT ![p] = 0]
    /\ UNCHANGED <<filevars, alloc, pipevars, killed>>

Writer(p) ==
    \/ pipewrite(p) \/ write_loop(p) \/ write_full(p) \/ write_fault(p) \/ write_end(p)
    \/ \E c \in Byte : write_byte(p, c)
Reader(p) ==
    \/ piperead(p) \/ read_loop(p) \/ read_sleep(p) \/ read_end(p)
    \/ \E ok \in BOOLEAN : read_byte(p, ok)

Next ==
    \/ \E p \in Proc : sys_pipe(p) \/ pipeclose(p) \/ exit(p) \/ kill(p)
    \/ \E p \in Proc, e \in End : fileclose(p, e)
    \/ \E p, q \in Proc : fork(p, q)
    \/ \E p \in Proc : Writer(p) \/ Reader(p)

Spec == Init /\ [][Next]_vars

(***************************************************************************)
(* Properties.                                                             *)
(***************************************************************************)
TypeOK ==
    /\ ref \in [File -> Nat] /\ fd \in [Proc -> [End -> File \cup {None}]]
    /\ alloc \in BOOLEAN /\ lock \in Proc \cup {None}
    /\ data \in [0 .. PIPESIZE - 1 -> Byte \cup {None}]
    /\ nread \in 0 .. WRAP - 1 /\ nwrite \in 0 .. WRAP - 1
    /\ readopen \in BOOLEAN /\ writeopen \in BOOLEAN
    /\ killed \in [Proc -> BOOLEAN] /\ pc \in [Proc -> PC] /\ i \in [Proc -> 0 .. N]

\* Who still refers to an end of the pipe.
Refers(p, e) == fd[p][e] # None \/ pc[p] = (IF e = "r" THEN "close_r" ELSE "close_w")

\* The page is freed exactly when nobody refers to the pipe any more, an end is open exactly
\* as long as somebody refers to it, and whoever is in pipewrite() or piperead() finds the
\* page there: fork, close and exit of other processes never free it under a reader.
PipeLivesWhileUsed ==
    /\ alloc => (readopen <=> \E p \in Proc : Refers(p, "r"))
             /\ (writeopen <=> \E p \in Proc : Refers(p, "w"))
    /\ alloc <=> \E p \in Proc, e \in End : Refers(p, e)
    /\ \A p \in Proc : pc[p] \in Writing \cup Reading \cup Asleep \cup Woken => alloc

\* An open file is counted once for every descriptor that names it.
RefIsDescriptors ==
    \A f \in File : ref[f] = Cardinality({d \in Proc \X End : fd[d[1]][d[2]] = f})

\* fork(), close() and exit() count the descriptors so that the pipe is there for whoever
\* still has one, and for nobody else: PipeLivesWhileUsed and RefIsDescriptors.
DescriptorsKeepPipe == PipeLivesWhileUsed /\ RefIsDescriptors

\* What is in the pipe, oldest first.
Queue == [k \in 1 .. (nwrite - nread) % WRAP |-> data[(nread + k - 1) % PIPESIZE]]

Bytes == IF alloc THEN Queue ELSE <<>>

Q == INSTANCE Fifo WITH exists <- alloc, queue <- Bytes, Size <- PIPESIZE

\* Bytes come out once, in the order they went in, and none is overwritten, also after nread
\* and nwrite have wrapped around.
IsFifo == Q!Spec

\* A reader sleeps only while the pipe is empty and may still be written: whoever puts a byte
\* or closes the last write end wakes it.
ReaderSleepsOnEmpty ==
    \A p \in Proc : pc[p] = "r_asleep" /\ lock = None => Empty /\ writeopen

\* The same as long as nobody is killed: a writer that finds itself killed after it has put
\* some of its bytes returns without waking the readers.
ReaderNotForgotten == ReaderSleepsOnEmpty \/ \E p \in Proc : killed[p]

\* A writer sleeps only while the pipe is full and may still be read, whoever is killed: every
\* piperead() that takes a byte, and the close of the last read end, wakes it.
WriterSleepsOnFull ==
    \A p \in Proc : pc[p] = "w_asleep" /\ lock = None => Full /\ readopen

\* Neither readers nor writers of a pipe sleep for what is already there: ReaderNotForgotten
\* and WriterSleepsOnFull.
NobodyForgotten == ReaderNotForgotten /\ WriterSleepsOnFull
=============================================================================
