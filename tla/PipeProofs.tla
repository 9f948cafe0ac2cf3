----------------------------- MODULE PipeProofs -----------------------------
(***************************************************************************)
(* What holds of Pipe for every number of processes and every size of the  *)
(* pipe: the page lives as long as somebody refers to it                   *)
(* (DescriptorsKeepPipe), nobody sleeps for what is already there          *)
(* (NobodyForgotten), and the pipe is a queue (it implements Fifo).        *)
(*                                                                         *)
(* The argument: all descriptors of an end name one open file, which       *)
(* counts them, so that the process whose fileclose() finds the count at   *)
(* zero is the only one left to close the end.  A sleeper is safe because  *)
(* whoever changes what it waits for holds pi->lock until it has called    *)
(* wakeup().  The distance from nread to nwrite, modulo the range of the   *)
(* counters, never exceeds the size of the buffer, so that the cell that   *)
(* is written is not one of those that are still to be read.               *)
(***************************************************************************)
EXTENDS Pipe, Sequences, FiniteSetTheorems, Rings, TLAPS

Close(e) == IF e = "r" THEN "close_r" ELSE "close_w"
Open(e) == IF e = "r" THEN readopen ELSE writeopen
Descs(f) == {d \in Proc \X End : fd[d[1]][d[2]] = f}

\* pi->lock.
Holder == \A p \in Proc : pc[p] \in Writing \cup Reading <=> lock = p

\* Each end is one open file.
Files ==
    /\ \A p, q \in Proc, e \in End : fd[p][e] # None /\ fd[q][e] # None => fd[p][e] = fd[q][e]
    /\ \A p, q \in Proc : fd[p]["r"] # None => fd[p]["r"] # fd[q]["w"]

\* An end is open while somebody refers to it; whoever closes it is the last one.
OpenIffReferred == \A e \in End : Open(e) <=> \E p \in Proc : Refers(p, e)
LastOneCloses ==
    \A p \in Proc, e \in End : pc[p] = Close(e) =>
        \A q \in Proc : fd[q][e] = None /\ (pc[q] = Close(e) => q = p)
Ends == (alloc <=> readopen \/ writeopen) /\ OpenIffReferred /\ LastOneCloses

\* A process in pipewrite() or piperead() has a descriptor for it.
Users ==
    \A p \in Proc :
        /\ pc[p] \in Writing \cup {"w_asleep", "w_woken"} => fd[p]["w"] # None
        /\ pc[p] \in Reading \cup {"r_asleep", "r_woken"} => fd[p]["r"] # None
        /\ pc[p] = "unborn" => \A e \in End : fd[p][e] = None

\* What the loops have checked with pi->lock held still holds when it is used.
Loops ==
    \A p \in Proc : /\ pc[p] = "write_byte" => readopen /\ i[p] < N
                    /\ pc[p] = "read_sleep" => Empty /\ writeopen

\* A reader that has taken a byte will wake the writers before it releases pi->lock ...
Writers ==
    \A p \in Proc : pc[p] = "w_asleep" =>
        readopen /\ (Full \/ \E q \in Proc : pc[q] \in {"copy", "read_end"})

\* ... and a writer will wake the readers, unless it is killed.
Readers ==
    (\A p \in Proc : ~killed[p]) =>
        \A p \in Proc : pc[p] = "r_asleep" =>
            writeopen /\ (Empty \/ \E q \in Proc : pc[q] \in Writing)

IInv == TypeOK /\ RefIsDescriptors /\ Holder /\ Files /\ Ends /\ Users /\ Loops /\ Writers /\ Readers

(***************************************************************************)
(* Facts about the constants, counting, and the initial state.             *)
(***************************************************************************)
LEMMA Constants ==
  /\ None \notin Proc /\ None \notin File /\ first \in Proc
  /\ NFILE \in Nat /\ PIPESIZE \in Nat \ {0} /\ WRAP \in Nat \ {0} /\ N \in Nat \ {0}
  /\ 0 \in 0 .. N /\ 0 \in 0 .. WRAP - 1
BY PipeAssumption DEF PipeAssumption, File

LEMMA IncrType == ASSUME NEW k \in 0 .. WRAP - 1 PROVE Incr(k) \in 0 .. WRAP - 1
BY Constants DEF Incr

LEMMA DescsFinite == \A f : IsFiniteSet(Descs(f)) /\ Cardinality(Descs(f)) \in Nat
<1>1. IsFiniteSet(End)
  <2>1. IsFiniteSet({"r"})
    BY FS_Singleton, Zenon
  <2>2. End = {"r"} \cup {"w"}
    BY DEF End
  <2> QED
    BY <2>1, <2>2, FS_AddElement
<1>2. IsFiniteSet(Proc \X End)
  BY <1>1, PipeAssumption, FS_Product DEF PipeAssumption
<1> SUFFICES ASSUME NEW f PROVE IsFiniteSet(Descs(f)) /\ Cardinality(Descs(f)) \in Nat
  OBVIOUS
<1>3. Descs(f) \in SUBSET (Proc \X End)
  BY DEF Descs
<1>4. IsFiniteSet(Descs(f))
  BY <1>2, <1>3, FS_Subset
<1> QED
  BY <1>4, FS_CardinalityType

LEMMA Counts == RefIsDescriptors <=> \A f \in File : ref[f] = Cardinality(Descs(f))
BY DEF RefIsDescriptors, Descs

LEMMA IInvInit == Init => IInv
<1> SUFFICES ASSUME Init PROVE IInv
  OBVIOUS
<1> USE Constants DEF NoFds, End
<1>1. TypeOK
  <2>1. nread \in 0 .. WRAP - 1 /\ nwrite \in 0 .. WRAP - 1 /\ i \in [Proc -> 0 .. N]
    BY DEF Init
  <2>2. data \in [0 .. PIPESIZE - 1 -> Byte \cup {None}]
    BY DEF Init
  <2>3. ref \in [File -> Nat] /\ fd \in [Proc -> [End -> File \cup {None}]]
    BY DEF Init
  <2> QED
    BY <2>1, <2>2, <2>3, Zenon DEF Init, TypeOK, PC
<1>2. Holder /\ Files /\ Users /\ Loops /\ Writers /\ Readers
  BY DEF Init, Holder, Files, Users, Loops, Writers, Readers, Writing, Reading
<1>3. Ends
  BY DEF Init, Ends, OpenIffReferred, LastOneCloses, Open, Close, Refers
<1>4. RefIsDescriptors
  <2> SUFFICES ASSUME NEW f \in File PROVE ref[f] = Cardinality(Descs(f))
    BY Counts
  <2>1. Descs(f) = {}
    BY DEF Init, Descs
  <2> QED
    BY <2>1, FS_EmptySet DEF Init
<1> QED
  BY <1>1, <1>2, <1>3, <1>4 DEF IInv

(***************************************************************************)
(* The branches of the loops.                                              *)
(***************************************************************************)
LEMMA WriteLoop ==
  ASSUME TypeOK, NEW p \in Proc, write_loop(p)
  PROVE  \/ Goto(p, "write_end") /\ UNCHANGED <<lock, i>>
         \/ (~readopen \/ killed[p]) /\ Goto(p, "user") /\ lock' = None /\ i' = [i EXCEPT ![p] = 0]
         \/ readopen /\ ~killed[p] /\ i[p] < N /\ Goto(p, "write_byte") /\ UNCHANGED <<lock, i>>
<1>1. i[p] \in 0 .. N
  BY DEF TypeOK
<1>2. i[p] = N \/ i[p] < N
  BY <1>1, Constants
<1> QED
  BY <1>2, Constants DEF write_loop

LEMMA ReadLoop ==
  ASSUME NEW p \in Proc, read_loop(p)
  PROVE  \/ Goto(p, "copy") /\ UNCHANGED lock
         \/ killed[p] /\ Goto(p, "user") /\ lock' = None
         \/ Empty /\ writeopen /\ Goto(p, "read_sleep") /\ UNCHANGED lock
BY DEF read_loop

(***************************************************************************)
(* Every step preserves the invariant, one conjunct at a time.             *)
(***************************************************************************)
LEMMA TypeStep == IInv /\ [Next]_vars => TypeOK'
<1> SUFFICES ASSUME IInv, [Next]_vars PROVE TypeOK'
  OBVIOUS
<1> USE Constants DEF Goto, PC, Writing, Reading, Asleep, Woken, pipevars, filevars
<1>t. TypeOK
  BY DEF IInv
<1>1. ASSUME NEW p \in Proc, sys_pipe(p) PROVE TypeOK'
  <2>1. PICK f0 \in FreeFiles, f1 \in FreeFiles :
          ref' = [ref EXCEPT ![f0] = 1, ![f1] = 1] /\ fdalloc(p, f0, f1)
    BY <1>1, Zenon DEF sys_pipe
  <2>2. f0 \in File /\ f1 \in File
    BY DEF FreeFiles
  <2>3. ref' \in [File -> Nat]
    BY <1>t, <2>1, <2>2, Zenon DEF TypeOK
  <2>4. fd' \in [Proc -> [End -> File \cup {None}]]
    BY <1>t, <2>1, <2>2 DEF fdalloc, TypeOK
  <2> QED
    BY <1>t, <1>1, <2>3, <2>4, Zenon DEF sys_pipe, pipealloc, TypeOK
<1>2. ASSUME NEW p \in Proc, pipeclose(p) PROVE TypeOK'
  BY <1>t, <1>2 DEF pipeclose, WakeReaders, WakeWriters, TypeOK
<1>3. ASSUME NEW p \in Proc, exit(p) PROVE TypeOK'
  BY <1>t, <1>3 DEF exit, TypeOK
<1>4. ASSUME NEW p \in Proc, kill(p) PROVE TypeOK'
  BY <1>t, <1>4 DEF kill, TypeOK
<1>5. ASSUME NEW p \in Proc, NEW e \in End, fileclose(p, e) PROVE TypeOK'
  <2>1. fd[p][e] \in File
    BY <1>t, <1>5 DEF fileclose, TypeOK
  <2>2. <<p, e>> \in Descs(fd[p][e])
    BY DEF Descs
  <2>3. ref[fd[p][e]] # 0 /\ ref[fd[p][e]] = Cardinality(Descs(fd[p][e]))
    BY <2>1, <2>2, DescsFinite, FS_EmptySet, Counts DEF IInv
  <2>4. ref' \in [File -> Nat]
    BY <1>t, <1>5, <2>1, <2>3 DEF fileclose, TypeOK
  <2>5. fd' \in [Proc -> [End -> File \cup {None}]]
    BY <1>t, <1>5 DEF fileclose, TypeOK
  <2>6. pc' \in [Proc -> PC]
    BY <1>t, <1>5, Zenon DEF fileclose, TypeOK
  <2> QED
    BY <1>t, <1>5, <2>4, <2>5, <2>6 DEF fileclose, TypeOK
<1>6. ASSUME NEW p \in Proc, NEW q \in Proc, fork(p, q) PROVE TypeOK'
  <2>1. \A f \in File : Cardinality({e \in End : fd[p][e] = f}) \in Nat
    <3> SUFFICES ASSUME NEW f \in File PROVE Cardinality({e \in End : fd[p][e] = f}) \in Nat
      OBVIOUS
    <3>1. End = {"r"} \cup {"w"} /\ IsFiniteSet({"r"})
      BY FS_Singleton, Zenon DEF End
    <3>2. IsFiniteSet(End)
      BY <3>1, FS_AddElement
    <3>3. {e \in End : fd[p][e] = f} \in SUBSET End
      OBVIOUS
    <3>4. IsFiniteSet({e \in End : fd[p][e] = f})
      BY <3>2, <3>3, FS_Subset
    <3> QED
      BY <3>4, FS_CardinalityType
  <2>2. ref' \in [File -> Nat]
    <3> DEFINE C(f) == Cardinality({e \in End : fd[p][e] = f})
    <3>1. ref' = [f \in File |-> ref[f] + C(f)]
      BY <1>6 DEF fork, Dupped
    <3>2. \A f \in File : C(f) \in Nat /\ ref[f] \in Nat
      BY <1>t, <2>1 DEF TypeOK
    <3> HIDE DEF C
    <3> QED
      BY <3>1, <3>2
  <2> QED
    BY <1>t, <1>6, <2>2 DEF fork, TypeOK
<1>7. ASSUME NEW p \in Proc, pipewrite(p) PROVE TypeOK'
  <2>1. i' \in [Proc -> 0 .. N]
    BY <1>t, <1>7 DEF pipewrite, TypeOK
  <2> QED
    BY <1>t, <1>7, <2>1, Zenon DEF pipewrite, TypeOK
<1>8. ASSUME NEW p \in Proc, write_loop(p) PROVE TypeOK'
  <2>1. UNCHANGED <<filevars, alloc, pipevars, killed>>
    BY <1>8 DEF write_loop
  <2>2. i' \in [Proc -> 0 .. N]
    BY <1>t, <1>8, WriteLoop, Zenon DEF TypeOK
  <2>3. pc' \in [Proc -> PC] /\ lock' \in Proc \cup {None}
    BY <1>t, <1>8, WriteLoop DEF TypeOK
  <2> QED
    BY <1>t, <2>1, <2>2, <2>3 DEF TypeOK
<1>9. ASSUME NEW p \in Proc, write_full(p) PROVE TypeOK'
  BY <1>t, <1>9 DEF write_full, WakeReaders, TypeOK
<1>10. ASSUME NEW p \in Proc, NEW c \in Byte, write_byte(p, c) PROVE TypeOK'
  <2>1. nwrite' \in 0 .. WRAP - 1
    BY <1>t, <1>10, IncrType DEF write_byte, TypeOK
  <2>2. i' \in [Proc -> 0 .. N]
    <3>1. i[p] \in 0 .. N - 1
      BY <1>t, <1>10 DEF write_byte, IInv, Loops, TypeOK
    <3> QED
      BY <1>t, <1>10, <3>1 DEF write_byte, TypeOK
  <2>3. data' \in [0 .. PIPESIZE - 1 -> Byte \cup {None}]
    BY <1>t, <1>10 DEF write_byte, TypeOK
  <2> QED
    BY <1>t, <1>10, <2>1, <2>2, <2>3 DEF write_byte, TypeOK
<1>11. ASSUME NEW p \in Proc, write_fault(p) PROVE TypeOK'
  BY <1>t, <1>11 DEF write_fault, TypeOK
<1>12. ASSUME NEW p \in Proc, write_end(p) \/ read_end(p) PROVE TypeOK'
  <2>1. i' \in [Proc -> 0 .. N]
    BY <1>t, <1>12, Zenon DEF write_end, read_end, TypeOK
  <2>2. pc' \in [Proc -> PC]
    BY <1>t, <1>12, Zenon DEF write_end, read_end, WakeReaders, WakeWriters, TypeOK
  <2> QED
    BY <1>t, <1>12, <2>1, <2>2 DEF write_end, read_end, TypeOK
<1>13. ASSUME NEW p \in Proc, piperead(p) PROVE TypeOK'
  BY <1>t, <1>13 DEF piperead, TypeOK
<1>14. ASSUME NEW p \in Proc, read_loop(p) PROVE TypeOK'
  <2>1. UNCHANGED <<filevars, alloc, pipevars, killed, i>>
    BY <1>14 DEF read_loop
  <2> QED
    BY <1>t, <1>14, <2>1, ReadLoop, Zenon DEF TypeOK
<1>15. ASSUME NEW p \in Proc, read_sleep(p) PROVE TypeOK'
  BY <1>t, <1>15 DEF read_sleep, TypeOK
<1>16. ASSUME NEW p \in Proc, NEW ok \in BOOLEAN, read_byte(p, ok) PROVE TypeOK'
  <2>1. nread' \in 0 .. WRAP - 1
    BY <1>t, <1>16, IncrType DEF read_byte, TypeOK
  <2>2. i' \in [Proc -> 0 .. N]
    BY <1>t, <1>16 DEF read_byte, TypeOK
  <2> QED
    BY <1>t, <1>16, <2>1, <2>2 DEF read_byte, TypeOK
<1>17. CASE UNCHANGED vars
  BY <1>t, <1>17 DEF vars, TypeOK
<1> QED
  BY <1>1, <1>2, <1>3, <1>4, <1>5, <1>6, <1>7, <1>8, <1>9, <1>10, <1>11, <1>12, <1>13, <1>14,
     <1>15, <1>16, <1>17 DEF Next, Writer, Reader

\* Only sys_pipe(), fork() and fileclose() change the open files.
LEMMA FilesStay ==
  ASSUME NEW p \in Proc, pipeclose(p) \/ exit(p) \/ kill(p) \/ Writer(p) \/ Reader(p)
  PROVE  UNCHANGED <<ref, fd>>
BY DEF pipeclose, exit, kill, Writer, Reader, pipewrite, write_loop, write_full, write_fault,
       write_end, write_byte, piperead, read_loop, read_sleep, read_end, read_byte, filevars

\* Without a pipe there are no descriptors.
LEMMA NoPipeNoFds ==
  ASSUME IInv, ~alloc
  PROVE  \A p \in Proc, e \in End : fd[p][e] = None /\ pc[p] # Close(e)
BY DEF IInv, Ends, OpenIffReferred, Refers, Open, Close, End

LEMMA RefStep == IInv /\ [Next]_vars => RefIsDescriptors'
<1> SUFFICES ASSUME IInv, [Next]_vars PROVE RefIsDescriptors'
  OBVIOUS
<1> SUFFICES ASSUME NEW f \in File PROVE ref'[f] = Cardinality(Descs(f)')
  BY DEF RefIsDescriptors, Descs
<1> USE Constants DEF Goto
<1>t. TypeOK /\ ref[f] = Cardinality(Descs(f))
  BY Counts DEF IInv
<1>d. IsFiniteSet(Descs(f)) /\ Cardinality(Descs(f)) \in Nat
  BY DescsFinite
<1>1. ASSUME UNCHANGED <<ref, fd>> PROVE ref'[f] = Cardinality(Descs(f)')
  BY <1>t, <1>1 DEF Descs
<1>2. ASSUME NEW p \in Proc, sys_pipe(p) PROVE ref'[f] = Cardinality(Descs(f)')
  <2>1. PICK f0 \in FreeFiles, f1 \in FreeFiles :
          f0 < f1 /\ ref' = [ref EXCEPT ![f0] = 1, ![f1] = 1] /\ fdalloc(p, f0, f1)
    BY <1>2, Zenon DEF sys_pipe
  <2>2. f0 \in File /\ f1 \in File /\ f0 # f1
    BY <2>1 DEF FreeFiles, File
  <2>3. \A q \in Proc, e \in End : fd[q][e] = None
    BY <1>2, NoPipeNoFds DEF sys_pipe, pipealloc
  <2>4. \A q \in Proc, e \in End :
          fd'[q][e] = IF q = p THEN IF e = "r" THEN f0 ELSE f1 ELSE None
    BY <1>t, <2>1, <2>3 DEF fdalloc, TypeOK
  <2>5. ref[f] = 0
    <3>1. Descs(f) = {}
      BY <2>3 DEF Descs
    <3> QED
      BY <1>t, <3>1, FS_EmptySet
  <2>6. CASE f = f0
    <3>1. Descs(f)' = {<<p, "r">>}
      BY <2>2, <2>4, <2>6 DEF Descs, End
    <3> QED
      BY <1>t, <2>1, <2>2, <2>6, <3>1, FS_Singleton, Zenon DEF TypeOK
  <2>7. CASE f = f1
    <3>1. Descs(f)' = {<<p, "w">>}
      BY <2>2, <2>4, <2>7 DEF Descs, End
    <3> QED
      BY <1>t, <2>1, <2>2, <2>7, <3>1, FS_Singleton, Zenon DEF TypeOK
  <2>8. CASE f # f0 /\ f # f1
    <3>1. Descs(f)' = {}
      BY <2>4, <2>8 DEF Descs
    <3>2. ref'[f] = 0
      BY <1>t, <2>1, <2>5, <2>8 DEF TypeOK
    <3> QED
      BY <3>1, <3>2, FS_EmptySet
  <2> QED
    BY <2>6, <2>7, <2>8
<1>3. ASSUME NEW p \in Proc, NEW q \in Proc, fork(p, q) PROVE ref'[f] = Cardinality(Descs(f)')
  <2> DEFINE E == {e \in End : fd[p][e] = f}
  <2>1. ref'[f] = ref[f] + Cardinality(E) /\ fd' = [fd EXCEPT ![q] = fd[p]]
    BY <1>3 DEF fork, Dupped
  <2>2. \A e \in End : fd[q][e] = None
    BY <1>3 DEF fork, IInv, Users
  <2>3. Descs(f)' = Descs(f) \cup {<<q, e>> : e \in E}
    BY <1>t, <2>1, <2>2 DEF Descs, TypeOK
  <2>4. \A e \in End : <<q, e>> \notin Descs(f)
    BY <2>2 DEF Descs
  <2>5. CASE E = {}
    <3>1. Descs(f)' = Descs(f)
      BY <2>3, <2>5
    <3>2. Cardinality(E) = 0
      BY <2>5, FS_EmptySet
    <3> QED
      BY <1>t, <1>d, <2>1, <3>1, <3>2
  <2>6. CASE E # {}
    <3>1. PICK e \in End : E = {e}
      BY <2>6 DEF IInv, Files, End
    <3>2. Descs(f)' = Descs(f) \cup {<<q, e>>}
      BY <2>3, <3>1
    <3>3. Cardinality(Descs(f)') = Cardinality(Descs(f)) + 1
      BY <1>d, <2>4, <3>2, FS_AddElement, Zenon
    <3>4. Cardinality(E) = 1
      BY <3>1, FS_Singleton
    <3> QED
      BY <1>t, <2>1, <3>3, <3>4
  <2> QED
    BY <2>5, <2>6
<1>4. ASSUME NEW p \in Proc, NEW e \in End, fileclose(p, e) PROVE ref'[f] = Cardinality(Descs(f)')
  <2>1. fd[p][e] \in File /\ ref' = [ref EXCEPT ![fd[p][e]] = @ - 1] /\ fd' = [fd EXCEPT ![p][e] = None]
    BY <1>t, <1>4 DEF fileclose, TypeOK
  <2>2. \A q \in Proc, a \in End : fd'[q][a] = IF q = p /\ a = e THEN None ELSE fd[q][a]
    BY <1>t, <2>1 DEF TypeOK
  <2>3. Descs(f)' = Descs(f) \ {<<p, e>>}
    BY <2>2 DEF Descs
  <2>4. Cardinality(Descs(f)') = IF <<p, e>> \in Descs(f) THEN Cardinality(Descs(f)) - 1
                                                        ELSE Cardinality(Descs(f))
    BY <1>d, <2>3, FS_RemoveElement, Zenon
  <2>5. <<p, e>> \in Descs(f) <=> fd[p][e] = f
    BY DEF Descs
  <2>6. ref'[f] = IF fd[p][e] = f THEN ref[f] - 1 ELSE ref[f]
    BY <1>t, <2>1 DEF TypeOK
  <2> QED
    BY <1>t, <2>4, <2>5, <2>6
<1>5. CASE UNCHANGED vars
  BY <1>1, <1>5 DEF vars, filevars
<1> QED
  BY <1>1, <1>2, <1>3, <1>4, <1>5, FilesStay DEF Next

LEMMA FilesStep == IInv /\ [Next]_vars => Files'
<1> SUFFICES ASSUME IInv, [Next]_vars PROVE Files'
  OBVIOUS
<1> USE Constants DEF Goto, End
<1>t. TypeOK /\ Files
  BY DEF IInv
<1>1. ASSUME UNCHANGED <<ref, fd>> PROVE Files'
  BY <1>t, <1>1 DEF Files
<1>2. ASSUME NEW p \in Proc, sys_pipe(p) PROVE Files'
  <2>1. PICK f0 \in FreeFiles, f1 \in FreeFiles : f0 < f1 /\ fdalloc(p, f0, f1)
    BY <1>2 DEF sys_pipe
  <2>2. f0 \in File /\ f1 \in File /\ f0 # f1
    BY <2>1 DEF FreeFiles, File
  <2>3. \A q \in Proc, e \in End : fd[q][e] = None
    BY <1>2, NoPipeNoFds DEF sys_pipe, pipealloc
  <2>4. \A q \in Proc, e \in End :
          fd'[q][e] = IF q = p THEN IF e = "r" THEN f0 ELSE f1 ELSE None
    BY <1>t, <2>1, <2>3 DEF fdalloc, TypeOK
  <2> QED
    BY <2>2, <2>4 DEF Files
<1>3. ASSUME NEW p \in Proc, NEW q \in Proc, fork(p, q) PROVE Files'
  BY <1>t, <1>3 DEF fork, Files, TypeOK
<1>4. ASSUME NEW p \in Proc, NEW e \in End, fileclose(p, e) PROVE Files'
  <2>1. \A q \in Proc, a \in End : fd'[q][a] = IF q = p /\ a = e THEN None ELSE fd[q][a]
    BY <1>t, <1>4 DEF fileclose, TypeOK
  <2> QED
    BY <1>t, <2>1 DEF Files
<1>5. CASE UNCHANGED vars
  BY <1>1, <1>5 DEF vars, filevars
<1> QED
  BY <1>1, <1>2, <1>3, <1>4, <1>5, FilesStay DEF Next

\* Reading, writing, exit() and kill() neither begin nor end the closing of an end.
LEMMA EndsStay ==
  ASSUME IInv, NEW p \in Proc, exit(p) \/ kill(p) \/ Writer(p) \/ Reader(p)
  PROVE  /\ UNCHANGED <<fd, alloc, readopen, writeopen>>
         /\ \A q \in Proc, e \in End : pc'[q] = Close(e) <=> pc[q] = Close(e)
<1> USE DEF Goto, pipevars, Close
<1>t. TypeOK
  BY DEF IInv
<1> DEFINE SameCloses == \A q \in Proc, e \in End : pc'[q] = Close(e) <=> pc[q] = Close(e)
<1>1. UNCHANGED fd
  BY FilesStay
<1>2. UNCHANGED <<alloc, readopen, writeopen>>
  BY DEF exit, kill, Writer, Reader, pipewrite, write_loop, write_full, write_fault,
         write_end, write_byte, piperead, read_loop, read_sleep, read_end, read_byte
<1>3. ASSUME exit(p) \/ kill(p) PROVE SameCloses
  BY <1>t, <1>3 DEF exit, kill, TypeOK
<1>4. ASSUME pipewrite(p) \/ write_fault(p) \/ piperead(p) \/ read_sleep(p) PROVE SameCloses
  BY <1>t, <1>4 DEF pipewrite, write_fault, piperead, read_sleep, filewrite, fileread, Syscall, TypeOK
<1>5. ASSUME write_full(p) \/ write_end(p) \/ read_end(p) PROVE SameCloses
  BY <1>t, <1>5, Zenon DEF write_full, write_end, read_end, WakeReaders, WakeWriters, TypeOK
<1>6. ASSUME write_loop(p) PROVE SameCloses
  <2>1. pc[p] = "write"
    BY <1>6 DEF write_loop
  <2> QED
    BY <1>t, <1>6, <2>1, WriteLoop DEF TypeOK
<1>7. ASSUME read_loop(p) PROVE SameCloses
  <2>1. pc[p] = "read"
    BY <1>7 DEF read_loop
  <2> QED
    BY <1>t, <1>7, <2>1, ReadLoop DEF TypeOK
<1>8. ASSUME NEW c, write_byte(p, c) PROVE SameCloses
  BY <1>t, <1>8 DEF write_byte, TypeOK
<1>9. ASSUME NEW ok, read_byte(p, ok) PROVE SameCloses
  BY <1>t, <1>9 DEF read_byte, TypeOK
<1> QED
  BY <1>1, <1>2, <1>3, <1>4, <1>5, <1>6, <1>7, <1>8, <1>9 DEF Writer, Reader

LEMMA RefersIs == \A p \in Proc, e \in End : Refers(p, e) <=> fd[p][e] # None \/ pc[p] = Close(e)
BY DEF Refers, Close

LEMMA EndsStep == IInv /\ [Next]_vars => Ends'
<1> SUFFICES ASSUME IInv, [Next]_vars PROVE Ends'
  OBVIOUS
<1> USE Constants DEF Goto
<1>t. TypeOK /\ Ends
  BY DEF IInv
<1>r. \A p \in Proc, e \in End : Refers(p, e)' <=> fd'[p][e] # None \/ pc'[p] = Close(e)
  BY DEF Refers, Close
<1>1. ASSUME UNCHANGED <<fd, alloc, readopen, writeopen>>,
             \A q \in Proc, e \in End : pc'[q] = Close(e) <=> pc[q] = Close(e)
      PROVE  Ends'
  <2>1. \A q \in Proc, e \in End : Refers(q, e)' <=> Refers(q, e)
    BY <1>1, <1>r, RefersIs
  <2>2. \A e \in End : Open(e)' = Open(e)
    BY <1>1 DEF Open
  <2> QED
    BY <1>t, <1>1, <2>1, <2>2 DEF Ends, OpenIffReferred, LastOneCloses
<1>2. ASSUME NEW p \in Proc, sys_pipe(p) PROVE Ends'
  <2>1. PICK f0 \in FreeFiles, f1 \in FreeFiles : f0 < f1 /\ fdalloc(p, f0, f1)
    BY <1>2 DEF sys_pipe
  <2>2. f0 \in File /\ f1 \in File
    BY <2>1 DEF FreeFiles
  <2>3. fd'[p]["r"] # None /\ fd'[p]["w"] # None
    BY <1>t, <2>1, <2>2 DEF fdalloc, End, TypeOK
  <2>4. alloc' /\ readopen' /\ writeopen' /\ pc' = pc
    BY <1>2 DEF sys_pipe, pipealloc
  <2>5. \A q \in Proc, e \in End : pc'[q] # Close(e)
    BY <1>2, <2>4, NoPipeNoFds DEF sys_pipe, pipealloc
  <2>6. \A e \in End : Open(e)' /\ Refers(p, e)'
    BY <1>r, <2>3, <2>4 DEF Open, End
  <2> QED
    BY <2>4, <2>5, <2>6 DEF Ends, OpenIffReferred, LastOneCloses
<1>3. ASSUME NEW p \in Proc, NEW q \in Proc, fork(p, q) PROVE Ends'
  <2>1. /\ UNCHANGED <<alloc, readopen, writeopen>> /\ p # q
        /\ \A a \in Proc, e \in End : fd'[a][e] = IF a = q THEN fd[p][e] ELSE fd[a][e]
        /\ \A a \in Proc, e \in End : pc'[a] = Close(e) <=> pc[a] = Close(e)
    BY <1>t, <1>3 DEF fork, Syscall, pipevars, TypeOK, Close
  <2>2. \A e \in End : fd[q][e] = None /\ pc[q] # Close(e)
    BY <1>3 DEF fork, IInv, Users, Close
  <2>3. \A e \in End : (\E a \in Proc : Refers(a, e)') <=> (\E a \in Proc : Refers(a, e))
    <3> SUFFICES ASSUME NEW e \in End
                 PROVE  (\E a \in Proc : Refers(a, e)') <=> (\E a \in Proc : Refers(a, e))
      OBVIOUS
    <3>1. \A a \in Proc : a # q => (Refers(a, e)' <=> Refers(a, e))
      BY <1>r, <2>1, RefersIs
    <3>2. ~Refers(q, e)
      BY <2>2, RefersIs
    <3>3. Refers(q, e)' => Refers(p, e)
      BY <1>r, <2>1, <2>2, RefersIs
    <3> QED
      BY <3>1, <3>2, <3>3
  <2>4. \A e \in End : Open(e)' = Open(e)
    BY <2>1 DEF Open
  <2>5. OpenIffReferred'
    BY <1>t, <2>3, <2>4 DEF Ends, OpenIffReferred
  <2>6. LastOneCloses'
    BY <1>t, <2>1, <2>2 DEF Ends, LastOneCloses
  <2> QED
    BY <1>t, <2>1, <2>5, <2>6 DEF Ends
\* The last descriptor: nobody else has one, and the end stays open until pipeclose().
<1>4. ASSUME NEW p \in Proc, NEW e \in End, fileclose(p, e) PROVE Ends'
  <2>1. /\ UNCHANGED <<alloc, readopen, writeopen>> /\ fd[p][e] \in File /\ pc[p] = "user"
        /\ \A q \in Proc, a \in End : fd'[q][a] = IF q = p /\ a = e THEN None ELSE fd[q][a]
    BY <1>t, <1>4 DEF fileclose, pipevars, TypeOK
  <2>2. \A q \in Proc : pc[q] # Close(e)
    BY <1>t, <2>1 DEF Ends, LastOneCloses
  <2>3. \A a \in End : Open(a)' = Open(a)
    BY <2>1 DEF Open
  <2>4. ref[fd[p][e]] = Cardinality(Descs(fd[p][e])) /\ <<p, e>> \in Descs(fd[p][e])
    BY <2>1, Counts DEF IInv, Descs
  <2>5. CASE ref[fd[p][e]] - 1 > 0
    <3>1. pc' = pc
      BY <1>4, <2>5 DEF fileclose
    <3>2. Descs(fd[p][e]) # {<<p, e>>}
      <4>1. Cardinality({<<p, e>>}) = 1
        BY FS_Singleton, Zenon
      <4>2. Cardinality(Descs(fd[p][e])) # 1
        BY <2>4, <2>5
      <4> QED
        BY <4>1, <4>2
    <3>3. PICK q \in Proc, a \in End : <<q, a>> # <<p, e>> /\ fd[q][a] = fd[p][e]
      BY <2>4, <3>2 DEF Descs
    <3>4. a = e
      BY <2>1, <3>3 DEF IInv, Files, End
    <3>5. Refers(q, e)' /\ Refers(p, e)
      BY <1>r, <2>1, <3>3, <3>4, RefersIs
    <3>6. \A b \in End : b # e => \A x \in Proc : Refers(x, b)' <=> Refers(x, b)
      BY <1>r, <2>1, <3>1, RefersIs
    <3>7. \A b \in End : (\E x \in Proc : Refers(x, b)') <=> (\E x \in Proc : Refers(x, b))
      BY <3>5, <3>6
    <3>8. OpenIffReferred'
      BY <1>t, <2>3, <3>7 DEF Ends, OpenIffReferred
    <3>9. LastOneCloses'
      <4> SUFFICES ASSUME NEW x \in Proc, NEW b \in End, pc[x] = Close(b), NEW y \in Proc
                   PROVE  fd'[y][b] = None /\ (pc[y] = Close(b) => y = x)
        BY <3>1 DEF LastOneCloses
      <4>1. fd[y][b] = None /\ (pc[y] = Close(b) => y = x)
        BY <1>t DEF Ends, LastOneCloses
      <4> QED
        BY <2>1, <4>1
    <3> QED
      BY <1>t, <2>1, <3>8, <3>9 DEF Ends
  <2>6. CASE ~(ref[fd[p][e]] - 1 > 0)
    <3>1. pc' = [pc EXCEPT ![p] = Close(e)]
      BY <1>4, <2>6 DEF fileclose, Close
    <3>2. Descs(fd[p][e]) = {<<p, e>>}
      <4>1. IsFiniteSet(Descs(fd[p][e])) /\ Cardinality(Descs(fd[p][e])) \in Nat
        BY DescsFinite
      <4>2. Cardinality(Descs(fd[p][e])) = 1
        <5>1. Cardinality(Descs(fd[p][e])) # 0
          BY <2>4, <4>1, FS_EmptySet
        <5> QED
          BY <2>4, <2>6, <4>1, <5>1
      <4>3. PICK d : Descs(fd[p][e]) = {d}
        BY <4>1, <4>2, FS_Singleton, Zenon
      <4> QED
        BY <2>4, <4>3
    <3>3. \A q \in Proc : q # p => fd[q][e] = None
      <4> SUFFICES ASSUME NEW q \in Proc, q # p, fd[q][e] # None PROVE FALSE
        OBVIOUS
      <4>1. fd[q][e] = fd[p][e]
        BY <2>1 DEF IInv, Files
      <4>2. <<q, e>> \in Descs(fd[p][e])
        BY <4>1 DEF Descs
      <4> QED
        BY <3>2, <4>2
    <3>4. \A q \in Proc, a \in End : pc'[q] = Close(a) <=> (q = p /\ a = e) \/ pc[q] = Close(a)
      BY <1>t, <2>1, <3>1 DEF TypeOK, Close, End
    <3>5. Refers(p, e)' /\ Refers(p, e)
      BY <1>r, <2>1, <3>4, RefersIs
    <3>6. \A b \in End : b # e => \A x \in Proc : Refers(x, b)' <=> Refers(x, b)
      BY <1>r, <2>1, <3>4, RefersIs
    <3>7. \A b \in End : (\E x \in Proc : Refers(x, b)') <=> (\E x \in Proc : Refers(x, b))
      BY <3>5, <3>6
    <3>8. OpenIffReferred'
      BY <1>t, <2>3, <3>7 DEF Ends, OpenIffReferred
    <3>9. LastOneCloses'
      <4> SUFFICES ASSUME NEW x \in Proc, NEW b \in End, (x = p /\ b = e) \/ pc[x] = Close(b), NEW y \in Proc
                   PROVE  /\ fd'[y][b] = None
                          /\ (y = p /\ b = e) \/ pc[y] = Close(b) => y = x
        BY <3>4 DEF LastOneCloses
      <4>1. CASE b = e
        BY <2>1, <2>2, <3>3, <4>1
      <4>2. CASE b # e
        <5>1. fd[y][b] = None /\ (pc[y] = Close(b) => y = x)
          BY <1>t, <4>2 DEF Ends, LastOneCloses
        <5> QED
          BY <2>1, <4>2, <5>1
      <4> QED
        BY <4>1, <4>2
    <3> QED
      BY <1>t, <2>1, <3>8, <3>9 DEF Ends
  <2> QED
    BY <2>5, <2>6
<1>5. ASSUME NEW p \in Proc, pipeclose(p) PROVE Ends'
  <2>1. PICK e \in End : pc[p] = Close(e)
    BY <1>5 DEF pipeclose, Close, End
  <2>2. fd' = fd
    BY FilesStay, <1>5
  <2>3. \A q \in Proc, a \in End : pc'[q] = Close(a) <=> pc[q] = Close(a) /\ q # p
    BY <1>t, <1>5 DEF pipeclose, WakeReaders, WakeWriters, Close, TypeOK
  <2>4. \A a \in End : Open(a)' <=> Open(a) /\ a # e
    BY <1>t, <1>5, <2>1, Zenon DEF pipeclose, Open, Close, End, TypeOK
  <2>5. alloc' <=> readopen' \/ writeopen'
    BY <1>t, <1>5, Zenon DEF pipeclose, Frees, Ends
  <2>6. \A q \in Proc : fd[q][e] = None /\ (pc[q] = Close(e) => q = p)
    BY <1>t, <2>1 DEF Ends, LastOneCloses
  <2>7. \A a \in End : pc[p] = Close(a) => a = e
    BY <2>1 DEF Close, End
  <2>8. \A q \in Proc : ~Refers(q, e)'
    BY <1>r, <2>2, <2>3, <2>6
  <2>9. \A q \in Proc, a \in End : a # e => (Refers(q, a)' <=> Refers(q, a))
    BY <1>r, <2>2, <2>3, <2>7, RefersIs
  <2>10. OpenIffReferred'
    BY <1>t, <2>4, <2>8, <2>9 DEF Ends, OpenIffReferred
  <2>11. LastOneCloses'
    BY <1>t, <2>2, <2>3 DEF Ends, LastOneCloses
  <2> QED
    BY <2>5, <2>10, <2>11 DEF Ends
<1>6. CASE UNCHANGED vars
  BY <1>1, <1>6 DEF vars, filevars, pipevars
<1> QED
  BY <1>1, <1>2, <1>3, <1>4, <1>5, <1>6, EndsStay DEF Next

LEMMA HolderStep == IInv /\ [Next]_vars => Holder'
<1> SUFFICES ASSUME IInv, [Next]_vars PROVE Holder'
  OBVIOUS
<1> USE Constants DEF Goto, Writing, Reading
<1>t. TypeOK /\ Holder
  BY DEF IInv
<1> DEFINE Inside == Writing \cup Reading
\* Nobody enters or leaves; or p acquires pi->lock; or p releases it.
<1>1. ASSUME lock' = lock, \A q \in Proc : pc'[q] \in Inside <=> pc[q] \in Inside PROVE Holder'
  BY <1>t, <1>1 DEF Holder
<1>2. ASSUME NEW p \in Proc, lock = None, lock' = p,
             \A q \in Proc : pc'[q] \in Inside <=> pc[q] \in Inside \/ q = p
      PROVE  Holder'
  BY <1>t, <1>2 DEF Holder
<1>3. ASSUME NEW p \in Proc, pc[p] \in Inside, lock' = None,
             \A q \in Proc : pc'[q] \in Inside <=> pc[q] \in Inside /\ q # p
      PROVE  Holder'
  BY <1>t, <1>3 DEF Holder
<1>4. ASSUME NEW p \in Proc, sys_pipe(p) PROVE Holder'
  BY <1>1, <1>4 DEF sys_pipe
<1>5. ASSUME NEW p \in Proc, NEW q \in Proc, NEW e \in End, fork(p, q) \/ fileclose(p, e) PROVE Holder'
  <2>1. \A a \in Proc : pc'[a] \in Inside <=> pc[a] \in Inside
    BY <1>t, <1>5 DEF fork, fileclose, TypeOK
  <2> QED
    BY <1>1, <1>5, <2>1 DEF fork, fileclose
<1>6. ASSUME NEW p \in Proc, pipeclose(p) \/ exit(p) \/ kill(p) \/ write_fault(p) PROVE Holder'
  <2>1. \A a \in Proc : pc'[a] \in Inside <=> pc[a] \in Inside
    BY <1>t, <1>6 DEF pipeclose, exit, kill, write_fault, WakeReaders, WakeWriters, TypeOK
  <2> QED
    BY <1>1, <1>6, <2>1 DEF pipeclose, exit, kill, write_fault
<1>7. ASSUME NEW p \in Proc, pipewrite(p) \/ piperead(p) PROVE Holder'
  <2>1. \A q \in Proc : pc'[q] \in Inside <=> pc[q] \in Inside \/ q = p
    BY <1>t, <1>7 DEF pipewrite, piperead, TypeOK
  <2> QED
    BY <1>2, <1>7, <2>1 DEF pipewrite, piperead
<1>8. ASSUME NEW p \in Proc, write_full(p) \/ write_end(p) \/ read_sleep(p) \/ read_end(p) PROVE Holder'
  <2>1. \A q \in Proc : pc'[q] \in Inside <=> pc[q] \in Inside /\ q # p
    <3>1. CASE write_full(p)
      BY <1>t, <3>1 DEF write_full, WakeReaders, TypeOK
    <3>2. CASE write_end(p)
      BY <1>t, <3>2 DEF write_end, WakeReaders, TypeOK
    <3>3. CASE read_sleep(p)
      BY <1>t, <3>3 DEF read_sleep, TypeOK
    <3>4. CASE read_end(p)
      BY <1>t, <3>4 DEF read_end, WakeWriters, TypeOK
    <3> QED
      BY <1>8, <3>1, <3>2, <3>3, <3>4
  <2>2. pc[p] \in Inside /\ lock' = None
    BY <1>8 DEF write_full, write_end, read_sleep, read_end
  <2> QED
    BY <1>3, <2>1, <2>2
<1>9. ASSUME NEW p \in Proc, NEW c, write_byte(p, c) PROVE Holder'
  <2>1. \A a \in Proc : pc'[a] \in Inside <=> pc[a] \in Inside
    BY <1>t, <1>9 DEF write_byte, TypeOK
  <2> QED
    BY <1>1, <1>9, <2>1 DEF write_byte
<1>10. ASSUME NEW p \in Proc, NEW ok, read_byte(p, ok) PROVE Holder'
  <2>1. \A a \in Proc : pc'[a] \in Inside <=> pc[a] \in Inside
    BY <1>t, <1>10 DEF read_byte, TypeOK
  <2> QED
    BY <1>1, <1>10, <2>1 DEF read_byte
<1>11. ASSUME NEW p \in Proc, write_loop(p) \/ read_loop(p) PROVE Holder'
  <2>1. pc[p] \in Inside
    BY <1>11 DEF write_loop, read_loop
  <2>2. \/ lock' = lock /\ \E l \in Inside : Goto(p, l)
        \/ lock' = None /\ Goto(p, "user")
    BY <1>t, <1>11, WriteLoop, ReadLoop
  <2>3. CASE lock' = lock /\ \E l \in Inside : Goto(p, l)
    <3>1. \A a \in Proc : pc'[a] \in Inside <=> pc[a] \in Inside
      BY <1>t, <2>1, <2>3 DEF TypeOK
    <3> QED
      BY <1>1, <2>3, <3>1
  <2>4. CASE lock' = None /\ Goto(p, "user")
    <3>1. \A q \in Proc : pc'[q] \in Inside <=> pc[q] \in Inside /\ q # p
      BY <1>t, <2>4 DEF TypeOK
    <3> QED
      BY <1>3, <2>1, <2>4, <3>1
  <2> QED
    BY <2>2, <2>3, <2>4
<1>12. CASE UNCHANGED vars
  BY <1>1, <1>12 DEF vars
<1> QED
  BY <1>4, <1>5, <1>6, <1>7, <1>8, <1>9, <1>10, <1>11, <1>12 DEF Next, Writer, Reader, End

LEMMA UsersStep == IInv /\ [Next]_vars => Users'
<1> SUFFICES ASSUME IInv, [Next]_vars PROVE Users'
  OBVIOUS
<1> USE Constants DEF Goto, Writing, Reading, End
<1>t. TypeOK /\ Users
  BY DEF IInv
<1> DEFINE W == Writing \cup {"w_asleep", "w_woken"}
<1> DEFINE R == Reading \cup {"r_asleep", "r_woken"}
\* Nobody enters pipewrite() or piperead(), and nobody loses a descriptor.
<1>1. ASSUME fd' = fd,
             \A p \in Proc : /\ pc'[p] \in W => pc[p] \in W
                             /\ pc'[p] \in R => pc[p] \in R
                             /\ pc'[p] = "unborn" => pc[p] = "unborn"
      PROVE  Users'
  BY <1>t, <1>1 DEF Users
<1>2. ASSUME NEW p \in Proc, sys_pipe(p) PROVE Users'
  <2>1. PICK f0 \in FreeFiles, f1 \in FreeFiles : f0 < f1 /\ fdalloc(p, f0, f1)
    BY <1>2 DEF sys_pipe
  <2>2. pc' = pc /\ pc[p] = "user" /\ \A q \in Proc : q # p => fd'[q] = fd[q]
    BY <1>t, <1>2, <2>1 DEF sys_pipe, Syscall, fdalloc, TypeOK
  <2> QED
    BY <1>t, <2>2 DEF Users
<1>3. ASSUME NEW p \in Proc, NEW q \in Proc, fork(p, q) PROVE Users'
  <2>1. pc' = [pc EXCEPT ![q] = "user"] /\ \A a \in Proc : a # q => fd'[a] = fd[a]
    BY <1>t, <1>3 DEF fork, TypeOK
  <2> QED
    BY <1>t, <2>1 DEF Users, TypeOK
<1>4. ASSUME NEW p \in Proc, NEW e \in End, fileclose(p, e) PROVE Users'
  <2>1. \A a \in Proc : a # p => fd'[a] = fd[a] /\ pc'[a] = pc[a]
    BY <1>t, <1>4 DEF fileclose, TypeOK
  <2>2. pc'[p] \in {"user", "close_r", "close_w"}
    BY <1>t, <1>4 DEF fileclose, TypeOK
  <2> QED
    BY <1>t, <2>1, <2>2 DEF Users
<1>5. ASSUME NEW p \in Proc, pipewrite(p) PROVE Users'
  <2>1. fd[p]["w"] # None /\ fd' = fd /\ Goto(p, "write")
    BY <1>t, <1>5 DEF pipewrite, filewrite, argfd, Users, filevars
  <2> QED
    BY <1>t, <2>1 DEF Users, TypeOK
<1>6. ASSUME NEW p \in Proc, piperead(p) PROVE Users'
  <2>1. fd[p]["r"] # None /\ fd' = fd /\ Goto(p, "read")
    BY <1>t, <1>6 DEF piperead, fileread, argfd, Users, filevars
  <2> QED
    BY <1>t, <2>1 DEF Users, TypeOK
\* The others go on in the call they are in, or return from it.
<1> DEFINE Stays == \A q \in Proc : /\ pc'[q] \in W => pc[q] \in W
                                    /\ pc'[q] \in R => pc[q] \in R
                                    /\ pc'[q] = "unborn" => pc[q] = "unborn"
<1>7. ASSUME NEW p \in Proc, pipeclose(p) \/ exit(p) \/ kill(p) PROVE Users'
  <2>1. Stays
    BY <1>t, <1>7 DEF pipeclose, exit, kill, WakeReaders, WakeWriters, TypeOK
  <2> QED
    BY <1>1, <1>7, <2>1, FilesStay
<1>8. ASSUME NEW p \in Proc, NEW c, write_full(p) \/ write_fault(p) \/ write_end(p) \/ write_byte(p, c)
      PROVE  Users'
  <2>1. Stays
    <3>1. CASE write_full(p) \/ write_end(p)
      BY <1>t, <3>1, Zenon DEF write_full, write_end, WakeReaders, TypeOK
    <3>2. CASE write_fault(p) \/ write_byte(p, c)
      BY <1>t, <3>2 DEF write_fault, write_byte, TypeOK
    <3> QED
      BY <1>8, <3>1, <3>2
  <2>2. fd' = fd
    BY <1>8 DEF write_full, write_fault, write_end, write_byte, filevars
  <2> QED
    BY <1>1, <2>1, <2>2
<1>9. ASSUME NEW p \in Proc, NEW ok, read_sleep(p) \/ read_end(p) \/ read_byte(p, ok) PROVE Users'
  <2>1. Stays
    <3>1. CASE read_end(p)
      BY <1>t, <3>1 DEF read_end, WakeWriters, TypeOK
    <3>2. CASE read_sleep(p)
      BY <1>t, <3>2 DEF read_sleep, TypeOK
    <3>3. CASE read_byte(p, ok)
      <4>1. Goto(p, "copy") \/ Goto(p, "read_end")
        BY <3>3, Zenon DEF read_byte
      <4> QED
        BY <1>t, <3>3, <4>1 DEF read_byte, TypeOK
    <3> QED
      BY <1>9, <3>1, <3>2, <3>3
  <2>2. fd' = fd
    BY <1>9 DEF read_sleep, read_end, read_byte, filevars
  <2> QED
    BY <1>1, <2>1, <2>2
<1>10. ASSUME NEW p \in Proc, write_loop(p) PROVE Users'
  <2>1. pc[p] = "write" /\ fd' = fd
    BY <1>10 DEF write_loop, filevars
  <2>2. Goto(p, "write_end") \/ Goto(p, "user") \/ Goto(p, "write_byte")
    BY <1>t, <1>10, WriteLoop
  <2>3. Stays
    BY <1>t, <2>1, <2>2 DEF TypeOK
  <2> QED
    BY <1>1, <2>1, <2>3
<1>11. ASSUME NEW p \in Proc, read_loop(p) PROVE Users'
  <2>1. pc[p] = "read" /\ fd' = fd
    BY <1>11 DEF read_loop, filevars
  <2>2. Goto(p, "copy") \/ Goto(p, "user") \/ Goto(p, "read_sleep")
    BY <1>11, ReadLoop
  <2>3. Stays
    BY <1>t, <2>1, <2>2 DEF TypeOK
  <2> QED
    BY <1>1, <2>1, <2>3
<1>12. CASE UNCHANGED vars
  BY <1>1, <1>12 DEF vars, filevars
<1> QED
  BY <1>2, <1>3, <1>4, <1>5, <1>6, <1>7, <1>8, <1>9, <1>10, <1>11, <1>12 DEF Next, Writer, Reader

\* pi->lock: only one process is inside.
LEMMA OneInside ==
  ASSUME IInv, NEW p \in Proc, NEW q \in Proc, pc[p] \in Writing \cup Reading, pc[q] \in Writing \cup Reading
  PROVE  p = q
BY DEF IInv, Holder

\* A pipe that is being made has no users.
LEMMA NoPipeNoUsers ==
  ASSUME IInv, ~alloc, NEW p \in Proc
  PROVE  pc[p] \notin Writing \cup Reading \cup {"w_asleep", "r_asleep"}
BY NoPipeNoFds DEF IInv, Users, End

LEMMA LoopsStep == IInv /\ [Next]_vars => Loops'
<1> SUFFICES ASSUME IInv, [Next]_vars PROVE Loops'
  OBVIOUS
<1> USE Constants DEF Goto, Writing, Reading, pipevars
<1>t. TypeOK /\ Loops
  BY DEF IInv
<1>h. Holder'
  BY HolderStep
<1> DEFINE Checked == {"write_byte", "read_sleep"}
<1>1. ASSUME UNCHANGED <<pipevars, i>>, \A q \in Proc : pc'[q] \in Checked => pc'[q] = pc[q] PROVE Loops'
  BY <1>t, <1>1 DEF Loops, Empty
\* Nobody is inside afterwards; or p is, elsewhere.
<1>2. ASSUME lock' = None PROVE Loops'
  BY <1>h, <1>2 DEF Holder, Loops
<1>3. ASSUME NEW p \in Proc, pc'[p] \in (Writing \cup Reading) \ Checked PROVE Loops'
  <2>1. \A q \in Proc : pc'[q] \notin Checked
    BY <1>h, <1>3 DEF Holder
  <2> QED
    BY <2>1 DEF Loops
<1>4. ASSUME NEW p \in Proc, sys_pipe(p) PROVE Loops'
  <2>1. pc' = pc /\ \A q \in Proc : pc[q] \notin Checked
    BY <1>4, NoPipeNoUsers DEF sys_pipe, pipealloc
  <2> QED
    BY <2>1 DEF Loops
<1>5. ASSUME NEW p \in Proc, NEW q \in Proc, NEW e \in End, fork(p, q) \/ fileclose(p, e) PROVE Loops'
  <2>1. \A a \in Proc : pc'[a] \in Checked => pc'[a] = pc[a]
    BY <1>t, <1>5 DEF fork, fileclose, TypeOK
  <2> QED
    BY <1>1, <1>5, <2>1 DEF fork, fileclose
<1>6. ASSUME NEW p \in Proc, exit(p) \/ kill(p) PROVE Loops'
  <2>1. \A a \in Proc : pc'[a] \in Checked => pc'[a] = pc[a]
    BY <1>t, <1>6 DEF exit, kill, TypeOK
  <2> QED
    BY <1>1, <1>6, <2>1 DEF exit, kill
<1>7. ASSUME NEW p \in Proc, pipeclose(p) \/ write_full(p) \/ write_end(p) \/ read_sleep(p) \/ read_end(p)
      PROVE  Loops'
  BY <1>2, <1>7 DEF pipeclose, write_full, write_end, read_sleep, read_end
<1>8. ASSUME NEW p \in Proc, pipewrite(p) \/ piperead(p) \/ write_fault(p) PROVE Loops'
  <2>1. pc'[p] \in {"write", "read", "write_end"}
    BY <1>t, <1>8 DEF pipewrite, piperead, write_fault, TypeOK
  <2> QED
    BY <1>3, <2>1
<1>9. ASSUME NEW p \in Proc, NEW c, write_byte(p, c) PROVE Loops'
  <2>1. pc'[p] = "write"
    BY <1>t, <1>9 DEF write_byte, TypeOK
  <2> QED
    BY <1>3, <2>1
<1>10. ASSUME NEW p \in Proc, NEW ok, read_byte(p, ok) PROVE Loops'
  <2>1. pc'[p] \in {"copy", "read_end"}
    BY <1>t, <1>10 DEF read_byte, TypeOK
  <2> QED
    BY <1>3, <2>1
<1>11. ASSUME NEW p \in Proc, write_loop(p) PROVE Loops'
  <2>1. pc[p] = "write" /\ UNCHANGED pipevars
    BY <1>11 DEF write_loop
  <2>2. CASE lock' = None
    BY <1>2, <2>2
  <2>3. CASE Goto(p, "write_end")
    <3>1. pc'[p] = "write_end"
      BY <1>t, <2>3 DEF TypeOK
    <3> QED
      BY <1>3, <3>1
  <2>4. CASE readopen /\ i[p] < N /\ Goto(p, "write_byte") /\ UNCHANGED i
    <3>1. \A q \in Proc : q # p => pc'[q] \notin Checked
      <4>1. pc'[p] = "write_byte"
        BY <1>t, <2>4 DEF TypeOK
      <4> QED
        BY <1>h, <4>1 DEF Holder
    <3> QED
      BY <1>t, <2>1, <2>4, <3>1 DEF Loops, TypeOK
  <2> QED
    BY <1>t, <1>11, <2>2, <2>3, <2>4, WriteLoop
<1>12. ASSUME NEW p \in Proc, read_loop(p) PROVE Loops'
  <2>1. pc[p] = "read" /\ UNCHANGED pipevars
    BY <1>12 DEF read_loop
  <2>2. CASE lock' = None
    BY <1>2, <2>2
  <2>3. CASE Goto(p, "copy")
    <3>1. pc'[p] = "copy"
      BY <1>t, <2>3 DEF TypeOK
    <3> QED
      BY <1>3, <3>1
  <2>4. CASE Empty /\ writeopen /\ Goto(p, "read_sleep")
    <3>1. \A q \in Proc : q # p => pc'[q] \notin Checked
      <4>1. pc'[p] = "read_sleep"
        BY <1>t, <2>4 DEF TypeOK
      <4> QED
        BY <1>h, <4>1 DEF Holder
    <3> QED
      BY <1>t, <2>1, <2>4, <3>1 DEF Loops, Empty, TypeOK
  <2> QED
    BY <1>12, <2>2, <2>3, <2>4, ReadLoop
<1>13. CASE UNCHANGED vars
  BY <1>1, <1>13 DEF vars
<1> QED
  BY <1>4, <1>5, <1>6, <1>7, <1>8, <1>9, <1>10, <1>11, <1>12, <1>13 DEF Next, Writer, Reader, End

LEMMA WritersStep == IInv /\ [Next]_vars => Writers'
<1> SUFFICES ASSUME IInv, [Next]_vars PROVE Writers'
  OBVIOUS
<1> USE Constants DEF Goto, Writing, Reading, pipevars
<1>t. TypeOK /\ Writers
  BY DEF IInv
<1> DEFINE Taking == {"copy", "read_end"}
<1> DEFINE Stays == \A q \in Proc : /\ pc'[q] = "w_asleep" => pc[q] = "w_asleep"
                                    /\ pc[q] \in Taking => pc'[q] \in Taking
\* No writer falls asleep, the pipe is as it was, and its readers go on.
<1>1. ASSUME UNCHANGED <<nread, nwrite, readopen>>, Stays PROVE Writers'
  BY <1>t, <1>1 DEF Writers, Full
\* No writer is asleep.
<1>2. ASSUME \A q \in Proc : pc'[q] # "w_asleep" PROVE Writers'
  BY <1>2 DEF Writers
<1>3. ASSUME NEW p \in Proc, sys_pipe(p) PROVE Writers'
  BY <1>2, <1>3, NoPipeNoUsers DEF sys_pipe, pipealloc
<1>4. ASSUME NEW p \in Proc, NEW q \in Proc, NEW e \in End, fork(p, q) \/ fileclose(p, e) PROVE Writers'
  <2>1. Stays
    BY <1>t, <1>4 DEF fork, fileclose, Syscall, TypeOK
  <2> QED
    BY <1>1, <1>4, <2>1 DEF fork, fileclose
<1>5. ASSUME NEW p \in Proc, exit(p) \/ kill(p) \/ write_fault(p) \/ write_end(p) \/ read_sleep(p)
      PROVE  Writers'
  <2>1. Stays
    BY <1>t, <1>5, Zenon DEF exit, kill, write_fault, write_end, read_sleep, WakeReaders, TypeOK
  <2> QED
    BY <1>1, <1>5, <2>1 DEF exit, kill, write_fault, write_end, read_sleep
<1>6. ASSUME NEW p \in Proc, pipewrite(p) \/ piperead(p) PROVE Writers'
  <2>1. Stays
    BY <1>t, <1>6 DEF pipewrite, piperead, filewrite, fileread, Syscall, TypeOK
  <2> QED
    BY <1>1, <1>6, <2>1 DEF pipewrite, piperead
<1>7. ASSUME NEW p \in Proc, pipeclose(p) PROVE Writers'
  <2>1. CASE pc[p] = "close_r"
    <3>1. \A q \in Proc : pc'[q] # "w_asleep"
      BY <1>t, <1>7, <2>1 DEF pipeclose, WakeWriters, TypeOK
    <3> QED
      BY <1>2, <3>1
  <2>2. CASE pc[p] = "close_w"
    <3>1. Stays
      BY <1>t, <1>7, <2>2 DEF pipeclose, WakeReaders, TypeOK
    <3>2. readopen' = readopen
      BY <1>t, <1>7, <2>2 DEF pipeclose, TypeOK
    <3> QED
      BY <1>1, <1>7, <3>1, <3>2, Zenon DEF pipeclose
  <2> QED
    BY <1>7, <2>1, <2>2 DEF pipeclose
<1>8. ASSUME NEW p \in Proc, write_loop(p) PROVE Writers'
  <2>1. pc[p] = "write" /\ UNCHANGED pipevars
    BY <1>8 DEF write_loop
  <2>2. Stays
    BY <1>t, <1>8, <2>1, WriteLoop DEF TypeOK
  <2> QED
    BY <1>1, <2>1, <2>2
<1>9. ASSUME NEW p \in Proc, write_full(p) PROVE Writers'
  <2>1. pc[p] = "write_byte" /\ Full /\ UNCHANGED pipevars /\ readopen
    BY <1>9 DEF write_full, IInv, Loops
  <2> QED
    BY <2>1 DEF Writers, Full
\* A byte that fits: no writer is asleep, or a reader would be inside.
<1>10. ASSUME NEW p \in Proc, NEW c, write_byte(p, c) PROVE Writers'
  <2>1. pc[p] = "write_byte" /\ ~Full
    BY <1>10 DEF write_byte
  <2>2. \A q \in Proc : pc[q] \notin Taking
    BY <2>1, OneInside
  <2>3. \A q \in Proc : pc[q] # "w_asleep"
    BY <1>t, <2>1, <2>2 DEF Writers
  <2>4. \A q \in Proc : pc'[q] # "w_asleep"
    BY <1>t, <1>10, <2>3 DEF write_byte, TypeOK
  <2> QED
    BY <1>2, <2>4
<1>11. ASSUME NEW p \in Proc, read_loop(p) PROVE Writers'
  <2>1. pc[p] = "read" /\ UNCHANGED pipevars
    BY <1>11 DEF read_loop
  <2>2. Stays
    BY <1>t, <1>11, <2>1, ReadLoop, Zenon DEF TypeOK
  <2> QED
    BY <1>1, <2>1, <2>2
<1>12. ASSUME NEW p \in Proc, NEW ok, read_byte(p, ok) PROVE Writers'
  <2>1. pc'[p] \in Taking /\ readopen' = readopen
    BY <1>t, <1>12 DEF read_byte, TypeOK
  <2>2. \A q \in Proc : pc'[q] = "w_asleep" => pc[q] = "w_asleep"
    BY <1>t, <1>12 DEF read_byte, TypeOK
  <2> QED
    BY <1>t, <2>1, <2>2 DEF Writers
<1>13. ASSUME NEW p \in Proc, read_end(p) PROVE Writers'
  <2>1. \A q \in Proc : pc'[q] # "w_asleep"
    BY <1>t, <1>13 DEF read_end, WakeWriters, TypeOK
  <2> QED
    BY <1>2, <2>1
<1>14. CASE UNCHANGED vars
  BY <1>1, <1>14 DEF vars
<1> QED
  BY <1>3, <1>4, <1>5, <1>6, <1>7, <1>8, <1>9, <1>10, <1>11, <1>12, <1>13, <1>14
  DEF Next, Writer, Reader, End

LEMMA ReadersStep == IInv /\ [Next]_vars => Readers'
<1> SUFFICES ASSUME IInv, [Next]_vars, \A p \in Proc : ~killed'[p]
             PROVE  \A p \in Proc : pc'[p] = "r_asleep" =>
                       writeopen' /\ (Empty' \/ \E q \in Proc : pc'[q] \in Writing)
  BY DEF Readers
<1> DEFINE Goal == \A p \in Proc : pc'[p] = "r_asleep" =>
                       writeopen' /\ (Empty' \/ \E q \in Proc : pc'[q] \in Writing)
<1> USE Constants DEF Goto, Writing, Reading, pipevars
<1>t. TypeOK
  BY DEF IInv
<1> DEFINE Stays == \A q \in Proc : /\ pc'[q] = "r_asleep" => pc[q] = "r_asleep"
                                    /\ pc[q] \in Writing => pc'[q] \in Writing
\* Whoever was not killed before the step.
<1>k. ASSUME killed' = killed
      PROVE  \A p \in Proc : pc[p] = "r_asleep" =>
                writeopen /\ (Empty \/ \E q \in Proc : pc[q] \in Writing)
  BY <1>k DEF IInv, Readers
\* No reader falls asleep, the pipe is as it was, and its writers go on.
<1>1. ASSUME UNCHANGED <<nread, nwrite, writeopen, killed>>, Stays PROVE Goal
  BY <1>k, <1>1 DEF Empty
\* No reader is asleep.
<1>2. ASSUME \A q \in Proc : pc'[q] # "r_asleep" PROVE Goal
  BY <1>2
<1>3. ASSUME NEW p \in Proc, sys_pipe(p) PROVE Goal
  BY <1>2, <1>3, NoPipeNoUsers DEF sys_pipe, pipealloc
<1>4. ASSUME NEW p \in Proc, NEW q \in Proc, NEW e \in End, fork(p, q) \/ fileclose(p, e) PROVE Goal
  <2>1. Stays
    BY <1>t, <1>4 DEF fork, fileclose, Syscall, TypeOK
  <2> QED
    BY <1>1, <1>4, <2>1 DEF fork, fileclose
<1>5. ASSUME NEW p \in Proc, exit(p) \/ write_fault(p) \/ read_end(p) PROVE Goal
  <2>1. Stays
    BY <1>t, <1>5, Zenon DEF exit, write_fault, read_end, WakeWriters, TypeOK
  <2> QED
    BY <1>1, <1>5, <2>1 DEF exit, write_fault, read_end
<1>6. ASSUME NEW p \in Proc, kill(p) PROVE Goal
  BY <1>t, <1>6 DEF kill, TypeOK
<1>7. ASSUME NEW p \in Proc, pipewrite(p) \/ piperead(p) PROVE Goal
  <2>1. Stays
    BY <1>t, <1>7 DEF pipewrite, piperead, filewrite, fileread, Syscall, TypeOK
  <2> QED
    BY <1>1, <1>7, <2>1 DEF pipewrite, piperead
<1>8. ASSUME NEW p \in Proc, pipeclose(p) PROVE Goal
  <2>1. CASE pc[p] = "close_w"
    <3>1. \A q \in Proc : pc'[q] # "r_asleep"
      BY <1>t, <1>8, <2>1 DEF pipeclose, WakeReaders, TypeOK
    <3> QED
      BY <1>2, <3>1
  <2>2. CASE pc[p] = "close_r"
    <3>1. Stays
      BY <1>t, <1>8, <2>2 DEF pipeclose, WakeWriters, TypeOK
    <3>2. writeopen' = writeopen
      BY <1>t, <1>8, <2>2 DEF pipeclose, TypeOK
    <3> QED
      BY <1>1, <1>8, <3>1, <3>2, Zenon DEF pipeclose
  <2> QED
    BY <1>8, <2>1, <2>2, Zenon DEF pipeclose
\* A writer returns early when nobody can read, and then no reader is asleep.
<1>9. ASSUME NEW p \in Proc, write_loop(p) PROVE Goal
  <2>1. pc[p] = "write" /\ UNCHANGED <<pipevars, killed>>
    BY <1>9 DEF write_loop
  <2>2. CASE readopen
    <3>1. Stays
      BY <1>t, <1>9, <2>1, <2>2, WriteLoop, Zenon DEF TypeOK
    <3> QED
      BY <1>1, <2>1, <3>1
  <2>3. CASE ~readopen
    <3>1. \A q \in Proc : fd[q]["r"] = None
      BY <2>3, RefersIs DEF IInv, Ends, OpenIffReferred, Open, End
    <3>2. \A q \in Proc : pc[q] # "r_asleep"
      BY <3>1 DEF IInv, Users
    <3>3. \A q \in Proc : pc'[q] # "r_asleep"
      BY <1>t, <1>9, <3>2, WriteLoop DEF TypeOK
    <3> QED
      BY <1>2, <3>3
  <2> QED
    BY <2>2, <2>3
<1>10. ASSUME NEW p \in Proc, write_full(p) \/ write_end(p) PROVE Goal
  <2>1. \A q \in Proc : pc'[q] # "r_asleep"
    BY <1>t, <1>10, Zenon DEF write_full, write_end, WakeReaders, TypeOK
  <2> QED
    BY <1>2, <2>1
<1>11. ASSUME NEW p \in Proc, NEW c, write_byte(p, c) PROVE Goal
  <2>1. pc'[p] \in Writing /\ UNCHANGED <<writeopen, killed>>
    BY <1>t, <1>11 DEF write_byte, TypeOK
  <2>2. \A q \in Proc : pc'[q] = "r_asleep" => pc[q] = "r_asleep"
    BY <1>t, <1>11 DEF write_byte, TypeOK
  <2> QED
    BY <1>k, <2>1, <2>2
<1>12. ASSUME NEW p \in Proc, read_loop(p) PROVE Goal
  <2>1. pc[p] = "read" /\ UNCHANGED <<pipevars, killed>>
    BY <1>12 DEF read_loop
  <2>2. Stays
    BY <1>t, <1>12, <2>1, ReadLoop, Zenon DEF TypeOK
  <2> QED
    BY <1>1, <2>1, <2>2
<1>13. ASSUME NEW p \in Proc, read_sleep(p) PROVE Goal
  <2>1. pc[p] = "read_sleep" /\ Empty /\ writeopen /\ UNCHANGED pipevars
    BY <1>13 DEF read_sleep, IInv, Loops
  <2> QED
    BY <2>1 DEF Empty
\* A byte to take: no reader is asleep, or a writer would be inside.
<1>14. ASSUME NEW p \in Proc, NEW ok, read_byte(p, ok) PROVE Goal
  <2>1. pc[p] = "copy" /\ ~Empty /\ killed' = killed
    BY <1>14 DEF read_byte
  <2>2. \A q \in Proc : pc[q] \notin Writing
    BY <2>1, OneInside
  <2>3. \A q \in Proc : pc[q] # "r_asleep"
    BY <1>k, <2>1, <2>2
  <2>4. \A q \in Proc : pc'[q] # "r_asleep"
    BY <1>t, <1>14, <2>3 DEF read_byte, TypeOK
  <2> QED
    BY <1>2, <2>4
<1>15. CASE UNCHANGED vars
  BY <1>1, <1>15 DEF vars
<1> QED
  BY <1>3, <1>4, <1>5, <1>6, <1>7, <1>8, <1>9, <1>10, <1>11, <1>12, <1>13, <1>14, <1>15
  DEF Next, Writer, Reader, End

(***************************************************************************)
(* The theorems.                                                           *)
(***************************************************************************)
\* The invariant holds in every reachable state of the pipe and its open files.
THEOREM Invariant == Spec => []IInv
<1>1. Init => IInv
  BY IInvInit
<1>2. IInv /\ [Next]_vars => IInv'
  BY TypeStep, RefStep, HolderStep, FilesStep, EndsStep, UsersStep, LoopsStep, WritersStep, ReadersStep
  DEF IInv
<1> QED
  BY <1>1, <1>2, PTL DEF Spec

\* fork(), close() and exit() free the pipe with its last descriptor and not before.
THEOREM PipeIsKept == Spec => []DescriptorsKeepPipe
<1>1. IInv => DescriptorsKeepPipe
  <2> SUFFICES ASSUME IInv PROVE DescriptorsKeepPipe
    OBVIOUS
  <2>1. readopen <=> \E p \in Proc : Refers(p, "r")
    BY DEF IInv, Ends, OpenIffReferred, Open, End
  <2>2. writeopen <=> \E p \in Proc : Refers(p, "w")
    BY DEF IInv, Ends, OpenIffReferred, Open, End
  <2>3. alloc <=> \E p \in Proc, e \in End : Refers(p, e)
    BY <2>1, <2>2 DEF IInv, Ends, End
  <2>4. \A p \in Proc : pc[p] \in Writing \cup Reading \cup Asleep \cup Woken => alloc
    BY <2>3, RefersIs DEF IInv, Users, Writing, Reading, Asleep, Woken, End
  <2> QED
    BY <2>1, <2>2, <2>3, <2>4 DEF DescriptorsKeepPipe, PipeLivesWhileUsed, IInv
<1> QED
  BY <1>1, Invariant, PTL

\* pipewrite() and piperead() sleep only for what is not there yet.
THEOREM NoneForgotten == Spec => []NobodyForgotten
<1>1. IInv => NobodyForgotten
  <2> SUFFICES ASSUME IInv PROVE NobodyForgotten
    OBVIOUS
  <2>1. lock = None => \A q \in Proc : pc[q] \notin Writing \cup Reading
    BY Constants DEF IInv, Holder
  <2>2. WriterSleepsOnFull
    BY <2>1 DEF IInv, Writers, WriterSleepsOnFull, Reading
  <2>3. ReaderNotForgotten
    BY <2>1 DEF IInv, Readers, ReaderNotForgotten, ReaderSleepsOnEmpty
  <2> QED
    BY <2>2, <2>3 DEF NobodyForgotten
<1> QED
  BY <1>1, Invariant, PTL

(***************************************************************************)
(* The bytes.                                                              *)
(***************************************************************************)
Count == (nwrite - nread) % WRAP

\* The pipe never holds more bytes than it has room for.
Bounded == Count <= PIPESIZE

LEMMA PipeIsRing == IsRing(PIPESIZE, WRAP)
BY PipeAssumption DEF PipeAssumption, IsRing

\* The tests of pipewrite() and piperead() in terms of the number of bytes.
LEMMA TestsAre ==
  ASSUME TypeOK
  PROVE  Count \in 0 .. WRAP - 1 /\ (Full <=> Count = PIPESIZE) /\ (Empty <=> Count = 0)
<1>1. nread \in 0 .. WRAP - 1 /\ nwrite \in 0 .. WRAP - 1
  BY DEF TypeOK
<1>2. Count = IF nwrite >= nread THEN nwrite - nread ELSE nwrite - nread + WRAP
  BY <1>1, DistanceIs, Constants DEF Count
<1>3. PIPESIZE \in Nat \ {0} /\ WRAP \in Nat /\ PIPESIZE < WRAP
  BY PipeAssumption DEF PipeAssumption
<1>4. PIPESIZE \in 0 .. WRAP /\ WRAP \in Nat \ {0}
  BY <1>3
<1>5. (nread + PIPESIZE) % WRAP = IF nread + PIPESIZE < WRAP THEN nread + PIPESIZE
                                                             ELSE nread + PIPESIZE - WRAP
  BY <1>1, <1>4, FurtherIs, Zenon
<1> QED
  BY <1>1, <1>2, <1>3, <1>5 DEF Full, Empty

\* Everything but the creation of a pipe, a byte put and a byte taken leaves the bytes alone.
LEMMA OtherSteps ==
  ASSUME IInv, [Next]_vars
  PROVE  \/ UNCHANGED <<data, nread, nwrite, alloc>>
         \/ UNCHANGED <<data, nread, nwrite>> /\ alloc /\ alloc' = FALSE
         \/ \E p \in Proc : sys_pipe(p)
         \/ \E p \in Proc, c \in Byte : write_byte(p, c)
         \/ \E p \in Proc, ok \in BOOLEAN : read_byte(p, ok)
<1>1. CASE \E p \in Proc : exit(p) \/ kill(p)
  BY <1>1 DEF exit, kill, pipevars
<1>2. CASE \E p \in Proc, e \in End : fileclose(p, e)
  BY <1>2 DEF fileclose, pipevars
<1>3. CASE \E p, q \in Proc : fork(p, q)
  BY <1>3 DEF fork, pipevars
<1>4. CASE \E p \in Proc : pipeclose(p)
  <2>1. alloc \in BOOLEAN
    BY DEF IInv, TypeOK
  <2>2. UNCHANGED <<data, nread, nwrite>> /\ (alloc' = alloc \/ (alloc /\ alloc' = FALSE))
    BY <1>4, <2>1, Zenon DEF pipeclose
  <2> QED
    BY <2>2
<1>5. CASE \E p \in Proc : pipewrite(p) \/ write_loop(p) \/ write_full(p) \/ write_fault(p) \/ write_end(p)
  BY <1>5 DEF pipewrite, write_loop, write_full, write_fault, write_end, pipevars
<1>6. CASE \E p \in Proc : piperead(p) \/ read_loop(p) \/ read_sleep(p) \/ read_end(p)
  BY <1>6 DEF piperead, read_loop, read_sleep, read_end, pipevars
<1>7. CASE UNCHANGED vars
  BY <1>7 DEF vars, pipevars
<1> QED
  BY <1>1, <1>2, <1>3, <1>4, <1>5, <1>6, <1>7, Zenon DEF Next, Writer, Reader

\* One more byte, one byte less.
LEMMA OneMore ==
  ASSUME TypeOK, Count < PIPESIZE, nwrite' = Incr(nwrite), nread' = nread
  PROVE  Count' = Count + 1
<1>1. nread \in 0 .. WRAP - 1 /\ nwrite \in 0 .. WRAP - 1
  BY DEF TypeOK
<1>2. Count < WRAP - 1
  BY TestsAre, PipeAssumption DEF PipeAssumption
<1> QED
  BY <1>1, <1>2, Grows, Constants, Zenon DEF Count, Incr

LEMMA OneLess ==
  ASSUME TypeOK, ~Empty, nread' = Incr(nread), nwrite' = nwrite
  PROVE  Count' = Count - 1
<1>1. nread \in 0 .. WRAP - 1 /\ nwrite \in 0 .. WRAP - 1
  BY DEF TypeOK
<1> QED
  BY <1>1, Shrinks, Constants, Zenon DEF Count, Incr, Empty

LEMMA BoundedStep == IInv /\ Bounded /\ [Next]_vars => Bounded'
<1> SUFFICES ASSUME IInv, Bounded, [Next]_vars PROVE Bounded'
  OBVIOUS
<1>t. TypeOK
  BY DEF IInv
<1>c. Count \in 0 .. WRAP - 1 /\ (Full <=> Count = PIPESIZE) /\ (Empty <=> Count = 0)
  BY <1>t, TestsAre
<1>1. CASE UNCHANGED <<nread, nwrite>>
  BY <1>1 DEF Bounded, Count
<1>2. CASE \E p \in Proc : sys_pipe(p)
  <2>1. nread' = 0 /\ nwrite' = 0
    BY <1>2 DEF sys_pipe, pipealloc
  <2>2. Count' = 0
    BY <2>1, DistanceIs, Constants DEF Count
  <2> QED
    BY <2>2, Constants DEF Bounded
<1>3. CASE \E p \in Proc, c \in Byte : write_byte(p, c)
  <2>1. ~Full /\ nwrite' = Incr(nwrite) /\ nread' = nread
    BY <1>3 DEF write_byte
  <2>2. Count < PIPESIZE
    BY <1>c, <2>1, Constants DEF Bounded
  <2>3. Count' = Count + 1
    BY <1>t, <2>1, <2>2, OneMore
  <2> QED
    BY <1>c, <2>2, <2>3, Constants DEF Bounded
<1>4. CASE \E p \in Proc, ok \in BOOLEAN : read_byte(p, ok)
  <2>1. ~Empty /\ nread' = Incr(nread) /\ nwrite' = nwrite
    BY <1>4 DEF read_byte
  <2>2. Count' = Count - 1
    BY <1>t, <2>1, OneLess
  <2> QED
    BY <1>c, <2>2, Constants DEF Bounded
<1> QED
  BY <1>1, <1>2, <1>3, <1>4, OtherSteps, Zenon

LEMMA UserHasPipe ==
  ASSUME IInv, NEW p \in Proc, pc[p] \in Writing \cup Reading
  PROVE  alloc
<1>1. \E e \in End : fd[p][e] # None
  BY DEF IInv, Users, End
<1>2. \E e \in End : Open(e)
  BY <1>1, RefersIs DEF IInv, Ends, OpenIffReferred
<1> QED
  BY <1>2 DEF IInv, Ends, Open

LEMMA AppendIs ==
  ASSUME NEW S, NEW n \in Nat, NEW s \in [1 .. n -> S], NEW t \in [1 .. n + 1 -> S], NEW c \in S,
         \A k \in 1 .. n : t[k] = s[k], t[n + 1] = c
  PROVE  t = Append(s, c) /\ Len(s) = n
OBVIOUS

LEMMA TailIs ==
  ASSUME NEW S, NEW n \in Nat \ {0}, NEW s \in [1 .. n -> S], NEW t \in [1 .. n - 1 -> S],
         \A k \in 1 .. n - 1 : t[k] = s[k + 1]
  PROVE  t = Tail(s) /\ s # <<>>
OBVIOUS

LEMMA QueueType == TypeOK => Queue \in [1 .. Count -> Byte \cup {None}]
<1> SUFFICES ASSUME TypeOK PROVE Queue \in [1 .. Count -> Byte \cup {None}]
  OBVIOUS
<1>1. \A k \in 1 .. Count : (nread + k - 1) % PIPESIZE \in 0 .. PIPESIZE - 1
  BY Constants, TestsAre DEF TypeOK
<1> QED
  BY <1>1 DEF TypeOK, Queue, Count

\* pipewrite() puts its byte behind the others.
LEMMA PutStep ==
  ASSUME IInv, TypeOK', Bounded, NEW p \in Proc, NEW c \in Byte, write_byte(p, c)
  PROVE  Q!Put(c)
<1>1. TypeOK /\ alloc /\ alloc' = alloc /\ alloc'
  BY UserHasPipe DEF IInv, write_byte, Writing
<1>2. ~Full /\ nwrite' = Incr(nwrite) /\ nread' = nread /\ data' = [data EXCEPT ![nwrite % PIPESIZE] = c]
  BY DEF write_byte
<1>3. Count \in Nat /\ Count < PIPESIZE
  BY <1>1, <1>2, TestsAre, Constants DEF Bounded
<1>4. Count' = Count + 1
  BY <1>1, <1>2, <1>3, OneMore
<1>5. Queue \in [1 .. Count -> Byte \cup {None}] /\ Queue' \in [1 .. Count + 1 -> Byte \cup {None}]
  <2>1. TypeOK => Queue \in [1 .. Count -> Byte \cup {None}]
    BY QueueType
  <2>2. (TypeOK => Queue \in [1 .. Count -> Byte \cup {None}])'
    BY QueueType, PTL
  <2> QED
    BY <1>1, <1>4, <2>1, <2>2
<1>6. nwrite % PIPESIZE = (nread + Count) % PIPESIZE
  BY <1>1, PipeIsRing, EndCell DEF TypeOK, Count
<1>7. \A k \in 1 .. Count : Queue'[k] = Queue[k]
  <2> SUFFICES ASSUME NEW k \in 1 .. Count PROVE Queue'[k] = Queue[k]
    OBVIOUS
  <2> DEFINE x == nread + k - 1
  <2>1. nread \in Nat /\ x \in Nat
    BY <1>1, Constants DEF TypeOK
  <2>2. nread + (k - 1) = x /\ k - 1 \in Nat /\ k - 1 < Count /\ Count - (k - 1) < PIPESIZE
    BY <1>1, <1>3, <2>1, Constants
  <2>3. x % PIPESIZE # nwrite % PIPESIZE
    <3> HIDE DEF x
    <3>1. (nread + (k - 1)) % PIPESIZE # (nread + Count) % PIPESIZE
      BY <1>3, <2>1, <2>2, PipeIsRing, CellsDiffer, Zenon
    <3> QED
      BY <1>6, <2>2, <3>1
  <2>4. x % PIPESIZE \in 0 .. PIPESIZE - 1
    <3> HIDE DEF x
    <3> QED
      BY <2>1, Constants
  <2>5. data'[x % PIPESIZE] = data[x % PIPESIZE]
    BY <1>1, <1>2, <2>3, <2>4 DEF TypeOK
  <2>6. Queue[k] = data[x % PIPESIZE]
    BY DEF Queue, Count
  <2>7. k \in 1 .. Count'
    BY <1>3, <1>4
  <2>8. Queue'[k] = data'[x % PIPESIZE]
    BY <1>2, <2>7 DEF Queue, Count
  <2> QED
    BY <2>5, <2>6, <2>8
<1>8. Queue'[Count + 1] = c
  <2>1. Count + 1 \in 1 .. Count' /\ nread + (Count + 1) - 1 = nread + Count
    BY <1>1, <1>3, <1>4 DEF TypeOK
  <2>2. Queue'[Count + 1] = data'[(nread + (Count + 1) - 1) % PIPESIZE]
    BY <1>2, <2>1 DEF Queue, Count
  <2>3. nwrite % PIPESIZE \in 0 .. PIPESIZE - 1
    BY <1>1, Constants DEF TypeOK
  <2> QED
    BY <1>1, <1>2, <1>6, <2>1, <2>2, <2>3 DEF TypeOK
<1>9. Queue' = Append(Queue, c) /\ Len(Queue) = Count
  BY <1>3, <1>5, <1>7, <1>8, AppendIs
<1> QED
  BY <1>1, <1>3, <1>9 DEF Q!Put, Bytes

\* piperead() takes the first.
LEMMA GetStep ==
  ASSUME IInv, TypeOK', Bounded, NEW p \in Proc, NEW ok \in BOOLEAN, read_byte(p, ok)
  PROVE  Q!Get
<1>1. TypeOK /\ alloc /\ alloc' = alloc /\ alloc'
  BY UserHasPipe DEF IInv, read_byte, Reading
<1>2. ~Empty /\ nread' = Incr(nread) /\ nwrite' = nwrite /\ data' = data
  BY DEF read_byte
<1>3. Count \in Nat \ {0}
  BY <1>1, <1>2, TestsAre, Constants
<1>4. Count' = Count - 1
  BY <1>1, <1>2, OneLess
<1>5. Queue \in [1 .. Count -> Byte \cup {None}] /\ Queue' \in [1 .. Count - 1 -> Byte \cup {None}]
  <2>1. TypeOK => Queue \in [1 .. Count -> Byte \cup {None}]
    BY QueueType
  <2>2. (TypeOK => Queue \in [1 .. Count -> Byte \cup {None}])'
    BY QueueType, PTL
  <2> QED
    BY <1>1, <1>4, <2>1, <2>2
<1>6. \A k \in 1 .. Count - 1 : Queue'[k] = Queue[k + 1]
  <2> SUFFICES ASSUME NEW k \in 1 .. Count - 1 PROVE Queue'[k] = Queue[k + 1]
    OBVIOUS
  <2>1. nread \in 0 .. WRAP - 1 /\ k - 1 \in Nat
    BY <1>1, <1>3 DEF TypeOK
  <2>2. (nread' + (k - 1)) % PIPESIZE = (nread + ((k - 1) + 1)) % PIPESIZE
    BY <1>2, <2>1, PipeIsRing, NextCells DEF Incr
  <2>3. nread' \in Nat
    BY <1>2, <2>1, IncrType
  <2>4. nread' + (k - 1) = nread' + k - 1 /\ nread + ((k - 1) + 1) = nread + (k + 1) - 1
    BY <2>1, <2>3, Constants
  <2>5. (nread + (k + 1) - 1) % PIPESIZE = (nread' + k - 1) % PIPESIZE
    BY <2>2, <2>4
  <2>6. k \in 1 .. Count' /\ k + 1 \in 1 .. Count
    BY <1>3, <1>4
  <2>7. Queue'[k] = data[(nread' + k - 1) % PIPESIZE]
    BY <1>2, <2>6 DEF Queue, Count
  <2>8. Queue[k + 1] = data[(nread + (k + 1) - 1) % PIPESIZE]
    BY <2>6 DEF Queue, Count
  <2> QED
    BY <2>5, <2>7, <2>8
<1>7. Queue' = Tail(Queue) /\ Queue # <<>>
  BY <1>3, <1>5, <1>6, TailIs
<1> QED
  BY <1>1, <1>7 DEF Q!Get, Bytes

\* nread = nwrite: the queue of a new pipe.
LEMMA NewIsEmpty == ASSUME nread = 0, nwrite = 0 PROVE Queue = <<>>
<1>1. (nwrite - nread) % WRAP = 0
  BY Constants, DistanceIs
<1> QED
  BY <1>1 DEF Queue

LEMMA FifoStep == IInv /\ TypeOK' /\ Bounded /\ [Next]_vars => [Q!Next]_<<alloc, Bytes>>
<1> SUFFICES ASSUME IInv, TypeOK', Bounded, [Next]_vars PROVE [Q!Next]_<<alloc, Bytes>>
  OBVIOUS
<1>1. CASE UNCHANGED <<data, nread, nwrite, alloc>>
  BY <1>1 DEF Bytes, Queue
<1>2. CASE alloc /\ alloc' = FALSE
  BY <1>2, Zenon DEF Q!Next, Q!Destroy, Bytes
<1>3. CASE \E p \in Proc : sys_pipe(p)
  <2>1. ~alloc /\ alloc' = TRUE /\ nread' = 0 /\ nwrite' = 0
    BY <1>3 DEF sys_pipe, pipealloc
  <2>2. (nread = 0 /\ nwrite = 0 => Queue = <<>>)'
    BY NewIsEmpty, PTL
  <2> QED
    BY <2>1, <2>2, Zenon DEF Q!Next, Q!Create, Bytes
<1>4. CASE \E p \in Proc, c \in Byte : write_byte(p, c)
  BY <1>4, PutStep DEF Q!Next
<1>5. CASE \E p \in Proc, ok \in BOOLEAN : read_byte(p, ok)
  BY <1>5, GetStep DEF Q!Next
<1> QED
  BY <1>1, <1>2, <1>3, <1>4, <1>5, OtherSteps, Zenon

\* pipewrite() and piperead() implement a bounded queue: bytes come out once and in order, also
\* when nread and nwrite wrap around.
THEOREM PipeIsFifo == Spec => IsFifo
<1>1. Init => Bounded
  <2> SUFFICES ASSUME Init PROVE Bounded
    OBVIOUS
  <2>1. Count = 0
    BY Constants, DistanceIs DEF Init, Count
  <2> QED
    BY <2>1, Constants DEF Bounded
<1>2. IInv /\ Bounded /\ [Next]_vars => Bounded'
  BY BoundedStep
<1>3. Init => Q!Init
  BY DEF Init, Q!Init, Bytes
<1>4. IInv => TypeOK
  BY DEF IInv
<1>5. IInv /\ TypeOK' /\ Bounded /\ [Next]_vars => [Q!Next]_<<alloc, Bytes>>
  BY FifoStep
<1> QED
  BY <1>1, <1>2, <1>3, <1>4, <1>5, Invariant, PTL DEF Spec, IsFifo, Q!Spec
=============================================================================
