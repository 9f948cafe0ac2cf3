----------------------------- MODULE ProcProofs -----------------------------
(***************************************************************************)
(* What holds of Proc for every number of processes and CPUs: a process is *)
(* on one CPU at most and is not freed under it, every exit reaches a      *)
(* parent, and only the process named in a kill() dies.                    *)
(*                                                                         *)
(* The argument: p->lock is held from the change of a process's state to   *)
(* the moment its CPU has left it, so whoever gets the lock finds the      *)
(* process off every CPU.  wait_lock orders exits, scans and sleeps: while *)
(* a parent is between its scan and its sleep nobody becomes a ZOMBIE, and *)
(* a process that exits wakes its parent before it gives up wait_lock.     *)
(***************************************************************************)
EXTENDS Proc, TLAPS

Live == {"SLEEPING", "RUNNABLE", "RUNNING"}
Forking == {"fork_parent", "fork_spin", "fork_run"}
Holding == {"exit_wakeup", "wait_scan", "wait_sleep"}

\* A process on a CPU is RUNNING, or its CPU holds its lock; the lock's owner is the CPU
\* that is leaving the process.
Cpus ==
    /\ OneCpuPerProcess
    /\ \A c \in CPU : cproc[c] # None => state[cproc[c]] \in Live \cup {"ZOMBIE"}
    /\ \A p \in Slot : plock[p] # None => cproc[plock[p]] = p

\* Where a process can be in each state.
Places ==
    \A p \in Slot :
        /\ state[p] \in {"UNUSED", "USED"} => pc[p] \in {"user", "dead"}
        /\ state[p] = "ZOMBIE" => pc[p] = "dead"
        /\ state[p] = "SLEEPING" => pc[p] = "wait" /\ chan[p] = p
        /\ state[p] = "RUNNABLE" => pc[p] \in Preemptible
        /\ state[p] = "RUNNING" => pc[p] # "dead"
        /\ pc[p] = "sleep" => plock[p] # None

WaitLock == \A p \in Slot : pc[p] \in Holding <=> wait_lock = p

\* The entry that fork() has allocated is its own until it makes it RUNNABLE.
Forks ==
    /\ \A p \in Slot : IF pc[p] \in Forking THEN np[p] \in Slot /\ state[np[p]] = "USED"
                                            ELSE np[p] = None
    /\ \A p, q \in Slot : np[p] # None /\ np[p] = np[q] => p = q
    /\ \A p \in Slot : pc[p] \in Forking => (pc[p] = "fork_run" <=> parent[np[p]] # None)

\* A process that is exiting has handed its children over to init, who never exits.
Parents ==
    /\ ParentCanWait
    /\ parent[init] = None /\ state[init] \in Live /\ pc[init] # "exit_wakeup"
    /\ \A p \in Slot : parent[p] # p
    /\ \A p \in Slot : pc[p] = "exit_wakeup" => Children(p) = {}

\* The children that wait()'s scan has passed have not exited.
Scans ==
    \A p \in Slot :
        /\ pc[p] = "wait_scan" => /\ todo[p] \subseteq Children(p)
                                  /\ \A q \in Children(p) : state[q] = "ZOMBIE" => q \in todo[p]
        /\ pc[p] = "wait_sleep" => /\ Children(p) # {}
                                   /\ \A q \in Children(p) : state[q] # "ZOMBIE"

\* x is exiting and has yet to wake p.
WillWake(x, p) == pc[x] = "exit_wakeup" /\ p \in wakes[x] /\ p \in todo[x]

\* A process that sleeps in wait(), or is about to, has children; one that exits, and one
\* that has exited, has it woken before wait_lock is free.
Sleepers ==
    \A p \in Slot : state[p] = "SLEEPING" \/ pc[p] = "sleep" =>
        /\ Children(p) # {}
        /\ \A q \in Children(p) : /\ state[q] = "ZOMBIE" => \E x \in Slot : WillWake(x, p)
                                  /\ pc[q] = "exit_wakeup" => WillWake(q, p)

IInv == TypeOK /\ Cpus /\ Places /\ WaitLock /\ Forks /\ Parents /\ Scans /\ Sleepers

\* An UNUSED entry has no pid and is not killed.
Unnamed == \A p \in Slot : state[p] = "UNUSED" => pid[p] = 0 /\ ~killed[p]

(***************************************************************************)
(* Facts about the constants, and the initial state.                       *)
(***************************************************************************)
LEMMA Constants == None \notin Slot /\ None \notin CPU /\ init \in Slot
BY ProcAssumption DEF ProcAssumption

LEMMA IInvInit == Init => IInv
<1> SUFFICES ASSUME Init PROVE IInv
  OBVIOUS
<1>1. TypeOK
  BY Constants DEF Init, TypeOK, State, PC
<1>2. Cpus /\ Places /\ WaitLock
  BY Constants DEF Init, Cpus, OneCpuPerProcess, Places, WaitLock, Holding, Preemptible
<1>3. Forks /\ Parents
  BY Constants DEF Init, Forks, Forking, Parents, ParentCanWait, Live, Children
<1>4. Scans /\ Sleepers
  BY Constants DEF Init, Scans, Sleepers
<1> QED
  BY <1>1, <1>2, <1>3, <1>4 DEF IInv

(***************************************************************************)
(* Every step preserves the invariant, one conjunct at a time.             *)
(***************************************************************************)
LEMMA TypeStep == IInv /\ [Next]_vars => TypeOK'
<1> SUFFICES ASSUME IInv, [Next]_vars PROVE TypeOK'
  OBVIOUS
<1> USE Constants DEF Goto, PC, State, lockvars, threadvars
<1>t. TypeOK
  BY DEF IInv
<1>f. \A p \in Slot : pc[p] \in Forking => np[p] \in Slot
  BY DEF IInv, Forks
<1>1. ASSUME NEW c \in CPU, sched(c) PROVE TypeOK'
  BY <1>t, <1>1 DEF sched, TypeOK
<1>2. ASSUME NEW c \in CPU, NEW p \in Slot, scheduler(c, p) PROVE TypeOK'
  BY <1>t, <1>2 DEF scheduler, TypeOK
<1>3. ASSUME NEW c \in CPU, NEW p \in Slot, yield(c, p) PROVE TypeOK'
  BY <1>t, <1>3 DEF yield, AcquireOwn, TypeOK
<1>4. ASSUME NEW p \in Slot, fork_spin(p) PROVE TypeOK'
  BY <1>t, <1>4 DEF fork_spin, TypeOK
<1>5. ASSUME NEW p \in Slot, fork_parent(p) PROVE TypeOK'
  BY <1>t, <1>f, <1>5 DEF fork_parent, TypeOK, Forking
<1>6. ASSUME NEW p \in Slot, fork_run(p) PROVE TypeOK'
  BY <1>t, <1>f, <1>6 DEF fork_run, TypeOK, Forking
<1>7. ASSUME NEW p \in Slot, wait_acquire(p) PROVE TypeOK'
  BY <1>t, <1>7 DEF wait_acquire, Children, TypeOK
<1>8. ASSUME NEW p \in Slot, wait_none(p) PROVE TypeOK'
  BY <1>t, <1>8 DEF wait_none, TypeOK
<1>9. ASSUME NEW p \in Slot, sleep_chan(p) PROVE TypeOK'
  BY <1>t, <1>9 DEF sleep_chan, TypeOK
<1>10. ASSUME NEW p \in Slot, NEW q \in Slot, wakeup(p, q) PROVE TypeOK'
  BY <1>t, <1>10 DEF wakeup, TypeOK
<1>11. ASSUME NEW p \in Slot, NEW q \in Slot, wait_skip(p, q) PROVE TypeOK'
  BY <1>t, <1>11 DEF wait_skip, TypeOK
<1>12. ASSUME NEW p \in Slot, NEW q \in Slot, wait_reap(p, q) PROVE TypeOK'
  BY <1>t, <1>12 DEF wait_reap, Unkilled, TypeOK
<1>13. ASSUME NEW p \in Slot, NEW q \in Slot, wait_badaddr(p, q) PROVE TypeOK'
  BY <1>t, <1>13 DEF wait_badaddr, TypeOK
<1>14. ASSUME NEW c \in CPU, NEW p \in Slot, exit_zombie(c, p) PROVE TypeOK'
  BY <1>t, <1>14 DEF exit_zombie, AcquireOwn, TypeOK
<1>15. ASSUME NEW c \in CPU, NEW p \in Slot, sleep(c, p) PROVE TypeOK'
  BY <1>t, <1>15 DEF sleep, AcquireOwn, TypeOK
<1>16. ASSUME NEW p \in Slot, setkilled(p) PROVE TypeOK'
  <2>1. pid[p] \in Nat /\ asked \subseteq Nat /\ asked' = asked \cup {pid[p]}
    BY <1>t, <1>16 DEF setkilled, TypeOK
  <2>2. asked' \subseteq Nat
    BY <2>1, Zenon
  <2>3. killed' \in [Slot -> BOOLEAN]
    BY <1>t, <1>16 DEF setkilled, TypeOK
  <2> QED
    BY <1>t, <1>16, <2>2, <2>3 DEF setkilled, TypeOK
<1>17. ASSUME NEW p \in Slot, exit(p) PROVE TypeOK'
  BY <1>t, <1>17 DEF exit, Reparented, ExitWakes, TypeOK
<1>18. ASSUME NEW p \in Slot, wait(p) PROVE TypeOK'
  BY <1>t, <1>18 DEF wait, TypeOK
<1>19. ASSUME NEW p \in Slot, NEW q \in Slot, fork(p, q) PROVE TypeOK'
  BY <1>t, <1>19 DEF fork, TypeOK
<1>20. ASSUME NEW p \in Slot, NEW q \in Slot, fork_nomem(p, q) PROVE TypeOK'
  BY <1>t, <1>20 DEF fork_nomem, Unkilled, TypeOK
<1>21. ASSUME NEW p \in Slot, NEW q \in Slot, NEW k \in KillArgs, kill(p, q, k) PROVE TypeOK'
  BY <1>t, <1>21, ProcAssumption DEF kill, KillWakeup, TypeOK, ProcAssumption
<1>22. CASE UNCHANGED vars
  BY <1>t, <1>22 DEF vars, TypeOK
<1> QED
  BY <1>1, <1>2, <1>3, <1>4, <1>5, <1>6, <1>7, <1>8, <1>9, <1>10, <1>11, <1>12, <1>13, <1>14,
     <1>15, <1>16, <1>17, <1>18, <1>19, <1>20, <1>21, <1>22 DEF Next, Thread, Call

\* A process whose lock is free and that is not RUNNING is on no CPU.
LEMMA OffCpu ==
  ASSUME IInv, NEW p \in Slot, plock[p] = None, state[p] # "RUNNING", NEW c \in CPU
  PROVE  cproc[c] # p
BY Constants DEF IInv, Cpus, OneCpuPerProcess

LEMMA CpusStep == IInv /\ [Next]_vars => Cpus'
<1> SUFFICES ASSUME IInv, [Next]_vars PROVE Cpus'
  OBVIOUS
<1> USE Constants DEF Goto, lockvars, threadvars, Live
<1>t. TypeOK /\ Cpus
  BY DEF IInv
<1> DEFINE Same == UNCHANGED <<state, plock, cproc>>
<1>1. ASSUME Same PROVE Cpus'
  BY <1>t, <1>1 DEF Cpus, OneCpuPerProcess
<1>2. ASSUME NEW c \in CPU, sched(c) PROVE Cpus'
  BY <1>t, <1>2 DEF sched, TypeOK, Cpus, OneCpuPerProcess
<1>3. ASSUME NEW c \in CPU, NEW p \in Slot, scheduler(c, p) PROVE Cpus'
  <2>1. \A d \in CPU : cproc[d] # p
    BY <1>3, OffCpu DEF scheduler
  <2> QED
    BY <1>t, <1>3, <2>1 DEF scheduler, TypeOK, Cpus, OneCpuPerProcess
\* A process leaves the state RUNNING on its CPU, with its lock.
<1>4. ASSUME NEW c \in CPU, NEW p \in Slot, NEW s \in Live \cup {"ZOMBIE"}, s # "RUNNING", On(c, p),
             AcquireOwn(c, p), cproc' = cproc, state' = [state EXCEPT ![p] = s]
      PROVE  Cpus'
  BY <1>t, <1>4 DEF On, AcquireOwn, TypeOK, Cpus, OneCpuPerProcess
<1>5. ASSUME NEW c \in CPU, NEW p \in Slot, yield(c, p) \/ exit_zombie(c, p) PROVE Cpus'
  BY <1>4, <1>5 DEF yield, exit_zombie
<1>6. ASSUME NEW c \in CPU, NEW p \in Slot, sleep(c, p) PROVE Cpus'
  BY <1>t, <1>6 DEF sleep, On, AcquireOwn, TypeOK, Cpus, OneCpuPerProcess
<1>7. ASSUME NEW p \in Slot, sleep_chan(p) PROVE Cpus'
  <2>1. plock[p] # None
    BY <1>7 DEF sleep_chan, IInv, Places
  <2> QED
    BY <1>t, <1>7, <2>1 DEF sleep_chan, TypeOK, Cpus, OneCpuPerProcess
\* The state of a process that is on no CPU changes.
<1>8. ASSUME NEW q \in Slot, NEW s \in State, s # "RUNNING", state[q] # "RUNNING", plock[q] = None,
             UNCHANGED <<plock, cproc>>, state' = [state EXCEPT ![q] = s]
      PROVE  Cpus'
  <2>1. \A d \in CPU : cproc[d] # q
    BY <1>8, OffCpu
  <2> QED
    BY <1>t, <1>8, <2>1 DEF TypeOK, Cpus, OneCpuPerProcess
<1>9. ASSUME NEW p \in Slot, NEW q \in Slot, wakeup(p, q) \/ wait_reap(p, q) \/ fork(p, q) PROVE Cpus'
  BY <1>1, <1>8, <1>9 DEF wakeup, wait_reap, ChildOffCpu, fork, State
<1>10. ASSUME NEW p \in Slot, fork_run(p) PROVE Cpus'
  <2>1. np[p] \in Slot /\ state[np[p]] = "USED"
    BY <1>10 DEF fork_run, IInv, Forks, Forking
  <2> QED
    BY <1>8, <1>10, <2>1, Zenon DEF fork_run, State
<1>11. ASSUME NEW p \in Slot, NEW q \in Slot, NEW k, kill(p, q, k) PROVE Cpus'
  BY <1>1, <1>8, <1>11, Zenon DEF kill, KillWakeup, State
<1>12. ASSUME NEW p \in Slot, fork_spin(p) \/ fork_parent(p) \/ wait_acquire(p) \/ wait_none(p)
                             \/ setkilled(p) \/ exit(p) \/ wait(p)
       PROVE  Cpus'
  BY <1>1, <1>12 DEF fork_spin, fork_parent, wait_acquire, wait_none, setkilled, exit, wait
<1>13. ASSUME NEW p \in Slot, NEW q \in Slot, wait_skip(p, q) \/ wait_badaddr(p, q) \/ fork_nomem(p, q)
       PROVE  Cpus'
  BY <1>1, <1>13 DEF wait_skip, wait_badaddr, fork_nomem
<1>14. CASE UNCHANGED vars
  BY <1>1, <1>14 DEF vars
<1> QED
  BY <1>2, <1>3, <1>5, <1>6, <1>7, <1>9, <1>10, <1>11, <1>12, <1>13, <1>14 DEF Next, Thread, Call

LEMMA PlacesStep == IInv /\ [Next]_vars => Places'
<1> SUFFICES ASSUME IInv, [Next]_vars PROVE Places'
  OBVIOUS
<1> USE Constants DEF Goto, lockvars, threadvars, Preemptible
<1>t. TypeOK /\ Places
  BY DEF IInv
<1>1. ASSUME UNCHANGED <<state, pc, chan, plock>> PROVE Places'
  BY <1>t, <1>1 DEF Places
<1>2. ASSUME NEW c \in CPU, sched(c) PROVE Places'
  BY <1>t, <1>2 DEF sched, TypeOK, State, Places
<1>3. ASSUME NEW c \in CPU, NEW p \in Slot, scheduler(c, p) PROVE Places'
  BY <1>t, <1>3 DEF scheduler, TypeOK, Places
<1>4. ASSUME NEW c \in CPU, NEW p \in Slot, yield(c, p) PROVE Places'
  BY <1>t, <1>4 DEF yield, AcquireOwn, TypeOK, Places
<1>5. ASSUME NEW c \in CPU, NEW p \in Slot, exit_zombie(c, p) PROVE Places'
  BY <1>t, <1>5 DEF exit_zombie, AcquireOwn, TypeOK, Places
<1>6. ASSUME NEW c \in CPU, NEW p \in Slot, sleep(c, p) PROVE Places'
  BY <1>t, <1>6 DEF sleep, On, AcquireOwn, TypeOK, Places
<1>7. ASSUME NEW p \in Slot, sleep_chan(p) PROVE Places'
  BY <1>t, <1>7 DEF sleep_chan, TypeOK, Places
\* A RUNNING thread goes on in the kernel.
<1>8. ASSUME NEW p \in Slot, state[p] = "RUNNING", NEW l \in PC \ {"dead", "sleep"},
             Goto(p, l), UNCHANGED <<state, chan, plock>>
      PROVE  Places'
  BY <1>t, <1>8 DEF TypeOK, Places
<1>9. ASSUME NEW p \in Slot, fork_spin(p) \/ fork_parent(p) \/ wait_acquire(p) \/ wait_none(p)
                            \/ setkilled(p) \/ exit(p) \/ wait(p)
      PROVE  Places'
  <2>1. state[p] = "RUNNING" /\ UNCHANGED <<state, chan, plock>>
    BY <1>9 DEF fork_spin, fork_parent, wait_acquire, wait_none, setkilled, exit, wait, Step, On, Syscall
  <2>2. \/ pc' = pc
        \/ \E l \in PC \ {"dead", "sleep"} : Goto(p, l)
    BY <1>9 DEF fork_spin, fork_parent, wait_acquire, wait_none, setkilled, exit, wait, PC
  <2> QED
    BY <1>1, <1>8, <2>1, <2>2
<1>10. ASSUME NEW p \in Slot, NEW q \in Slot, wait_skip(p, q) \/ wait_badaddr(p, q) \/ fork_nomem(p, q)
       PROVE  Places'
  BY <1>1, <1>8, <1>10 DEF wait_skip, wait_badaddr, fork_nomem, Step, On, PC
<1>11. ASSUME NEW p \in Slot, NEW q \in Slot, wakeup(p, q) PROVE Places'
  BY <1>t, <1>11 DEF wakeup, TypeOK, Places
<1>12. ASSUME NEW p \in Slot, NEW q \in Slot, wait_reap(p, q) PROVE Places'
  BY <1>t, <1>12 DEF wait_reap, Step, On, TypeOK, Places
<1>13. ASSUME NEW p \in Slot, NEW q \in Slot, fork(p, q) PROVE Places'
  BY <1>t, <1>13 DEF fork, Syscall, Step, On, TypeOK, Places
<1>14. ASSUME NEW p \in Slot, fork_run(p) PROVE Places'
  <2>1. np[p] \in Slot /\ state[np[p]] = "USED" /\ state[p] = "RUNNING"
    BY <1>14 DEF fork_run, Step, On, IInv, Forks, Forking
  <2> QED
    BY <1>t, <1>14, <2>1 DEF fork_run, TypeOK, Places
<1>15. ASSUME NEW p \in Slot, NEW q \in Slot, NEW k, kill(p, q, k) PROVE Places'
  BY <1>t, <1>15 DEF kill, KillWakeup, TypeOK, Places
<1>16. CASE UNCHANGED vars
  BY <1>1, <1>16 DEF vars
<1> QED
  BY <1>2, <1>3, <1>4, <1>5, <1>6, <1>7, <1>9, <1>10, <1>11, <1>12, <1>13, <1>14, <1>15, <1>16
  DEF Next, Thread, Call

LEMMA WaitLockStep == IInv /\ [Next]_vars => WaitLock'
<1> SUFFICES ASSUME IInv, [Next]_vars PROVE WaitLock'
  OBVIOUS
<1> USE Constants DEF Goto, lockvars, threadvars, Holding
<1>t. TypeOK /\ WaitLock
  BY DEF IInv
<1>1. ASSUME UNCHANGED <<pc, wait_lock>> PROVE WaitLock'
  BY <1>t, <1>1 DEF WaitLock
\* A thread moves between two places where it does not hold wait_lock, or where it does.
<1>2. ASSUME NEW p \in Slot, NEW l, pc[p] \in Holding <=> l \in Holding, Goto(p, l), wait_lock' = wait_lock
      PROVE  WaitLock'
  BY <1>t, <1>2 DEF WaitLock, TypeOK
\* It acquires it, or releases it.
<1>3. ASSUME NEW p \in Slot, NEW l, pc[p] \notin Holding, l \in Holding, Goto(p, l), wait_lock = None,
             wait_lock' = p
      PROVE  WaitLock'
  BY <1>t, <1>3 DEF WaitLock, TypeOK
<1>4. ASSUME NEW p \in Slot, NEW l, pc[p] \in Holding, l \notin Holding, Goto(p, l), wait_lock' = None
      PROVE  WaitLock'
  BY <1>t, <1>4 DEF WaitLock, TypeOK
<1>5. ASSUME NEW c \in CPU, sched(c) PROVE WaitLock'
  BY <1>1, <1>5 DEF sched
<1>6. ASSUME NEW c \in CPU, NEW p \in Slot, scheduler(c, p) \/ yield(c, p) PROVE WaitLock'
  BY <1>1, <1>6 DEF scheduler, yield
<1>7. ASSUME NEW c \in CPU, NEW p \in Slot, exit_zombie(c, p) \/ sleep(c, p) PROVE WaitLock'
  BY <1>4, <1>7 DEF exit_zombie, sleep
<1>8. ASSUME NEW p \in Slot, fork_spin(p) \/ fork_parent(p) \/ wait(p) \/ sleep_chan(p) PROVE WaitLock'
  BY <1>2, <1>8 DEF fork_spin, fork_parent, wait, sleep_chan, Syscall
<1>9. ASSUME NEW p \in Slot, fork_run(p) PROVE WaitLock'
  <2>1. np[p] \in Slot /\ state[np[p]] = "USED"
    BY <1>9 DEF fork_run, IInv, Forks, Forking
  <2>2. pc[np[p]] \notin Holding
    BY <2>1 DEF IInv, Places
  <2> QED
    BY <1>t, <1>9, <2>1, <2>2 DEF fork_run, TypeOK, WaitLock
<1>10. ASSUME NEW p \in Slot, wait_acquire(p) \/ exit(p) PROVE WaitLock'
  BY <1>3, <1>10 DEF wait_acquire, exit
<1>11. ASSUME NEW p \in Slot, wait_none(p) PROVE WaitLock'
  BY <1>2, <1>4, <1>11 DEF wait_none
<1>12. ASSUME NEW p \in Slot, setkilled(p) PROVE WaitLock'
  BY <1>1, <1>12 DEF setkilled
<1>13. ASSUME NEW p \in Slot, NEW q \in Slot,
              wakeup(p, q) \/ wait_skip(p, q) \/ fork_nomem(p, q)
       PROVE  WaitLock'
  BY <1>1, <1>13 DEF wakeup, wait_skip, fork_nomem
<1>14. ASSUME NEW p \in Slot, NEW q \in Slot, wait_reap(p, q) \/ wait_badaddr(p, q) PROVE WaitLock'
  BY <1>4, <1>14 DEF wait_reap, wait_badaddr
<1>15. ASSUME NEW p \in Slot, NEW q \in Slot, fork(p, q) PROVE WaitLock'
  BY <1>2, <1>15, Zenon DEF fork, Syscall
<1>16. ASSUME NEW p \in Slot, NEW q \in Slot, NEW k, kill(p, q, k) PROVE WaitLock'
  BY <1>1, <1>16 DEF kill
<1>17. CASE UNCHANGED vars
  BY <1>1, <1>17 DEF vars
<1> QED
  BY <1>5, <1>6, <1>7, <1>8, <1>9, <1>10, <1>11, <1>12, <1>13, <1>14, <1>15, <1>16, <1>17
  DEF Next, Thread, Call

LEMMA ForksStep == IInv /\ [Next]_vars => Forks'
<1> SUFFICES ASSUME IInv, [Next]_vars PROVE Forks'
  OBVIOUS
<1> USE Constants DEF Goto, lockvars, threadvars, Forking
<1>t. TypeOK /\ Forks
  BY DEF IInv
\* The entries that are USED stay so, and have a parent if they had one.
<1> DEFINE Kept == \A q \in Slot : state[q] = "USED" =>
                     state'[q] = "USED" /\ (parent[q] = None <=> parent'[q] = None)
<1>1. ASSUME UNCHANGED <<pc, np>>, Kept PROVE Forks'
  BY <1>t, <1>1 DEF Forks, TypeOK
<1>2. ASSUME NEW p \in Slot, NEW l, pc[p] \notin Forking, l \notin Forking, Goto(p, l), np' = np, Kept
      PROVE  Forks'
  BY <1>t, <1>2 DEF Forks, TypeOK
<1>3. ASSUME NEW c \in CPU, sched(c) PROVE Forks'
  BY <1>1, <1>3 DEF sched
<1>4. ASSUME NEW c \in CPU, NEW p \in Slot, scheduler(c, p) \/ yield(c, p) PROVE Forks'
  <2>1. state[p] # "USED" /\ UNCHANGED <<pc, np, parent>>
    BY <1>4 DEF scheduler, yield, On
  <2>2. Kept
    BY <1>t, <1>4, <2>1 DEF scheduler, yield, TypeOK
  <2> QED
    BY <1>1, <2>1, <2>2
<1>5. ASSUME NEW c \in CPU, NEW p \in Slot, exit_zombie(c, p) \/ sleep(c, p) PROVE Forks'
  <2>1. state[p] # "USED" /\ UNCHANGED <<np, parent>>
    BY <1>5 DEF exit_zombie, sleep, On
  <2>2. Kept
    BY <1>t, <1>5, <2>1 DEF exit_zombie, sleep, TypeOK
  <2> QED
    BY <1>2, <1>5, <2>1, <2>2 DEF exit_zombie, sleep
<1>6. ASSUME NEW p \in Slot, wait(p) \/ wait_acquire(p) \/ wait_none(p) PROVE Forks'
  BY <1>2, <1>6 DEF wait, wait_acquire, wait_none, Syscall
<1>7. ASSUME NEW p \in Slot, sleep_chan(p) PROVE Forks'
  <2>1. state[p] # "USED" /\ UNCHANGED <<np, parent>>
    BY <1>7 DEF sleep_chan, Step, On
  <2>2. Kept
    BY <1>t, <1>7, <2>1 DEF sleep_chan, TypeOK
  <2> QED
    BY <1>2, <1>7, <2>1, <2>2, Zenon DEF sleep_chan
<1>8. ASSUME NEW p \in Slot, exit(p) PROVE Forks'
  <2>1. Kept
    BY <1>t, <1>8 DEF exit, Reparented, TypeOK
  <2> QED
    BY <1>2, <1>8, <2>1, Zenon DEF exit
<1>9. ASSUME NEW p \in Slot, fork_spin(p) PROVE Forks'
  BY <1>t, <1>9 DEF fork_spin, Forks, TypeOK
<1>10. ASSUME NEW p \in Slot, fork_parent(p) PROVE Forks'
  BY <1>t, <1>10 DEF fork_parent, Forks, TypeOK
<1>11. ASSUME NEW p \in Slot, fork_run(p) PROVE Forks'
  <2>1. np[p] \in Slot /\ state[np[p]] = "USED" /\ state[p] = "RUNNING"
    BY <1>t, <1>11 DEF fork_run, Step, On, Forks
  <2>2. pc[np[p]] \notin Forking
    BY <2>1 DEF IInv, Places
  <2> QED
    BY <1>t, <1>11, <2>1, <2>2 DEF fork_run, Forks, TypeOK
<1>12. ASSUME NEW p \in Slot, NEW q \in Slot, fork(p, q) PROVE Forks'
  <2>1. state[p] = "RUNNING" /\ p # q /\ \A r \in Slot : np[r] # q
    BY <1>t, <1>12 DEF fork, Syscall, Step, On, Forks
  <2>2. parent[q] = None
    BY <1>12 DEF fork, IInv, Parents, ParentCanWait
  <2> QED
    BY <1>t, <1>12, <2>1, <2>2 DEF fork, Syscall, Forks, TypeOK
<1>13. ASSUME NEW p \in Slot, NEW q \in Slot, wait_reap(p, q) PROVE Forks'
  <2>1. Kept
    BY <1>t, <1>13 DEF wait_reap, TypeOK
  <2> QED
    BY <1>2, <1>13, <2>1, Zenon DEF wait_reap
<1>14. ASSUME NEW p \in Slot, NEW q \in Slot, wait_badaddr(p, q) PROVE Forks'
  BY <1>2, <1>14, Zenon DEF wait_badaddr
<1>15. ASSUME NEW p \in Slot, NEW q \in Slot, wakeup(p, q) PROVE Forks'
  <2>1. Kept
    BY <1>t, <1>15 DEF wakeup, TypeOK
  <2> QED
    BY <1>1, <1>15, <2>1 DEF wakeup
<1>16. ASSUME NEW p \in Slot, NEW q \in Slot, setkilled(p) \/ wait_skip(p, q) \/ fork_nomem(p, q) PROVE Forks'
  BY <1>1, <1>16 DEF setkilled, wait_skip, fork_nomem
<1>17. ASSUME NEW p \in Slot, NEW q \in Slot, NEW k, kill(p, q, k) PROVE Forks'
  <2>1. Kept
    BY <1>t, <1>17 DEF kill, KillWakeup, TypeOK
  <2> QED
    BY <1>1, <1>17, <2>1 DEF kill
<1>18. CASE UNCHANGED vars
  BY <1>1, <1>18 DEF vars
<1> QED
  BY <1>3, <1>4, <1>5, <1>6, <1>7, <1>8, <1>9, <1>10, <1>11, <1>12, <1>13, <1>14, <1>15, <1>16, <1>17,
     <1>18 DEF Next, Thread, Call

LEMMA ParentsStep == IInv /\ [Next]_vars => Parents'
<1> SUFFICES ASSUME IInv, [Next]_vars PROVE Parents'
  OBVIOUS
<1> USE Constants DEF Goto, lockvars, threadvars, Live
<1>t. TypeOK /\ Parents
  BY DEF IInv
\* Live processes stay so, the others stay what they are; nobody starts to exit.
<1> DEFINE Kept == \A q \in Slot : IF state[q] \in Live THEN state'[q] \in Live ELSE state'[q] = state[q]
<1> DEFINE NoExit == \A q \in Slot : pc'[q] = "exit_wakeup" => pc[q] = "exit_wakeup"
<1>1. ASSUME parent' = parent, Kept, NoExit PROVE Parents'
  <2>1. ParentCanWait'
    BY <1>t, <1>1 DEF Parents, ParentCanWait, TypeOK
  <2>2. \A q \in Slot : Children(q)' = Children(q)
    BY <1>1 DEF Children
  <2> QED
    BY <1>t, <1>1, <2>1, <2>2 DEF Parents
<1>2. ASSUME NEW c \in CPU, sched(c) PROVE Parents'
  BY <1>1, <1>2 DEF sched
<1>3. ASSUME NEW c \in CPU, NEW p \in Slot, scheduler(c, p) \/ yield(c, p) \/ sleep(c, p) PROVE Parents'
  <2>1. Kept
    BY <1>t, <1>3 DEF scheduler, yield, sleep, On, TypeOK
  <2>2. NoExit
    BY <1>t, <1>3 DEF scheduler, yield, sleep, TypeOK
  <2> QED
    BY <1>1, <1>3, <2>1, <2>2 DEF scheduler, yield, sleep
<1>4. ASSUME NEW p \in Slot, fork_spin(p) \/ wait(p) \/ wait_acquire(p) \/ wait_none(p) \/ setkilled(p)
      PROVE  Parents'
  <2>1. NoExit
    BY <1>t, <1>4 DEF fork_spin, wait, wait_acquire, wait_none, setkilled, TypeOK
  <2> QED
    BY <1>1, <1>4, <2>1 DEF fork_spin, wait, wait_acquire, wait_none, setkilled
<1>5. ASSUME NEW p \in Slot, sleep_chan(p) PROVE Parents'
  <2>1. Kept /\ NoExit
    BY <1>t, <1>5 DEF sleep_chan, Step, On, TypeOK
  <2> QED
    BY <1>1, <1>5, <2>1 DEF sleep_chan
<1>6. ASSUME NEW p \in Slot, NEW q \in Slot, NEW k, wakeup(p, q) \/ kill(p, q, k) PROVE Parents'
  <2>1. Kept
    BY <1>t, <1>6 DEF wakeup, kill, KillWakeup, TypeOK
  <2> QED
    BY <1>1, <1>6, <2>1 DEF wakeup, kill
<1>7. ASSUME NEW p \in Slot, NEW q \in Slot, wait_skip(p, q) \/ fork_nomem(p, q) PROVE Parents'
  BY <1>1, <1>7 DEF wait_skip, fork_nomem
<1>8. ASSUME NEW p \in Slot, NEW q \in Slot, wait_badaddr(p, q) PROVE Parents'
  <2>1. NoExit
    BY <1>t, <1>8 DEF wait_badaddr, TypeOK
  <2> QED
    BY <1>1, <1>8, <2>1 DEF wait_badaddr
<1>9. ASSUME NEW p \in Slot, NEW q \in Slot, wait_reap(p, q) PROVE Parents'
  <2>1. state[p] = "RUNNING" /\ state[q] = "ZOMBIE" /\ q # init /\ \A r \in Slot : parent[r] # q
    BY <1>t, <1>9 DEF wait_reap, Step, On, Parents, ParentCanWait
  <2>2. ParentCanWait'
    BY <1>t, <1>9, <2>1 DEF wait_reap, Parents, ParentCanWait, TypeOK
  <2>3. NoExit /\ \A r \in Slot : Children(r)' \subseteq Children(r)
    BY <1>t, <1>9 DEF wait_reap, Children, TypeOK
  <2> QED
    BY <1>t, <1>9, <2>1, <2>2, <2>3 DEF wait_reap, Parents, TypeOK
<1>10. ASSUME NEW p \in Slot, NEW q \in Slot, fork(p, q) PROVE Parents'
  <2>1. state[q] = "UNUSED" /\ q # init /\ parent[q] = None /\ \A r \in Slot : parent[r] # q
    BY <1>t, <1>10 DEF fork, Parents, ParentCanWait
  <2>2. ParentCanWait'
    BY <1>t, <1>10, <2>1 DEF fork, Parents, ParentCanWait, TypeOK
  <2>3. NoExit /\ \A r \in Slot : Children(r)' = Children(r)
    BY <1>t, <1>10 DEF fork, Children, TypeOK
  <2> QED
    BY <1>t, <1>10, <2>1, <2>2, <2>3 DEF fork, Parents, TypeOK
<1>11. ASSUME NEW p \in Slot, fork_parent(p) PROVE Parents'
  <2>1. np[p] \in Slot /\ state[np[p]] = "USED" /\ state[p] = "RUNNING"
    BY <1>11 DEF fork_parent, Step, On, IInv, Forks, Forking
  <2>2. np[p] # init /\ np[p] # p
    BY <1>t, <2>1 DEF Parents
  <2>3. ParentCanWait'
    BY <1>t, <1>11, <2>1 DEF fork_parent, Parents, ParentCanWait, TypeOK
  <2>4. \A r \in Slot : pc'[r] # "exit_wakeup"
    <3>1. \A r \in Slot : pc[r] # "exit_wakeup"
      BY <1>11 DEF fork_parent, IInv, WaitLock, Holding
    <3> QED
      BY <1>t, <1>11, <3>1 DEF fork_parent, TypeOK
  <2> QED
    BY <1>t, <1>11, <2>1, <2>2, <2>3, <2>4 DEF fork_parent, Parents, TypeOK
<1>12. ASSUME NEW p \in Slot, fork_run(p) PROVE Parents'
  <2>1. np[p] \in Slot /\ state[np[p]] = "USED" /\ parent[np[p]] # None
    BY <1>12 DEF fork_run, IInv, Forks, Forking
  <2>2. np[p] # init /\ \A r \in Slot : parent[r] # np[p]
    BY <1>t, <2>1 DEF Parents, ParentCanWait
  <2>3. ParentCanWait'
    BY <1>t, <1>12, <2>1, <2>2 DEF fork_run, Parents, ParentCanWait, TypeOK
  <2>4. NoExit /\ \A r \in Slot : Children(r)' = Children(r)
    BY <1>t, <1>12, <2>1 DEF fork_run, Children, TypeOK
  <2> QED
    BY <1>t, <1>12, <2>1, <2>2, <2>3, <2>4 DEF fork_run, Parents, TypeOK
<1>13. ASSUME NEW p \in Slot, exit(p) PROVE Parents'
  <2>1. parent' = Reparented(p) /\ state' = state /\ p # init /\ state[p] = "RUNNING"
    BY <1>13 DEF exit, Step, On
  <2>2. ParentCanWait'
    BY <1>t, <2>1 DEF Reparented, Parents, ParentCanWait, TypeOK
  <2>3. \A r \in Slot : pc'[r] = "exit_wakeup" => r = p
    <3>1. \A r \in Slot : pc[r] # "exit_wakeup"
      BY <1>13 DEF exit, IInv, WaitLock, Holding
    <3> QED
      BY <1>t, <1>13, <3>1 DEF exit, TypeOK
  <2>4. Children(p)' = {} /\ \A r \in Slot : parent'[r] # r
    BY <1>t, <2>1 DEF Reparented, Children, Parents, TypeOK
  <2>5. parent'[init] = None
    BY <1>t, <2>1 DEF Reparented, Parents
  <2> QED
    BY <1>t, <2>1, <2>2, <2>3, <2>4, <2>5 DEF Parents
<1>14. ASSUME NEW c \in CPU, NEW p \in Slot, exit_zombie(c, p) PROVE Parents'
  <2>1. state[p] = "RUNNING" /\ p # init /\ Children(p) = {} /\ parent' = parent
    BY <1>t, <1>14 DEF exit_zombie, On, Parents
  <2>2. \A r \in Slot : parent[r] # p
    BY <2>1 DEF Children
  <2>3. ParentCanWait'
    BY <1>t, <1>14, <2>1, <2>2 DEF exit_zombie, Parents, ParentCanWait, TypeOK
  <2>4. NoExit /\ \A r \in Slot : Children(r)' = Children(r)
    BY <1>t, <1>14 DEF exit_zombie, Children, TypeOK
  <2> QED
    BY <1>t, <1>14, <2>1, <2>3, <2>4 DEF exit_zombie, Parents, TypeOK
<1>15. CASE UNCHANGED vars
  BY <1>1, <1>15 DEF vars
<1> QED
  BY <1>2, <1>3, <1>4, <1>5, <1>6, <1>7, <1>8, <1>9, <1>10, <1>11, <1>12, <1>13, <1>14, <1>15
  DEF Next, Thread, Call

LEMMA ScansStep == IInv /\ [Next]_vars => Scans'
<1> SUFFICES ASSUME IInv, [Next]_vars PROVE Scans'
  OBVIOUS
<1> USE Constants DEF Goto, lockvars, threadvars
<1>t. TypeOK /\ Scans
  BY DEF IInv
<1>w. WaitLock /\ WaitLock'
  BY WaitLockStep DEF IInv
<1> DEFINE Scanning == {"wait_scan", "wait_sleep"}
<1> DEFINE NoZombie == \A q \in Slot : state'[q] = "ZOMBIE" => state[q] = "ZOMBIE"
\* Nobody starts a scan, the scans and the children are as before, and nobody exits.
<1>1. ASSUME \A p \in Slot : pc'[p] \in Scanning => pc'[p] = pc[p] /\ todo'[p] = todo[p],
             parent' = parent, NoZombie
      PROVE  Scans'
  <2>1. \A p \in Slot : Children(p)' = Children(p)
    BY <1>1 DEF Children
  <2>2. \A p \in Slot : Children(p) \subseteq Slot
    BY DEF Children
  <2> QED
    BY <1>t, <1>1, <2>1, <2>2 DEF Scans
\* Nobody scans: wait_lock is free.
<1>2. ASSUME wait_lock' = None PROVE Scans'
  BY <1>w, <1>2 DEF WaitLock, Holding, Scans
<1>3. ASSUME NEW c \in CPU, sched(c) PROVE Scans'
  BY <1>1, <1>3 DEF sched
<1>4. ASSUME NEW c \in CPU, NEW p \in Slot, scheduler(c, p) \/ yield(c, p) PROVE Scans'
  <2>1. NoZombie
    BY <1>t, <1>4 DEF scheduler, yield, TypeOK
  <2> QED
    BY <1>1, <1>4, <2>1 DEF scheduler, yield
<1>5. ASSUME NEW c, NEW p \in Slot, NEW q \in Slot,
             exit_zombie(c, p) \/ sleep(c, p) \/ wait_reap(p, q) \/ wait_badaddr(p, q) \/ fork_parent(p)
      PROVE  Scans'
  BY <1>2, <1>5 DEF exit_zombie, sleep, wait_reap, wait_badaddr, fork_parent
<1>6. ASSUME NEW p \in Slot, fork_spin(p) \/ wait(p) \/ setkilled(p) PROVE Scans'
  <2>1. \A r \in Slot : pc'[r] \in Scanning => pc'[r] = pc[r]
    BY <1>t, <1>6 DEF fork_spin, wait, setkilled, TypeOK
  <2> QED
    BY <1>1, <1>6, <2>1 DEF fork_spin, wait, setkilled
<1>7. ASSUME NEW p \in Slot, sleep_chan(p) PROVE Scans'
  <2>1. NoZombie /\ \A r \in Slot : pc'[r] \in Scanning => pc'[r] = pc[r]
    BY <1>t, <1>7 DEF sleep_chan, TypeOK
  <2> QED
    BY <1>1, <1>7, <2>1 DEF sleep_chan
<1>8. ASSUME NEW p \in Slot, NEW q \in Slot, NEW k, fork(p, q) \/ kill(p, q, k) PROVE Scans'
  <2>1. NoZombie /\ \A r \in Slot : pc'[r] \in Scanning => pc'[r] = pc[r]
    BY <1>t, <1>8 DEF fork, kill, KillWakeup, TypeOK
  <2> QED
    BY <1>1, <1>8, <2>1 DEF fork, kill
<1>9. ASSUME NEW p \in Slot, fork_run(p) PROVE Scans'
  <2>1. np[p] \in Slot
    BY <1>9 DEF fork_run, IInv, Forks, Forking
  <2>2. NoZombie /\ \A r \in Slot : pc'[r] \in Scanning => pc'[r] = pc[r]
    BY <1>t, <1>9, <2>1 DEF fork_run, TypeOK
  <2> QED
    BY <1>1, <1>9, <2>2, Zenon DEF fork_run
<1>10. ASSUME NEW p \in Slot, NEW q \in Slot, fork_nomem(p, q) PROVE Scans'
  BY <1>1, <1>10 DEF fork_nomem
<1>11. ASSUME NEW p \in Slot, exit(p) PROVE Scans'
  <2>1. pc'[p] = "exit_wakeup" /\ wait_lock' = p
    BY <1>t, <1>11 DEF exit, TypeOK
  <2>2. \A r \in Slot : pc'[r] \notin Scanning
    BY <1>w, <2>1 DEF WaitLock, Holding
  <2> QED
    BY <2>2 DEF Scans
<1>12. ASSUME NEW p \in Slot, NEW q \in Slot, wakeup(p, q) PROVE Scans'
  <2>1. pc'[p] = "exit_wakeup"
    BY <1>12 DEF wakeup
  <2>2. \A r \in Slot : pc'[r] \notin Scanning
    BY <1>w, <2>1 DEF WaitLock, Holding
  <2> QED
    BY <2>2 DEF Scans
\* The other three are the steps of the scan, by the process that has wait_lock.
<1>13. ASSUME NEW p \in Slot, wait_acquire(p) PROVE Scans'
  <2>1. pc'[p] = "wait_scan" /\ todo'[p] = Children(p)' /\ wait_lock' = p
    BY <1>t, <1>13 DEF wait_acquire, Children, TypeOK
  <2>2. \A r \in Slot : pc'[r] \in Scanning => r = p
    BY <1>w, <2>1 DEF WaitLock, Holding
  <2> QED
    BY <2>1, <2>2 DEF Scans
<1>14. ASSUME NEW p \in Slot, NEW q \in Slot, wait_skip(p, q) PROVE Scans'
  <2>1. pc'[p] = "wait_scan" /\ todo'[p] = todo[p] \ {q} /\ state[q] # "ZOMBIE" /\ pc[p] = "wait_scan"
    BY <1>t, <1>14 DEF wait_skip, TypeOK
  <2>2. \A r \in Slot : pc'[r] \in Scanning => r = p
    BY <1>w, <2>1 DEF WaitLock, Holding
  <2>3. Children(p)' = Children(p) /\ state' = state
    BY <1>14 DEF wait_skip, Children
  <2> QED
    BY <1>t, <2>1, <2>2, <2>3 DEF Scans
<1>15. ASSUME NEW p \in Slot, wait_none(p) PROVE Scans'
  <2>1. todo[p] = {} /\ pc[p] = "wait_scan" /\ state' = state /\ wait_lock = p
    BY <1>w, <1>15 DEF wait_none, WaitLock, Holding
  <2>2. Children(p)' = Children(p)
    BY <1>15 DEF wait_none, Children
  <2>3. CASE Children(p) = {} \/ killed[p]
    BY <1>2, <1>15, <2>3 DEF wait_none
  <2>4. CASE ~(Children(p) = {} \/ killed[p])
    <3>1. pc'[p] = "wait_sleep" /\ wait_lock' = p
      BY <1>t, <1>15, <2>1, <2>4 DEF wait_none, TypeOK
    <3>2. \A r \in Slot : pc'[r] \in Scanning => r = p
      BY <1>w, <3>1 DEF WaitLock, Holding
    <3> QED
      BY <1>t, <2>1, <2>2, <2>4, <3>1, <3>2 DEF Scans
  <2> QED
    BY <2>3, <2>4
<1>16. CASE UNCHANGED vars
  BY <1>1, <1>16 DEF vars
<1> QED
  BY <1>3, <1>4, <1>5, <1>6, <1>7, <1>8, <1>9, <1>10, <1>11, <1>12, <1>13, <1>14, <1>15, <1>16
  DEF Next, Thread, Call

LEMMA SleepersStep == IInv /\ [Next]_vars => Sleepers'
<1> SUFFICES ASSUME IInv, [Next]_vars PROVE Sleepers'
  OBVIOUS
<1> USE Constants DEF Goto, lockvars, threadvars
<1>t. TypeOK /\ Sleepers
  BY DEF IInv
<1>w. WaitLock /\ WaitLock'
  BY WaitLockStep DEF IInv
<1>c. \A p \in Slot : Children(p) \subseteq Slot
  BY DEF Children
<1> DEFINE Drowsy(p) == state[p] = "SLEEPING" \/ pc[p] = "sleep"
<1> DEFINE NoSleep == \A p \in Slot : Drowsy(p)' => Drowsy(p)
<1> DEFINE NoZombie == \A q \in Slot : state'[q] = "ZOMBIE" => state[q] = "ZOMBIE"
<1> DEFINE SameExits == \A q \in Slot : pc'[q] = "exit_wakeup" <=> pc[q] = "exit_wakeup"
\* Nobody falls asleep or exits, and whoever was to be woken still is.
<1>1. ASSUME parent' = parent, NoSleep, NoZombie, SameExits, wakes' = wakes,
             \A x, p \in Slot : WillWake(x, p) /\ Drowsy(p)' => p \in todo'[x]
      PROVE  Sleepers'
  <2>1. \A p \in Slot : Children(p)' = Children(p)
    BY <1>1 DEF Children
  <2>2. \A x, p \in Slot : WillWake(x, p) /\ Drowsy(p)' => WillWake(x, p)'
    BY <1>1 DEF WillWake
  <2> SUFFICES ASSUME NEW p \in Slot, Drowsy(p)'
               PROVE  /\ Children(p)' # {}
                      /\ \A q \in Children(p)' :
                            /\ state'[q] = "ZOMBIE" => \E x \in Slot : WillWake(x, p)'
                            /\ pc'[q] = "exit_wakeup" => WillWake(q, p)'
    BY DEF Sleepers
  <2>3. /\ Children(p) # {}
        /\ \A q \in Children(p) : /\ state[q] = "ZOMBIE" => \E x \in Slot : WillWake(x, p)
                                  /\ pc[q] = "exit_wakeup" => WillWake(q, p)
    BY <1>t, <1>1 DEF Sleepers
  <2> QED
    BY <1>c, <1>1, <2>1, <2>2, <2>3
\* While nobody exits, a sleeper has children and none of them is a ZOMBIE.
<1> DEFINE Calm(p) == Children(p) # {} /\ \A q \in Children(p) : state[q] # "ZOMBIE"
<1> DEFINE NoExits == \A x \in Slot : pc[x] # "exit_wakeup"
<1>n. ASSUME NoExits, NEW p \in Slot, Drowsy(p) PROVE Calm(p)
  BY <1>t, <1>n DEF Sleepers, WillWake
<1>m. ASSUME NoExits', \A p \in Slot : Drowsy(p)' => Calm(p)' PROVE Sleepers'
  <2>1. \A p \in Slot : Children(p)' \subseteq Slot
    BY DEF Children
  <2> QED
    BY <1>m, <2>1 DEF Sleepers
<1>2. ASSUME NEW c \in CPU, sched(c) PROVE Sleepers'
  BY <1>1, <1>2 DEF sched, WillWake
<1>3. ASSUME NEW c \in CPU, NEW p \in Slot, scheduler(c, p) \/ yield(c, p) PROVE Sleepers'
  <2>1. NoZombie /\ NoSleep
    BY <1>t, <1>3 DEF scheduler, yield, TypeOK
  <2> QED
    BY <1>1, <1>3, <2>1 DEF scheduler, yield, WillWake
<1>4. ASSUME NEW p \in Slot, fork_spin(p) \/ wait(p) \/ setkilled(p) \/ wait_none(p) PROVE Sleepers'
  <2>1. NoSleep /\ SameExits
    BY <1>t, <1>4 DEF fork_spin, wait, setkilled, wait_none, Syscall, TypeOK
  <2> QED
    BY <1>1, <1>4, <2>1 DEF fork_spin, wait, setkilled, wait_none, WillWake
<1>5. ASSUME NEW p \in Slot, sleep_chan(p) PROVE Sleepers'
  <2>1. NoSleep /\ SameExits /\ NoZombie
    BY <1>t, <1>5 DEF sleep_chan, TypeOK
  <2> QED
    BY <1>1, <1>5, <2>1 DEF sleep_chan, WillWake
<1>6. ASSUME NEW p \in Slot, NEW q \in Slot, NEW k, fork(p, q) \/ kill(p, q, k) PROVE Sleepers'
  <2>1. NoSleep /\ SameExits /\ NoZombie
    BY <1>t, <1>6 DEF fork, kill, KillWakeup, Syscall, TypeOK
  <2> QED
    BY <1>1, <1>6, <2>1 DEF fork, kill, WillWake
<1>7. ASSUME NEW p \in Slot, NEW q \in Slot, fork_nomem(p, q) PROVE Sleepers'
  BY <1>1, <1>7 DEF fork_nomem, WillWake
<1>8. ASSUME NEW p \in Slot, fork_run(p) PROVE Sleepers'
  <2>1. np[p] \in Slot /\ state[np[p]] = "USED"
    BY <1>8 DEF fork_run, IInv, Forks, Forking
  <2>2. pc[np[p]] # "exit_wakeup"
    BY <2>1 DEF IInv, Places
  <2>3. NoSleep /\ SameExits /\ NoZombie
    BY <1>t, <1>8, <2>1, <2>2 DEF fork_run, TypeOK
  <2> QED
    BY <1>1, <1>8, <2>3, Zenon DEF fork_run, WillWake
\* The steps of the scan: nobody is exiting, as the process has wait_lock.
<1>9. ASSUME NEW p \in Slot, NEW q \in Slot, wait_acquire(p) \/ wait_skip(p, q) \/ wait_badaddr(p, q)
      PROVE  Sleepers'
  <2>1. NoSleep /\ SameExits
    BY <1>t, <1>9 DEF wait_acquire, wait_skip, wait_badaddr, TypeOK
  <2>2. \A x \in Slot : pc[x] # "exit_wakeup"
    BY <1>w, <1>9 DEF wait_acquire, wait_skip, wait_badaddr, WaitLock, Holding
  <2> QED
    BY <1>1, <1>9, <2>1, <2>2 DEF wait_acquire, wait_skip, wait_badaddr, WillWake
<1>10. ASSUME NEW p \in Slot, NEW q \in Slot, wait_reap(p, q) PROVE Sleepers'
  <2>1. \A x \in Slot : pc[x] # "exit_wakeup" /\ pc'[x] # "exit_wakeup"
    BY <1>w, <1>10 DEF wait_reap, WaitLock, Holding
  <2>2. parent[q] = p /\ state[p] = "RUNNING"
    BY <1>10 DEF wait_reap, Step, On, IInv, Scans, Children
  <2>3. \A r \in Slot : Drowsy(r)' => Drowsy(r) /\ r # p
    BY <1>t, <1>10, <2>2 DEF wait_reap, TypeOK
  <2>4. \A r \in Slot : r # p => Children(r)' = Children(r)
    BY <1>t, <1>10, <2>2 DEF wait_reap, Children, TypeOK
  <2>5. NoZombie
    BY <1>t, <1>10 DEF wait_reap, TypeOK
  <2>6. ASSUME NEW r \in Slot, Drowsy(r)' PROVE Calm(r)'
    <3>1. Calm(r) /\ Children(r)' = Children(r)
      BY <1>n, <2>1, <2>3, <2>4, <2>6
    <3> QED
      BY <1>c, <2>5, <3>1
  <2> QED
    BY <1>m, <2>1, <2>6
<1>11. ASSUME NEW p \in Slot, fork_parent(p) PROVE Sleepers'
  <2>1. np[p] \in Slot /\ parent[np[p]] = None
    BY <1>11 DEF fork_parent, IInv, Forks, Forking
  <2>2. state[p] = "RUNNING"
    BY <1>11 DEF fork_parent, Step, On
  <2>3. \A x \in Slot : pc[x] # "exit_wakeup" /\ pc'[x] # "exit_wakeup"
    BY <1>w, <1>11 DEF fork_parent, WaitLock, Holding
  <2>4. \A r \in Slot : Drowsy(r)' => Drowsy(r) /\ r # p
    BY <1>t, <1>11, <2>2 DEF fork_parent, TypeOK
  <2>5. \A r \in Slot : r # p => Children(r)' = Children(r)
    BY <1>t, <1>11, <2>1 DEF fork_parent, Children, TypeOK
  <2>6. NoZombie
    BY <1>11 DEF fork_parent
  <2>7. ASSUME NEW r \in Slot, Drowsy(r)' PROVE Calm(r)'
    <3>1. Calm(r) /\ Children(r)' = Children(r)
      BY <1>n, <2>3, <2>4, <2>5, <2>7
    <3> QED
      BY <1>c, <2>6, <3>1
  <2> QED
    BY <1>m, <2>3, <2>7
\* The parent falls asleep with wait_lock held until then: it has seen every child.
<1>12. ASSUME NEW c \in CPU, NEW p \in Slot, sleep(c, p) PROVE Sleepers'
  <2>1. \A x \in Slot : pc[x] # "exit_wakeup" /\ pc'[x] # "exit_wakeup"
    BY <1>w, <1>12 DEF sleep, WaitLock, Holding
  <2>2. Children(p) # {} /\ \A q \in Children(p) : state[q] # "ZOMBIE"
    BY <1>12 DEF sleep, IInv, Scans
  <2>3. \A r \in Slot : Drowsy(r)' => Drowsy(r) \/ r = p
    BY <1>t, <1>12 DEF sleep, TypeOK
  <2>4. state' = state /\ \A r \in Slot : Children(r)' = Children(r)
    BY <1>12 DEF sleep, Children
  <2>5. ASSUME NEW r \in Slot, Drowsy(r)' PROVE Calm(r)'
    <3>1. Calm(r)
      BY <1>n, <2>1, <2>2, <2>3, <2>5
    <3> QED
      BY <2>4, <3>1
  <2> QED
    BY <1>m, <2>1, <2>5
\* exit() is going to wake its parent, and init when it hands children over.
<1>13. ASSUME NEW p \in Slot, exit(p) PROVE Sleepers'
  <2>1. /\ state' = state /\ parent' = Reparented(p) /\ p # init /\ state[p] = "RUNNING"
        /\ pc'[p] = "exit_wakeup" /\ wakes'[p] = ExitWakes(p) /\ todo'[p] = Slot \ {p}
    BY <1>t, <1>13 DEF exit, Step, On, TypeOK
  <2>2. \A r \in Slot : Drowsy(r)' => Drowsy(r) /\ r # p
    BY <1>t, <1>13, <2>1 DEF exit, TypeOK
  <2>3. \A x \in Slot : pc[x] # "exit_wakeup" /\ (pc'[x] = "exit_wakeup" => x = p)
    <3>1. wait_lock = None /\ wait_lock' = p
      BY <1>13 DEF exit
    <3> QED
      BY <1>w, <3>1 DEF WaitLock, Holding
  <2>4. parent'[p] = parent[p]
    BY <2>1 DEF Reparented, IInv, Parents
  <2> SUFFICES ASSUME NEW r \in Slot, Drowsy(r), r # p
               PROVE  /\ Children(r)' # {}
                      /\ \A q \in Children(r)' : /\ state[q] = "ZOMBIE" => WillWake(p, r)'
                                                 /\ q = p => WillWake(p, r)'
    BY <2>1, <2>2, <2>3 DEF Sleepers, Children
  <2>5. Children(r) \subseteq Children(r)' /\ Children(r) # {}
    BY <1>t, <2>1 DEF Reparented, Children, Sleepers
  <2>6. ASSUME NEW q \in Children(r)', state[q] = "ZOMBIE" PROVE WillWake(p, r)'
    <3>1. q \notin Children(r)
      BY <1>t, <2>3, <2>6 DEF Sleepers, WillWake
    <3>2. r = init /\ q \in Children(p)
      BY <2>1, <2>6, <3>1 DEF Reparented, Children
    <3>3. init \in ExitWakes(p)
      BY <3>2 DEF ExitWakes
    <3> QED
      BY <2>1, <3>2, <3>3 DEF WillWake
  <2>7. ASSUME p \in Children(r)' PROVE WillWake(p, r)'
    <3>1. parent[p] = r
      BY <2>4, <2>7 DEF Children
    <3>2. r \in ExitWakes(p)
      BY <3>1 DEF ExitWakes
    <3> QED
      BY <2>1, <3>2 DEF WillWake
  <2> QED
    BY <2>5, <2>6, <2>7
<1>14. ASSUME NEW p \in Slot, NEW q \in Slot, wakeup(p, q) PROVE Sleepers'
  <2>1. NoSleep /\ NoZombie
    BY <1>t, <1>14 DEF wakeup, TypeOK
  <2>2. plock[q] = None /\ todo' = [todo EXCEPT ![p] = @ \ {q}] /\ pc' = pc
    BY <1>14 DEF wakeup
  <2>3. \A x \in Slot : pc[x] = "exit_wakeup" => x = p
    BY <1>w, <1>14 DEF wakeup, WaitLock, Holding
  <2>4. Drowsy(q) => state[q] = "SLEEPING" /\ chan[q] = q /\ pc[q] # "sleep"
    BY <2>2 DEF IInv, Places
  <2>5. Drowsy(q) /\ q \in wakes[p] => ~Drowsy(q)'
    BY <1>t, <1>14, <2>2, <2>4 DEF wakeup, TypeOK
  <2>6. \A x, r \in Slot : WillWake(x, r) /\ Drowsy(r)' => r \in todo'[x]
    BY <1>t, <2>1, <2>2, <2>3, <2>5 DEF WillWake, TypeOK
  <2> QED
    BY <1>1, <1>14, <2>1, <2>6 DEF wakeup
\* Everybody has been woken when exit() gives up wait_lock.
<1>15. ASSUME NEW c \in CPU, NEW p \in Slot, exit_zombie(c, p) PROVE Sleepers'
  <2>1. todo[p] = {} /\ pc[p] = "exit_wakeup" /\ \A x \in Slot : pc'[x] # "exit_wakeup"
    BY <1>w, <1>15 DEF exit_zombie, WaitLock, Holding
  <2>2. \A x, r \in Slot : ~WillWake(x, r)
    <3>1. \A x \in Slot : pc[x] = "exit_wakeup" => x = p
      BY <1>w, <2>1 DEF WaitLock, Holding
    <3> QED
      BY <2>1, <3>1 DEF WillWake
  <2>3. \A r \in Slot : Drowsy(r) => p \notin Children(r) /\ \A q \in Children(r) : state[q] # "ZOMBIE"
    BY <1>t, <1>c, <2>1, <2>2 DEF Sleepers
  <2>4. NoSleep
    BY <1>t, <1>15 DEF exit_zombie, TypeOK
  <2>5. \A q \in Slot : state'[q] = "ZOMBIE" => state[q] = "ZOMBIE" \/ q = p
    BY <1>t, <1>15 DEF exit_zombie, TypeOK
  <2>6. \A r \in Slot : Children(r)' = Children(r)
    BY <1>15 DEF exit_zombie, Children
  <2>7. ASSUME NEW r \in Slot, Drowsy(r)' PROVE Calm(r)'
    <3>1. p \notin Children(r) /\ Calm(r)
      BY <1>t, <2>3, <2>4, <2>7 DEF Sleepers
    <3> QED
      BY <1>c, <2>5, <2>6, <3>1
  <2> QED
    BY <1>m, <2>1, <2>7
<1>16. CASE UNCHANGED vars
  BY <1>1, <1>16 DEF vars, WillWake
<1> QED
  BY <1>2, <1>3, <1>4, <1>5, <1>6, <1>7, <1>8, <1>9, <1>10, <1>11, <1>12, <1>13, <1>14, <1>15, <1>16
  DEF Next, Thread, Call

(***************************************************************************)
(* The theorems.                                                           *)
(***************************************************************************)
\* The invariant holds in every reachable state of proc.c's table, locks and CPUs.
THEOREM Invariant == Spec => []IInv
<1>1. Init => IInv
  BY IInvInit
<1>2. IInv /\ [Next]_vars => IInv'
  BY TypeStep, CpusStep, PlacesStep, WaitLockStep, ForksStep, ParentsStep, ScansStep, SleepersStep
  DEF IInv
<1> QED
  BY <1>1, <1>2, PTL DEF Spec

\* scheduler() never runs a process that another CPU has not left yet.
THEOREM ProcessOnOneCpu == Spec => []OneCpuPerProcess
<1>1. IInv => OneCpuPerProcess
  BY DEF IInv, Cpus
<1> QED
  BY <1>1, Invariant, PTL

\* wait() and fork() never free or hand out an entry whose kernel stack is in use.
THEOREM NoCpuOnFreed == Spec => []FreedIsOffCpu
<1>1. IInv => FreedIsOffCpu
  BY DEF IInv, Cpus, FreedIsOffCpu, Live
<1> QED
  BY <1>1, Invariant, PTL

\* exit() leaves no child without a parent, and no parent asleep in wait() beside a ZOMBIE.
THEOREM ExitIsSeen == Spec => []ExitReachesParent
<1>1. IInv => ExitReachesParent
  <2> SUFFICES ASSUME IInv PROVE ExitReachesParent
    OBVIOUS
  <2>1. ParentCanWait
    BY DEF IInv, Parents
  <2>2. ExitNotMissed
    <3> SUFFICES ASSUME NEW p \in Slot, state[p] = "SLEEPING", wait_lock = None
                 PROVE  Children(p) # {} /\ \A q \in Children(p) : state[q] # "ZOMBIE"
      BY DEF ExitNotMissed
    <3>1. \A x \in Slot : pc[x] # "exit_wakeup"
      BY Constants DEF IInv, WaitLock, Holding
    <3> QED
      BY <3>1 DEF IInv, Sleepers, WillWake
  <2> QED
    BY <2>1, <2>2 DEF ExitReachesParent
<1> QED
  BY <1>1, Invariant, PTL

\* A process dies only when kill() was asked for its pid or it has faulted.  The pid 0 of an
\* UNUSED entry must not be asked for.
THEOREM KillsTheNamed == 0 \notin KillArgs => (Spec => []OnlyTheNamedDies)
<1> SUFFICES ASSUME 0 \notin KillArgs PROVE Spec => []OnlyTheNamedDies
  OBVIOUS
<1> DEFINE Named == Unnamed /\ OnlyTheNamedDies
<1>1. Init => Named
  BY DEF Init, Unnamed, OnlyTheNamedDies
<1>2. ASSUME IInv, Named, [Next]_vars PROVE Named'
  <2> USE Constants DEF Goto, lockvars, threadvars
  <2>t. TypeOK /\ Named
    BY <1>2 DEF IInv
  \* Nobody is killed, and nobody leaves or enters the state UNUSED.
  <2>1. ASSUME \A p \in Slot : state'[p] = "UNUSED" <=> state[p] = "UNUSED",
               UNCHANGED <<killed, pid, asked>>
        PROVE  Named'
    BY <2>t, <2>1 DEF Unnamed, OnlyTheNamedDies
  <2>2. ASSUME NEW c \in CPU, sched(c) PROVE Named'
    BY <2>1, <2>2 DEF sched
  <2>3. ASSUME NEW c \in CPU, NEW p \in Slot,
               scheduler(c, p) \/ yield(c, p) \/ exit_zombie(c, p) \/ sleep(c, p)
        PROVE  Named'
    <3>1. \A q \in Slot : state'[q] = "UNUSED" <=> state[q] = "UNUSED"
      BY <2>t, <2>3 DEF scheduler, yield, exit_zombie, sleep, On, TypeOK
    <3> QED
      BY <2>1, <2>3, <3>1 DEF scheduler, yield, exit_zombie, sleep
  <2>4. ASSUME NEW p \in Slot, fork_spin(p) \/ fork_parent(p) \/ wait_acquire(p) \/ wait_none(p)
                              \/ exit(p) \/ wait(p)
        PROVE  Named'
    BY <2>1, <2>4 DEF fork_spin, fork_parent, wait_acquire, wait_none, exit, wait
  <2>5. ASSUME NEW p \in Slot, sleep_chan(p) PROVE Named'
    <3>1. \A q \in Slot : state'[q] = "UNUSED" <=> state[q] = "UNUSED"
      BY <2>t, <2>5 DEF sleep_chan, Step, On, TypeOK
    <3> QED
      BY <2>1, <2>5, <3>1 DEF sleep_chan
  <2>6. ASSUME NEW p \in Slot, fork_run(p) PROVE Named'
    <3>1. np[p] \in Slot /\ state[np[p]] = "USED"
      BY <1>2, <2>6 DEF fork_run, IInv, Forks, Forking
    <3>2. \A q \in Slot : state'[q] = "UNUSED" <=> state[q] = "UNUSED"
      BY <2>t, <2>6, <3>1 DEF fork_run, TypeOK
    <3> QED
      BY <2>1, <2>6, <3>2 DEF fork_run
  <2>7. ASSUME NEW p \in Slot, NEW q \in Slot, wakeup(p, q) PROVE Named'
    <3>1. \A r \in Slot : state'[r] = "UNUSED" <=> state[r] = "UNUSED"
      BY <2>t, <2>7 DEF wakeup, TypeOK
    <3> QED
      BY <2>1, <2>7, <3>1 DEF wakeup
  <2>8. ASSUME NEW p \in Slot, NEW q \in Slot, wait_skip(p, q) \/ wait_badaddr(p, q) PROVE Named'
    BY <2>1, <2>8 DEF wait_skip, wait_badaddr
  <2>9. ASSUME NEW p \in Slot, NEW q \in Slot, wait_reap(p, q) PROVE Named'
    BY <2>t, <2>9 DEF wait_reap, Unkilled, Unnamed, OnlyTheNamedDies, TypeOK
  <2>10. ASSUME NEW p \in Slot, NEW q \in Slot, fork(p, q) PROVE Named'
    BY <2>t, <2>10 DEF fork, Unnamed, OnlyTheNamedDies, TypeOK
  <2>11. ASSUME NEW p \in Slot, NEW q \in Slot, fork_nomem(p, q) PROVE Named'
    BY <2>t, <2>11 DEF fork_nomem, Unkilled, Unnamed, OnlyTheNamedDies, TypeOK
  <2>12. ASSUME NEW p \in Slot, setkilled(p) PROVE Named'
    <3>1. state[p] = "RUNNING"
      BY <2>12 DEF setkilled, Step, On
    <3> QED
      BY <2>t, <2>12, <3>1 DEF setkilled, Unnamed, OnlyTheNamedDies, TypeOK
  <2>13. ASSUME NEW p \in Slot, NEW q \in Slot, NEW k \in KillArgs, kill(p, q, k) PROVE Named'
    <3>1. state[q] # "UNUSED"
      BY <2>t, <2>13 DEF kill, Unnamed
    <3>2. \A r \in Slot : state'[r] = "UNUSED" <=> state[r] = "UNUSED"
      BY <2>t, <2>13, <3>1 DEF kill, KillWakeup, TypeOK
    <3> QED
      BY <2>t, <2>13, <3>1, <3>2 DEF kill, Unnamed, OnlyTheNamedDies, TypeOK
  <2>14. CASE UNCHANGED vars
    BY <2>1, <2>14 DEF vars
  <2> QED
    BY <1>2, <2>2, <2>3, <2>4, <2>5, <2>6, <2>7, <2>8, <2>9, <2>10, <2>11, <2>12, <2>13, <2>14
    DEF Next, Thread, Call
<1> QED
  BY <1>1, <1>2, Invariant, PTL DEF Spec
=============================================================================
