-------------------------------- MODULE Proc --------------------------------
(***************************************************************************)
(* The process table (kernel/proc.c): fork, exit, wait, kill, sleep,       *)
(* wakeup and the per-CPU scheduler, with the locks they take.             *)
(*                                                                         *)
(* A kernel thread takes a step only while a CPU runs it.  A step reaches  *)
(* from one acquire of a lock to the next one, or to swtch(): code that    *)
(* holds p->lock throughout is one step, since p->lock guards every field  *)
(* it touches.  p->lock outlives a step in one place only: it is taken     *)
(* before a thread gives up its CPU and released by the scheduler after    *)
(* swtch(), so its owner is a CPU.                                         *)
(*                                                                         *)
(* A definition placed just before another one of its kind and named for   *)
(* what it gets wrong is a fault the properties are tested against; no     *)
(* action uses it.                                                         *)
(***************************************************************************)
EXTENDS Naturals, FiniteSets

CONSTANTS
    Slot,      \* the entries of proc[]
    init,      \* initproc
    CPU,
    None,      \* no process, no CPU
    MaxPid,    \* bound: pids handed out
    KillArgs   \* the arguments of kill(); 0 is the pid of an UNUSED entry

ASSUME ProcAssumption ==
    /\ IsFiniteSet(Slot) /\ init \in Slot
    /\ None \notin Slot \cup CPU
    /\ MaxPid \in Nat \ {0} /\ KillArgs \subseteq Nat

VARIABLES
    state, chan, killed, pid,  \* struct proc, under p->lock
    parent,                    \* struct proc, under wait_lock
    plock,                     \* the CPU that holds p->lock, or None
    wait_lock,                 \* the process that holds wait_lock, or None
    cproc,                     \* cpus[c].proc
    nextpid,
    pc, np, todo, wakes,       \* kernel threads: location, fork's child, loop variables
    asked                      \* history: the pids kill() was asked for

lockvars == <<plock, wait_lock>>
threadvars == <<pc, np, todo, wakes>>
vars == <<state, chan, killed, pid, parent, lockvars, cproc, nextpid, threadvars, asked>>

State == {"UNUSED", "USED", "SLEEPING", "RUNNABLE", "RUNNING", "ZOMBIE"}
PC == {"user", "fork_parent", "fork_spin", "fork_run", "exit_wakeup", "wait", "wait_spin",
       "wait_scan", "wait_sleep", "sleep", "dead"}

\* userinit() has run: one process, RUNNABLE, about to enter user space.
Init ==
    /\ state = [p \in Slot |-> IF p = init THEN "RUNNABLE" ELSE "UNUSED"]
    /\ chan = [p \in Slot |-> None]
    /\ killed = [p \in Slot |-> FALSE]
    /\ pid = [p \in Slot |-> IF p = init THEN 1 ELSE 0]
    /\ parent = [p \in Slot |-> None]
    /\ plock = [p \in Slot |-> None]
    /\ wait_lock = None
    /\ cproc = [c \in CPU |-> None]
    /\ nextpid = 2
    /\ pc = [p \in Slot |-> "user"]
    /\ np = [p \in Slot |-> None]
    /\ todo = [p \in Slot |-> {}]
    /\ wakes = [p \in Slot |-> {}]
    /\ asked = {}

Goto(p, l) == pc' = [pc EXCEPT ![p] = l]
Children(p) == {q \in Slot : parent[q] = p}

\* The CPU that runs p executes p's kernel thread.
On(c, p) == cproc[c] = p /\ state[p] = "RUNNING"
Step(p) == \E c \in CPU : On(c, p)

(***************************************************************************)
(* scheduler(), sched(), yield().                                          *)
(***************************************************************************)
\* scheduler() finds p RUNNABLE and switches to it; p, back in sleep(), yield() or
\* forkret(), clears p->chan and releases p->lock.
scheduler(c, p) ==
    /\ cproc[c] = None
    /\ plock[p] = None /\ state[p] = "RUNNABLE"
    /\ state' = [state EXCEPT ![p] = "RUNNING"]
    /\ cproc' = [cproc EXCEPT ![c] = p]
    /\ chan' = [chan EXCEPT ![p] = None]
    /\ UNCHANGED <<killed, pid, parent, lockvars, nextpid, threadvars, asked>>

\* sched() switches to the scheduler, which forgets the process and releases p->lock.
sched(c) ==
    /\ cproc[c] # None
    /\ plock[cproc[c]] = c /\ state[cproc[c]] # "RUNNING"
    /\ cproc' = [cproc EXCEPT ![c] = None]
    /\ plock' = [plock EXCEPT ![cproc[c]] = None]
    /\ UNCHANGED <<state, chan, killed, pid, parent, wait_lock, nextpid, threadvars, asked>>

\* Where p holds no lock and spins for none, so that a timer interrupt may make it yield().
Preemptible == {"user", "fork_parent", "fork_run", "wait"}

\* acquire(&p->lock) of p's own lock records the CPU, not the process, as its holder.
AcquireNothing(c, p) == UNCHANGED plock
AcquireOwn(c, p) == plock[p] = None /\ plock' = [plock EXCEPT ![p] = c]

\* yield() on a timer interrupt, in user space or in the kernel.
yield(c, p) ==
    /\ On(c, p) /\ pc[p] \in Preemptible
    /\ AcquireOwn(c, p)
    /\ state' = [state EXCEPT ![p] = "RUNNABLE"]
    /\ UNCHANGED <<chan, killed, pid, parent, wait_lock, cproc, nextpid, threadvars, asked>>

(***************************************************************************)
(* usertrap().  What a call does before it takes its first lock is part of *)
(* no step: p is "user" until then.                                        *)
(***************************************************************************)
\* A system call of a process that is not killed: the check on the way in.  The check on
\* the way out is the next one on the way in, the process did nothing in between.
Syscall(p) == Step(p) /\ pc[p] = "user" /\ ~killed[p]

\* An exception the kernel does not know: setkilled(p).  init does not fault.
setkilled(p) ==
    /\ Step(p) /\ pc[p] = "user" /\ p # init
    /\ plock[p] = None
    /\ killed' = [killed EXCEPT ![p] = TRUE]
    /\ asked' = asked \cup {pid[p]}
    /\ UNCHANGED <<state, chan, pid, parent, lockvars, cproc, nextpid, threadvars>>

(***************************************************************************)
(* fork().                                                                 *)
(***************************************************************************)
\* allocproc() and the copying, np->lock held throughout.  The entry is the first UNUSED
\* one the scan meets, which may be any: entries are freed behind the scan.
fork(p, q) ==
    /\ Syscall(p)
    /\ state[q] = "UNUSED" /\ plock[q] = None
    /\ nextpid <= MaxPid
    /\ pid' = [pid EXCEPT ![q] = nextpid]
    /\ nextpid' = nextpid + 1
    /\ state' = [state EXCEPT ![q] = "USED"]
    /\ np' = [np EXCEPT ![p] = q]
    /\ Goto(p, "fork_parent")
    /\ UNCHANGED <<chan, killed, parent, lockvars, cproc, todo, wakes, asked>>

\* freeproc() clears p->killed; allocproc() does not.
StillKilled(q) == killed
Unkilled(q) == [killed EXCEPT ![q] = FALSE]

\* kalloc(), proc_pagetable() or uvmcopy() fails: freeproc() of the new entry.
fork_nomem(p, q) ==
    /\ Syscall(p)
    /\ state[q] = "UNUSED" /\ plock[q] = None
    /\ nextpid <= MaxPid
    /\ nextpid' = nextpid + 1
    /\ killed' = Unkilled(q)
    /\ UNCHANGED <<state, chan, pid, parent, lockvars, cproc, threadvars, asked>>

\* acquire(&wait_lock): from push_off() on, p spins with interrupts off.
fork_spin(p) ==
    /\ Step(p) /\ pc[p] = "fork_parent"
    /\ Goto(p, "fork_spin")
    /\ UNCHANGED <<state, chan, killed, pid, parent, lockvars, cproc, nextpid, np, todo, wakes,
                   asked>>

fork_parent(p) ==
    /\ Step(p) /\ pc[p] = "fork_spin"
    /\ wait_lock = None
    /\ parent' = [parent EXCEPT ![np[p]] = p]
    /\ Goto(p, "fork_run")
    /\ UNCHANGED <<state, chan, killed, pid, lockvars, cproc, nextpid, np, todo, wakes, asked>>

\* The child starts in forkret(), which goes to user space.
fork_run(p) ==
    /\ Step(p) /\ pc[p] = "fork_run"
    /\ plock[np[p]] = None
    /\ state' = [state EXCEPT ![np[p]] = "RUNNABLE"]
    /\ pc' = [pc EXCEPT ![p] = "user", ![np[p]] = "user"]
    /\ np' = [np EXCEPT ![p] = None]
    /\ UNCHANGED <<chan, killed, pid, parent, lockvars, cproc, nextpid, todo, wakes, asked>>

(***************************************************************************)
(* exit().                                                                 *)
(***************************************************************************)
\* reparent(p): the children go to init.
NotReparented(p) == parent
Reparented(p) == [q \in Slot |-> IF parent[q] = p THEN init ELSE parent[q]]

\* The channels exit() wakes: initproc if a child was handed over, and p->parent.
ParentOnly(p) == {parent[p]}
InitOnly(p) == {init : q \in Children(p)}
ExitWakes(p) == {parent[p]} \cup {init : q \in Children(p)}

\* exit(), called or forced on a killed process by usertrap(), takes wait_lock, reparents, and
\* starts wakeup(initproc) and wakeup(p->parent).
exit(p) ==
    /\ Step(p) /\ pc[p] = "user" /\ p # init
    /\ wait_lock = None
    /\ wait_lock' = p
    /\ parent' = Reparented(p)
    /\ wakes' = [wakes EXCEPT ![p] = ExitWakes(p)]
    /\ todo' = [todo EXCEPT ![p] = Slot \ {p}]
    /\ Goto(p, "exit_wakeup")
    /\ UNCHANGED <<state, chan, killed, pid, plock, cproc, nextpid, np, asked>>

\* One turn of wakeup()'s loop over proc[].
wakeup(p, q) ==
    /\ Step(p) /\ pc[p] = "exit_wakeup" /\ q \in todo[p]
    /\ plock[q] = None
    /\ state' = IF state[q] = "SLEEPING" /\ chan[q] \in wakes[p]
                  THEN [state EXCEPT ![q] = "RUNNABLE"] ELSE state
    /\ todo' = [todo EXCEPT ![p] = @ \ {q}]
    /\ UNCHANGED <<chan, killed, pid, parent, lockvars, cproc, nextpid, pc, np, wakes, asked>>

\* exit() takes p->lock, becomes a ZOMBIE and releases wait_lock; sched() follows.
exit_zombie(c, p) ==
    /\ On(c, p) /\ pc[p] = "exit_wakeup" /\ todo[p] = {}
    /\ AcquireOwn(c, p)
    /\ state' = [state EXCEPT ![p] = "ZOMBIE"]
    /\ wait_lock' = None
    /\ wakes' = [wakes EXCEPT ![p] = {}]
    /\ Goto(p, "dead")
    /\ UNCHANGED <<chan, killed, pid, parent, cproc, nextpid, np, todo, asked>>

(***************************************************************************)
(* wait().                                                                 *)
(***************************************************************************)
\* acquire(&wait_lock), on entry and when sleep() returns: push_off(), then the lock; the scan
\* starts.
wait(p) ==
    /\ Syscall(p) \/ (Step(p) /\ pc[p] = "wait")
    /\ Goto(p, "wait_spin")
    /\ UNCHANGED <<state, chan, killed, pid, parent, lockvars, cproc, nextpid, np, todo, wakes,
                   asked>>

wait_acquire(p) ==
    /\ Step(p) /\ pc[p] = "wait_spin"
    /\ wait_lock = None
    /\ wait_lock' = p
    /\ todo' = [todo EXCEPT ![p] = Children(p)]
    /\ Goto(p, "wait_scan")
    /\ UNCHANGED <<state, chan, killed, pid, parent, plock, cproc, nextpid, np, wakes, asked>>

\* wait()'s acquire(&pp->lock) succeeds only once the child is off its CPU.
ChildAnywhere(q) == TRUE
ChildOffCpu(q) == plock[q] = None

\* A child that has not exited: go on.
wait_skip(p, q) ==
    /\ Step(p) /\ pc[p] = "wait_scan" /\ q \in todo[p]
    /\ ChildOffCpu(q) /\ state[q] # "ZOMBIE"
    /\ todo' = [todo EXCEPT ![p] = @ \ {q}]
    /\ UNCHANGED <<state, chan, killed, pid, parent, lockvars, cproc, nextpid, pc, np,
                   wakes, asked>>

\* freeproc() of an exited child.
wait_reap(p, q) ==
    /\ Step(p) /\ pc[p] = "wait_scan" /\ q \in todo[p]
    /\ ChildOffCpu(q) /\ state[q] = "ZOMBIE"
    /\ state' = [state EXCEPT ![q] = "UNUSED"]
    /\ pid' = [pid EXCEPT ![q] = 0]
    /\ parent' = [parent EXCEPT ![q] = None]
    /\ chan' = [chan EXCEPT ![q] = None]
    /\ killed' = Unkilled(q)
    /\ wait_lock' = None
    /\ todo' = [todo EXCEPT ![p] = {}]
    /\ Goto(p, "user")
    /\ UNCHANGED <<plock, cproc, nextpid, np, wakes, asked>>

\* copyout() of the exit status fails: wait() returns -1, the child stays a ZOMBIE.
wait_badaddr(p, q) ==
    /\ Step(p) /\ pc[p] = "wait_scan" /\ q \in todo[p] /\ p # init
    /\ ChildOffCpu(q) /\ state[q] = "ZOMBIE"
    /\ wait_lock' = None
    /\ todo' = [todo EXCEPT ![p] = {}]
    /\ Goto(p, "user")
    /\ UNCHANGED <<state, chan, killed, pid, parent, plock, cproc, nextpid, np, wakes, asked>>

\* No child has exited: return if there is none or p is killed, else sleep(p, &wait_lock).
wait_none(p) ==
    /\ Step(p) /\ pc[p] = "wait_scan" /\ todo[p] = {}
    /\ plock[p] = None
    /\ IF Children(p) = {} \/ killed[p]
         THEN wait_lock' = None /\ Goto(p, "user")
         ELSE UNCHANGED wait_lock /\ Goto(p, "wait_sleep")
    /\ UNCHANGED <<state, chan, killed, pid, parent, plock, cproc, nextpid, np, todo, wakes, asked>>

\* sleep() takes p->lock before it releases wait_lock ...
sleep(c, p) ==
    /\ On(c, p) /\ pc[p] = "wait_sleep"
    /\ AcquireOwn(c, p)
    /\ wait_lock' = None
    /\ Goto(p, "sleep")
    /\ UNCHANGED <<state, chan, killed, pid, parent, cproc, nextpid, np, todo, wakes, asked>>

\* ... then marks the process SLEEPING; sched() follows, and later acquire(&wait_lock).
sleep_chan(p) ==
    /\ Step(p) /\ pc[p] = "sleep"
    /\ chan' = [chan EXCEPT ![p] = p]
    /\ state' = [state EXCEPT ![p] = "SLEEPING"]
    /\ Goto(p, "wait")
    /\ UNCHANGED <<killed, pid, parent, lockvars, cproc, nextpid, np, todo, wakes, asked>>

(***************************************************************************)
(* kill(k): the first entry with that pid.                                 *)
(***************************************************************************)
KillWakeup(q) == IF state[q] = "SLEEPING" THEN [state EXCEPT ![q] = "RUNNABLE"] ELSE state

kill(p, q, k) ==
    /\ Syscall(p) /\ p # init
    /\ pid[q] = k /\ plock[q] = None
    /\ killed' = [killed EXCEPT ![q] = TRUE]
    /\ state' = KillWakeup(q)
    /\ asked' = asked \cup {k}
    /\ UNCHANGED <<chan, pid, parent, lockvars, cproc, nextpid, threadvars>>

\* What p does until it is back in user space, and what it may do from there.
Thread(p) ==
    \/ fork_spin(p) \/ fork_parent(p) \/ fork_run(p) \/ wait_acquire(p) \/ wait_none(p) \/ sleep_chan(p)
    \/ \E q \in Slot : wakeup(p, q) \/ wait_skip(p, q) \/ wait_reap(p, q) \/ wait_badaddr(p, q)
    \/ \E c \in CPU : exit_zombie(c, p) \/ sleep(c, p)

Call(p) ==
    \/ setkilled(p) \/ exit(p) \/ wait(p)
    \/ \E q \in Slot : fork(p, q) \/ fork_nomem(p, q)
    \/ \E q \in Slot, k \in KillArgs : kill(p, q, k)

Next ==
    \/ \E c \in CPU : sched(c)
    \/ \E c \in CPU, p \in Slot : scheduler(c, p) \/ yield(c, p)
    \/ \E p \in Slot : Thread(p) \/ Call(p)

Spec == Init /\ [][Next]_vars

\* A CPU in sched() switches; threads inside the kernel go on, and one that spins in acquire()
\* finds the lock free at some time; timer interrupts go on preempting processes where they
\* can; the scheduler's loop visits init's entry again and again; init's program
\* (user/init.c) calls wait() again and again.
Fairness ==
    /\ \A c \in CPU : WF_vars(sched(c))
    /\ SF_vars(\E c \in CPU, p \in Slot : yield(c, p))
    /\ SF_vars(\E p \in Slot : Thread(p)) /\ SF_vars(Thread(init))
    /\ SF_vars(\E c \in CPU : scheduler(c, init))
    /\ SF_vars(wait(init))

FairSpec == Spec /\ Fairness

(***************************************************************************)
(* Properties.                                                             *)
(***************************************************************************)
TypeOK ==
    /\ state \in [Slot -> State]
    /\ chan \in [Slot -> Slot \cup {None}]
    /\ killed \in [Slot -> BOOLEAN]
    /\ pid \in [Slot -> Nat] /\ nextpid \in Nat
    /\ parent \in [Slot -> Slot \cup {None}]
    /\ plock \in [Slot -> CPU \cup {None}]
    /\ wait_lock \in Slot \cup {None}
    /\ cproc \in [CPU -> Slot \cup {None}]
    /\ pc \in [Slot -> PC]
    /\ np \in [Slot -> Slot \cup {None}]
    /\ todo \in [Slot -> SUBSET Slot]
    /\ wakes \in [Slot -> SUBSET (Slot \cup {None})]
    /\ asked \subseteq Nat

\* No two CPUs ever run on one kernel stack: a process is on at most one CPU, it is RUNNING
\* only there, and it stays locked from the change of its state until its CPU has left it.
OneCpuPerProcess ==
    /\ \A c, d \in CPU : cproc[c] # None /\ cproc[c] = cproc[d] => c = d
    /\ \A c \in CPU : cproc[c] # None =>
          state[cproc[c]] = "RUNNING" \/ plock[cproc[c]] = c
    /\ \A p \in Slot : state[p] = "RUNNING" => \E c \in CPU : cproc[c] = p

\* wait() never frees an entry whose kernel stack a CPU is still on ("make sure the child
\* isn't still in exit() or swtch()", proc.c:404), and fork() never hands out such a one.
FreedIsOffCpu == \A c \in CPU : cproc[c] # None => state[cproc[c]] \notin {"UNUSED", "USED"}

\* A child's parent is always a process that can still wait for it: exit() leaves no child
\* behind, whatever fork() is doing, and no process but init is without a parent.
ParentCanWait ==
    \A q \in Slot :
        /\ parent[q] # None => state[parent[q]] \in {"SLEEPING", "RUNNABLE", "RUNNING"}
        /\ q # init /\ state[q] \in {"SLEEPING", "RUNNABLE", "RUNNING", "ZOMBIE"} => parent[q] # None
        /\ state[q] = "UNUSED" => parent[q] = None

\* Nobody sleeps through the exit it waits for: whenever wait_lock is free, a process asleep
\* in wait() has a child, and no child of it is a ZOMBIE.
ExitNotMissed ==
    \A p \in Slot : state[p] = "SLEEPING" /\ wait_lock = None =>
        Children(p) # {} /\ \A q \in Children(p) : state[q] # "ZOMBIE"

\* Every exit is seen by a parent, the original one or init: ParentCanWait and ExitNotMissed.
ExitReachesParent == ParentCanWait /\ ExitNotMissed

\* A process that has exited and belongs to init (an orphan above all) is eventually freed.
OrphanReaped ==
    \A q \in Slot : state[q] = "ZOMBIE" /\ parent[q] = init ~> state[q] = "UNUSED"

\* proc.c:582, "Kill the process with the given pid": nobody else is killed.
OnlyTheNamedDies ==
    \A p \in Slot : killed[p] /\ state[p] # "UNUSED" => pid[p] \in asked

\* proc.c:595, "Wake process from sleep()": a killed process is not left asleep in wait().
KilledNotAsleep ==
    \A p \in Slot : killed[p] => state[p] # "SLEEPING"

=============================================================================
