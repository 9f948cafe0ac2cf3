-------------------------------- MODULE Trap --------------------------------
(***************************************************************************)
(* Traps, spin locks and context switches on several harts (trap.c,        *)
(* trampoline.S, kernelvec.S, spinlock.c, swtch.S, and the scheduler of    *)
(* proc.c), with the clock and sys_sleep() as the kernel code that runs.   *)
(*                                                                         *)
(* Every hart executes one context at a time: a kernel thread, or its own  *)
(* scheduler.  A context is a stack of frames, the innermost first; a      *)
(* frame is a function of the kernel, the point it has reached, and its    *)
(* locals.  An interrupt may come between any two steps of a hart whose    *)
(* SIE bit is set, and steps of different harts interleave.  What a hart   *)
(* does with interrupts off and to its own registers only is one step.     *)
(*                                                                         *)
(* A definition placed just before another one of its kind and named for   *)
(* what it gets wrong is a fault the properties are tested against.        *)
(***************************************************************************)
EXTENDS Integers, Sequences, FiniteSets

CONSTANTS
    Hart, Hart0,   \* the cores; the one with hartid 0
    N,             \* NPROC: the threads are 1 .. N
    TicksMod,      \* 2^32: ticks is a uint
    Ticks0,        \* ticks when the model starts
    Delays,        \* arguments of sleep(), as the unsigned numbers they become
    MaxTicks,      \* a bound on the clock interrupts of a behaviour
    MaxActors,     \* a bound on the harts that run plus the threads that exist
    None

ASSUME TrapAssumption ==
    /\ Hart0 \in Hart /\ N \in Nat \ {0} /\ TicksMod \in Nat \ {0}
    /\ Ticks0 \in 0 .. TicksMod - 1 /\ MaxTicks < TicksMod /\ MaxActors \in Nat
    /\ Delays \subseteq 0 .. TicksMod - 1
    /\ Hart \cap (1 .. N) = {} /\ None \notin Hart \cup 1 .. N

Thread == 1 .. N
tickslock == 0
Lock == {tickslock} \cup Thread     \* p->lock is named p

VARIABLES
    reg,       \* per hart: what it executes and its CSRs, tp and the pending tick
    cpu,       \* cpus[]: noff, intena, proc
    lk,        \* the spin locks: locked, cpu
    tf,        \* per thread: the trapframe's epc and kernel_hartid
    stack,     \* per context: its frames
    up,        \* the harts that take part
    state,     \* proc[].state
    ticks,
    panicked

vars == <<reg, cpu, lk, tf, stack, up, state, ticks, panicked>>

Frame(f, at, l, v) == [f |-> f, at |-> at, l |-> l, v |-> v]
Acquire(l) == Frame("acquire", 0, l, FALSE)
Release(l) == Frame("release", 0, l, FALSE)

\* forkret() (the file system is up): give p->lock back and return to user space.
forkret(p) == <<Release(p), Frame("usertrap", 2, p, 0)>>

\* After main(): hart 0 and the harts it has started are in scheduler(), every thread
\* is about to run forkret().
Init ==
    /\ reg = [h \in Hart |-> [ctx |-> h, sie |-> FALSE, spie |-> FALSE, spp |-> "S",
                              sepc |-> None, stvec |-> "kernelvec", tp |-> h, ssip |-> FALSE]]
    /\ cpu = [h \in Hart |-> [noff |-> 0, intena |-> FALSE, proc |-> None]]
    /\ lk = [l \in Lock |-> [locked |-> FALSE, cpu |-> None]]
    /\ tf = [p \in Thread |-> [epc |-> <<p, "user", 0>>, kernel_hartid |-> None]]
    /\ stack = [c \in Hart \cup Thread |->
                  IF c \in Hart THEN <<Frame("scheduler", 0, c, 0)>> ELSE forkret(c)]
    /\ up \in SUBSET Hart /\ Hart0 \in up
    /\ state \in [Thread -> {"RUNNABLE", "UNUSED"}]
    /\ Cardinality(up) + Cardinality({p \in Thread : state[p] = "RUNNABLE"}) <= MaxActors
    /\ ticks = Ticks0
    /\ panicked = "no"

(***************************************************************************)
(* The frame a hart executes, calls and returns.                           *)
(***************************************************************************)
Top(h) == Head(stack[reg[h].ctx])
At(h, f, i) == panicked = "no" /\ Top(h).f = f /\ Top(h).at = i

\* The address of the next instruction of context c, as a trap saves it.
Pc(c) == <<c, Head(stack[c]).f, Head(stack[c]).at>>

UserPc(p) == <<p, "user", 0>>

\* The frame gives way to those in new: a return, calls made one after the other, ...
Frames(h, new) == stack' = [stack EXCEPT ![reg[h].ctx] = new \o Tail(@)]
Goto(h, i) == Frames(h, <<[Top(h) EXCEPT !.at = i]>>)
Return(h) == Frames(h, <<>>)

Panic(why, msg) == panicked' = IF why THEN msg ELSE panicked

(***************************************************************************)
(* spinlock.c.  mycpu() is cpus[tp]; myproc() is its proc.                 *)
(***************************************************************************)
mycpu(h) == cpu[reg[h].tp]
myproc(h) == mycpu(h).proc

holding(h, l) == lk[l].locked /\ lk[l].cpu = reg[h].tp

\* acquire(): push_off() reads intr_get() ...
push_off_get(h) ==
    /\ At(h, "acquire", 0)
    /\ Frames(h, <<[Top(h) EXCEPT !.at = 1, !.v = reg[h].sie]>>)
    /\ UNCHANGED <<reg, cpu, lk, tf, up, state, ticks, panicked>>

\* ... and, in a step that an interrupt may precede, turns interrupts off.
PushNotCounted(c, old) == [c EXCEPT !.intena = IF c.noff = 0 THEN old ELSE @]
Push(c, old) == [c EXCEPT !.noff = @ + 1, !.intena = IF c.noff = 0 THEN old ELSE @]

push_off(h) ==
    /\ At(h, "acquire", 1)
    /\ reg' = [reg EXCEPT ![h].sie = FALSE]
    /\ cpu' = [cpu EXCEPT ![reg[h].tp] = Push(@, Top(h).v)]
    /\ Panic(holding(h, Top(h).l), "acquire")
    /\ Goto(h, 2)
    /\ UNCHANGED <<lk, tf, up, state, ticks>>

\* The swap that finds the lock free.
test_and_set(h) ==
    /\ At(h, "acquire", 2) /\ ~lk[Top(h).l].locked
    /\ lk' = [lk EXCEPT ![Top(h).l].locked = TRUE]
    /\ Goto(h, 3)
    /\ UNCHANGED <<reg, cpu, tf, up, state, ticks, panicked>>

acquire_done(h) ==
    /\ At(h, "acquire", 3)
    /\ lk' = [lk EXCEPT ![Top(h).l].cpu = reg[h].tp]
    /\ Return(h)
    /\ UNCHANGED <<reg, cpu, tf, up, state, ticks, panicked>>

\* release(): forget the holder ...
KeepHolder(l) == l
ClearHolder(l) == [l EXCEPT !.cpu = None]

release_cpu(h) ==
    /\ At(h, "release", 0)
    /\ lk' = [lk EXCEPT ![Top(h).l] = ClearHolder(@)]
    /\ Panic(~holding(h, Top(h).l), "release")
    /\ Goto(h, 1)
    /\ UNCHANGED <<reg, cpu, tf, up, state, ticks>>

pop_off(h) ==
    /\ cpu' = [cpu EXCEPT ![reg[h].tp].noff = @ - 1]
    /\ reg' = [reg EXCEPT ![h].sie = @ \/ (mycpu(h).noff = 1 /\ mycpu(h).intena)]
    /\ Panic(reg[h].sie \/ mycpu(h).noff < 1, "pop_off")

\* ... then unlock and pop_off().
release(h) ==
    /\ At(h, "release", 1)
    /\ lk' = [lk EXCEPT ![Top(h).l].locked = FALSE]
    /\ pop_off(h)
    /\ Return(h)
    /\ UNCHANGED <<tf, up, state, ticks>>

LockStep(h) ==
    push_off_get(h) \/ push_off(h) \/ test_and_set(h) \/ acquire_done(h) \/ release_cpu(h) \/ release(h)

(***************************************************************************)
(* proc.c: sched(), yield(), sleep(), wakeup() and scheduler().            *)
(***************************************************************************)
\* sched(): switch to the scheduler of this cpu; swtch() leaves tp alone.
sched(h) ==
    /\ At(h, "sched", 0)
    /\ Panic(~holding(h, myproc(h)) \/ mycpu(h).noff # 1 \/ state[myproc(h)] = "RUNNING" \/ reg[h].sie,
             "sched")
    /\ Frames(h, <<[Top(h) EXCEPT !.at = 1, !.v = mycpu(h).intena]>>)
    /\ reg' = [reg EXCEPT ![h].ctx = reg[h].tp]
    /\ UNCHANGED <<cpu, lk, tf, up, state, ticks>>

\* The rest of sched(), on whatever hart runs the thread now.
LeaveIntena(c, v) == c
RestoreIntena(c, v) == [c EXCEPT !.intena = v]

sched_back(h) ==
    /\ At(h, "sched", 1)
    /\ cpu' = [cpu EXCEPT ![reg[h].tp] = RestoreIntena(@, Top(h).v)]
    /\ Return(h)
    /\ UNCHANGED <<reg, lk, tf, up, state, ticks, panicked>>

\* yield(), from its acquire(&p->lock) on.
CallYield(p) == <<Acquire(p), Frame("yield", 1, p, 0)>>

yield(h) ==
    /\ At(h, "yield", 1)
    /\ LET p == Top(h).l IN
       /\ state' = [state EXCEPT ![p] = "RUNNABLE"]
       /\ Frames(h, <<Frame("sched", 0, p, 0), Release(p)>>)
    /\ UNCHANGED <<reg, cpu, lk, tf, up, ticks, panicked>>

\* sleep(&ticks, &tickslock): take p->lock, then give the condition's lock up.
ReleaseFirst(p) == <<Release(tickslock), Acquire(p), Frame("sleep", 1, p, 0)>>
CallSleep(p) == <<Acquire(p), Release(tickslock), Frame("sleep", 1, p, 0)>>

sleep(h) ==
    /\ At(h, "sleep", 1)
    /\ LET p == Top(h).l IN
       /\ state' = [state EXCEPT ![p] = "SLEEPING"]
       /\ Frames(h, <<Frame("sched", 0, p, 0), Release(p), Acquire(tickslock)>>)
    /\ UNCHANGED <<reg, cpu, lk, tf, up, ticks, panicked>>

\* scheduler(): l is its cpu, v the process it looks at.
Scan(h, p) == <<Acquire(p), Frame("scheduler", 1, Top(h).l, p)>>
ScanOn(h, p) == <<Release(p)>> \o IF p < N THEN Scan(h, p + 1) ELSE <<Frame("scheduler", 0, Top(h).l, 0)>>

scheduler(h) ==
    /\ UNCHANGED <<lk, tf, up, ticks, panicked>>
    /\ LET p == Top(h).v IN
       \/ /\ At(h, "scheduler", 0)
          /\ reg' = [reg EXCEPT ![h].sie = TRUE]
          /\ Frames(h, Scan(h, 1))
          /\ UNCHANGED <<cpu, state>>
       \/ /\ At(h, "scheduler", 1) /\ state[p] = "RUNNABLE"
          /\ state' = [state EXCEPT ![p] = "RUNNING"]
          /\ cpu' = [cpu EXCEPT ![Top(h).l].proc = p]
          /\ reg' = [reg EXCEPT ![h].ctx = p]
          /\ Goto(h, 2)
       \/ /\ At(h, "scheduler", 1) /\ state[p] # "RUNNABLE"
          /\ Frames(h, ScanOn(h, p))
          /\ UNCHANGED <<reg, cpu, state>>
       \/ /\ At(h, "scheduler", 2)
          /\ cpu' = [cpu EXCEPT ![Top(h).l].proc = None]
          /\ Frames(h, ScanOn(h, p))
          /\ UNCHANGED <<reg, state>>

(***************************************************************************)
(* The clock: clockintr(), with the loop of wakeup(&ticks), and sys_sleep. *)
(***************************************************************************)
\* The loop of wakeup() from process p on, then release(&tickslock).
Others(h, p) == {q \in p .. N : q # myproc(h)}
WakeupFrom(h, p) ==
    IF Others(h, p) = {} THEN <<Release(tickslock)>>
    ELSE LET q == CHOOSE q \in Others(h, p) : \A r \in Others(h, p) : q <= r
         IN  <<Acquire(q), Frame("clockintr", 2, 0, q)>>

CallClockintr == <<Acquire(tickslock), Frame("clockintr", 1, 0, 0)>>

clockintr(h) ==
    /\ UNCHANGED <<reg, cpu, lk, tf, up, panicked>>
    /\ LET p == Top(h).v IN
       \/ /\ At(h, "clockintr", 1)
          /\ ticks' = (ticks + 1) % TicksMod
          /\ Frames(h, WakeupFrom(h, 1))
          /\ UNCHANGED state
       \/ /\ At(h, "clockintr", 2)
          /\ state' = [state EXCEPT ![p] = IF @ = "SLEEPING" THEN "RUNNABLE" ELSE @]
          /\ Frames(h, <<Release(p)>> \o WakeupFrom(h, p + 1))
          /\ UNCHANGED ticks

\* ticks - ticks0 in a uint, and the loop test of sys_sleep().
TooEarlyNoWrap(n, t0) == ticks < t0 + n
TooEarly(n, t0) == (ticks - t0) % TicksMod < n

\* v is <<n, ticks0>>; ticks0 is None until it is read.
CallSysSleep(p, n) == <<Acquire(tickslock), Frame("sys_sleep", 1, p, <<n, None>>)>>

sys_sleep(h) ==
    /\ At(h, "sys_sleep", 1)
    /\ LET p == Top(h).l
           n == Top(h).v[1]
           t0 == IF Top(h).v[2] = None THEN ticks ELSE Top(h).v[2] IN
       Frames(h, IF TooEarly(n, t0) THEN CallSleep(p) \o <<Frame("sys_sleep", 1, p, <<n, t0>>)>>
                                    ELSE <<Release(tickslock)>>)
    /\ UNCHANGED <<reg, cpu, lk, tf, up, state, ticks, panicked>>

(***************************************************************************)
(* trap.c, with uservec, userret and kernelvec.                            *)
(***************************************************************************)
\* timervec, in machine mode: hand the tick on as a software interrupt.
timervec(h) ==
    /\ panicked = "no" /\ ~reg[h].ssip
    /\ (ticks - Ticks0) % TicksMod < MaxTicks
    /\ reg' = [reg EXCEPT ![h].ssip = TRUE]
    /\ UNCHANGED <<cpu, lk, tf, stack, up, state, ticks, panicked>>

\* What the hart does on a trap that interrupts context c in privilege mode m.
Trapped(h, m) == [reg[h] EXCEPT !.sepc = Pc(reg[h].ctx), !.spp = m, !.spie = reg[h].sie, !.sie = FALSE]

\* A trap from user space: uservec loads the kernel's tp, usertrap() sets stvec.
usertrap_entry(h, frame) ==
    LET c == reg[h].ctx IN
    /\ panicked = "no" /\ Top(h).f = "user"
    /\ reg' = [reg EXCEPT ![h] = [Trapped(h, "U") EXCEPT !.tp = tf[c].kernel_hartid, !.stvec = "kernelvec"]]
    /\ Panic(reg[h].stvec # "uservec", "kerneltrap: not from supervisor mode")
    /\ Frames(h, <<frame>>)
    /\ UNCHANGED <<cpu, lk, tf, up, state, ticks>>

ecall(h, n) == usertrap_entry(h, Frame("usertrap", 0, reg[h].ctx, n))
user_tick(h) == reg[h].ssip /\ usertrap_entry(h, Frame("usertrap", 0, reg[h].ctx, None))

\* devintr() for a software interrupt: only hart 0 keeps the time.
CallDevintr(h) == (IF reg[h].tp = Hart0 THEN CallClockintr ELSE <<>>) \o <<Frame("devintr", 1, 0, 0)>>

devintr(h) ==
    /\ At(h, "devintr", 1)
    /\ reg' = [reg EXCEPT ![h].ssip = FALSE]
    /\ Return(h)
    /\ UNCHANGED <<cpu, lk, tf, up, state, ticks, panicked>>

\* usertrap(): v is the argument of the system call, None for an interrupt.
usertrap(h) ==
    /\ UNCHANGED <<cpu, lk, up, state, ticks, panicked>>
    /\ LET p == myproc(h)
           n == Top(h).v IN
       \/ /\ At(h, "usertrap", 0)
          /\ tf' = [tf EXCEPT ![p].epc = reg[h].sepc]
          /\ IF n = None
               THEN Frames(h, CallDevintr(h) \o <<[Top(h) EXCEPT !.at = 1]>>) /\ UNCHANGED reg
               ELSE /\ Frames(h, CallSysSleep(p, n) \o <<[Top(h) EXCEPT !.at = 2]>>)
                    /\ reg' = [reg EXCEPT ![h].sie = TRUE]
       \/ /\ At(h, "usertrap", 1)
          /\ Frames(h, CallYield(p) \o <<[Top(h) EXCEPT !.at = 2]>>)
          /\ UNCHANGED <<reg, tf>>

\* usertrapret(): intr_off, the registers that sret and uservec use, and sret.
usertrapret(h) ==
    /\ UNCHANGED <<cpu, lk, up, state, ticks>>
    /\ LET c == reg[h].ctx
           p == myproc(h) IN
       \/ /\ At(h, "usertrap", 2)
          /\ reg' = [reg EXCEPT ![h].sie = FALSE]
          /\ Goto(h, 3) /\ UNCHANGED <<tf, panicked>>
       \/ /\ At(h, "usertrap", 3)
          /\ reg' = [reg EXCEPT ![h] = [@ EXCEPT !.stvec = "uservec", !.spp = "U", !.spie = TRUE,
                                                 !.sepc = tf[p].epc]]
          /\ tf' = [tf EXCEPT ![p].kernel_hartid = reg[h].tp]
          /\ Goto(h, 4) /\ UNCHANGED panicked
       \/ /\ At(h, "usertrap", 4)
          /\ reg' = [reg EXCEPT ![h].sie = reg[h].spie, ![h].tp = None]
          /\ stack' = [stack EXCEPT ![c] = <<Frame("user", 0, c, 0)>>]
          /\ Panic(reg[h].sepc # UserPc(c) \/ reg[h].spp # "U", "lost in sret")
          /\ UNCHANGED tf

\* A tick in supervisor mode.  kernelvec saves the registers, tp (in l) among them;
\* kerneltrap() keeps sepc and sstatus in its locals and calls devintr().
kernel_tick(h) ==
    LET c == reg[h].ctx
        saved == [sepc |-> Pc(c), spie |-> TRUE, spp |-> "S"] IN
    /\ panicked = "no" /\ Top(h).f # "user"
    /\ reg[h].ssip /\ reg[h].sie
    /\ reg' = [reg EXCEPT ![h] = Trapped(h, "S")]
    /\ Panic(reg[h].stvec # "kernelvec", "usertrap: not from user mode")
    /\ stack' = [stack EXCEPT ![c] = CallDevintr(h) \o <<Frame("kerneltrap", 1, reg[h].tp, saved)>> \o @]
    /\ UNCHANGED <<cpu, lk, tf, up, state, ticks>>

\* The registers kernelvec's sret uses, and those it puts back: all but tp.
TpToo(r, f) == [r EXCEPT !.sepc = f.v.sepc, !.spie = f.v.spie, !.spp = f.v.spp, !.tp = f.l]
RestoreTrapRegs(r, f) == [r EXCEPT !.sepc = f.v.sepc, !.spie = f.v.spie, !.spp = f.v.spp]

\* kerneltrap() after devintr(): yield() if a process was running; then sret.
kerneltrap(h) ==
    /\ UNCHANGED <<cpu, lk, tf, up, state, ticks>>
    /\ LET p == myproc(h)
           c == reg[h].ctx
           r == RestoreTrapRegs(reg[h], Top(h)) IN
       \/ /\ At(h, "kerneltrap", 1)
          /\ Frames(h, (IF p # None /\ state[p] = "RUNNING" THEN CallYield(p) ELSE <<>>)
                         \o <<[Top(h) EXCEPT !.at = 2]>>)
          /\ UNCHANGED <<reg, panicked>>
       \/ /\ At(h, "kerneltrap", 2)
          /\ Return(h)
          /\ reg' = [reg EXCEPT ![h] = [r EXCEPT !.sie = r.spie]]
          /\ Panic(r.sepc # <<c, stack[c][2].f, stack[c][2].at>> \/ r.spp # "S", "lost in sret")

Step(h) ==
    \/ LockStep(h) \/ sched(h) \/ sched_back(h) \/ yield(h) \/ sleep(h) \/ scheduler(h)
    \/ clockintr(h) \/ sys_sleep(h) \/ usertrap(h) \/ usertrapret(h) \/ devintr(h) \/ kerneltrap(h)

Next ==
    \E h \in up :
        \/ Step(h)
        \/ \E n \in Delays : ecall(h, n)
        \/ user_tick(h)
        \/ kernel_tick(h)
        \/ timervec(h)

Spec == Init /\ [][Next]_vars

(***************************************************************************)
(* Properties.                                                             *)
(***************************************************************************)
\* No panic() of acquire, release, pop_off, sched, usertrap or kerneltrap is ever
\* reached, and no sret goes elsewhere than where the trap came from: the checks of
\* spinlock.c, proc.c and trap.c never fail.
NeverPanics == panicked = "no"

\* In the kernel tp is the hart's own number, so that mycpu() is its own struct cpu,
\* however often the thread has moved between harts since it saved its registers.
TpIsHart == \A h \in Hart : Top(h).f # "user" => reg[h].tp = h

\* A lock this hart's context is taking or giving up.
Moving(h) == IF \/ Top(h).f = "acquire" /\ Top(h).at \in {2, 3}
                \/ Top(h).f = "release" /\ Top(h).at = 1
             THEN 1 ELSE 0

\* noff of a cpu is the number of locks its hart holds, and while it holds one no
\* interrupt can come that would spin on it.
NoffCountsLocks ==
    \A h \in Hart :
        /\ cpu[h].noff = Cardinality({l \in Lock : lk[l].cpu = h}) + Moving(h)
        /\ cpu[h].noff > 0 => ~reg[h].sie

\* Inside an interrupt handler: interrupts stay off until its sret.
InHandler(c) ==
    \E i \in DOMAIN stack[c] : \/ stack[c][i].f = "kerneltrap"
                               \/ stack[c][i].f = "usertrap" /\ stack[c][i].v = None

InSyscall(c) == \E i \in DOMAIN stack[c] : stack[c][i].f = "sys_sleep"

\* push_off(), pop_off() and sched() give every thread the interrupt state it had:
\* off in a handler, on in a system call that holds no lock, whatever other threads
\* and the scheduler did with intena of the same cpu while it was switched out.
InterruptsMatch ==
    \A h \in Hart : LET c == reg[h].ctx IN
        /\ InHandler(c) => ~reg[h].sie
        /\ InSyscall(c) /\ ~InHandler(c) /\ cpu[h].noff = 0 => reg[h].sie

\* The discipline of spin locks: the checks of spinlock.c, proc.c and trap.c never fail,
\* noff counts the locks of a cpu, and every thread has the interrupt state it expects.
LockDiscipline == NeverPanics /\ NoffCountsLocks /\ InterruptsMatch

\* Clock interrupts since the model started, when ticks was t.
Count(t) == (t - Ticks0) % TicksMod

\* No wakeup is lost and the clock may wrap: with tickslock free, a thread asleep in
\* sys_sleep(n) has slept fewer than n ticks.
SleeperWoken ==
    ~lk[tickslock].locked =>
        \A p \in Thread : state[p] = "SLEEPING" =>
            \A i \in DOMAIN stack[p] : stack[p][i].f = "sys_sleep" =>
                Count(ticks) - Count(stack[p][i].v[2]) < stack[p][i].v[1]
=============================================================================
