------------------------------- MODULE Memory -------------------------------
(***************************************************************************)
(* The memory of processes: what fork(), exec(), sbrk(), exit() and wait() *)
(* (proc.c, exec.c, sysproc.c, sysfile.c) do with pages and page tables,   *)
(* and how the kernel reads and writes user memory.                        *)
(*                                                                         *)
(* Processes share only the free list, which is under kmem.lock; a page    *)
(* table is changed by its own process, or before anybody can run on it.   *)
(* So a system call is one step, in which kalloc() may fail at any call:   *)
(* others may have taken the pages that were free when it began.           *)
(*                                                                         *)
(* A definition placed just before another one of its kind and named for   *)
(* what it gets wrong is a fault the properties are tested against.        *)
(***************************************************************************)
EXTENDS Vm, Sequences

CONSTANTS
    Programs,      \* files that exec() may find
    Execs,         \* a file and argv: the lengths of its strings, 0 for a bad pointer
    Deltas,        \* arguments of sbrk()
    Buffers,       \* <<address, length>>: what system calls are given to copy to and from
    Values,        \* what may be stored in a page of a process
    ALIGN, PTR,    \* the alignment of sp (16) and the size of a pointer (8)
    MaxPages,      \* a bound on the size of a process, in pages
    MaxAllocs,     \* kalloc() fails after at most so many calls, or never
    MaxCalls       \* a bound on the system calls of a behaviour

Proc == 0 .. NPROC - 1
initproc == 0

VARIABLES
    free, mem,             \* kmem.freelist, and what pages hold
    kernel_pagetable,
    proc,                  \* proc[]: state, trapframe, pagetable, sz
    panic,
    calls                  \* system calls so far

vars == <<free, mem, kernel_pagetable, proc, panic, calls>>

Memory(left) == [free |-> free, mem |-> mem, panic |-> panic, left |-> left, r |-> 0, slot |-> Null]
Becomes(m) == free' = m.free /\ mem' = m.mem /\ panic' = m.panic

Unused == [state |-> "UNUSED", trapframe |-> 0, pagetable |-> 0, sz |-> 0]

(***************************************************************************)
(* Page tables of processes.                                               *)
(***************************************************************************)
\* proc_pagetable() returns the page table, or 0.
trapframe_mapped(m, pt) ==
    IF m.r < 0 THEN Returning(uvmfree(uvmunmap(m, pt, TRAMPOLINE, 1, FALSE), pt, 0), 0)
    ELSE Returning(m, pt)
trampoline_mapped(m, pt, trapframe) ==
    IF m.r < 0 THEN Returning(uvmfree(m, pt, 0), 0)
    ELSE trapframe_mapped(mappages(m, pt, TRAPFRAME, 1, trapframe, {"R", "W"}), pt)
created(m, trapframe) ==
    IF m.r = 0 THEN m
    ELSE trampoline_mapped(mappages(m, m.r, TRAMPOLINE, 1, TrampolineText, {"R", "X"}), m.r, trapframe)
proc_pagetable(m, trapframe) == created(uvmcreate(m), trapframe)

proc_freepagetable(m, pt, sz) ==
    uvmfree(uvmunmap(uvmunmap(m, pt, TRAMPOLINE, 1, FALSE), pt, TRAPFRAME, 1, FALSE), pt, sz)

\* freeproc(): what becomes of memory, and of the entry of the table.
free_table(m, pr) == IF pr.pagetable # 0 THEN proc_freepagetable(m, pr.pagetable, pr.sz) ELSE m
freeproc(m, pr) == free_table(IF pr.trapframe # 0 THEN kfree(m, pr.trapframe) ELSE m, pr)

StaleSize(pr) == [Unused EXCEPT !.sz = pr.sz]
Freed(pr) == Unused

\* allocproc(): memory and the entry, which is UNUSED if there was too little.
with_table(m, pr) ==
    IF m.r = 0 THEN [m |-> freeproc(m, pr), pr |-> Freed(pr)]
    ELSE [m |-> m, pr |-> [pr EXCEPT !.pagetable = m.r]]
with_trapframe(m, pr) ==
    IF m.r = 0 THEN [m |-> freeproc(m, pr), pr |-> Freed(pr)]
    ELSE with_table(proc_pagetable(m, m.r), [pr EXCEPT !.trapframe = m.r])
allocproc(m, pr) == with_trapframe(kalloc(m), [pr EXCEPT !.state = "USED"])

(***************************************************************************)
(* main() up to userinit().                                                *)
(***************************************************************************)
NoMemory == [free |-> [f \in Frame |-> 0], mem |-> [f \in Frame |-> Zero], panic |-> "",
             left |-> -1, r |-> 0, slot |-> Null]

first_proc(a) ==
    [m  |-> setdata(uvmfirst(a.m, a.pr.pagetable, "initcode"), a.pr.trapframe, "initcode"),
     pr |-> [a.pr EXCEPT !.state = "RUNNABLE", !.sz = PGSIZE]]
userinit(m) == first_proc(allocproc(m, Unused))

Kernel == kvmmake(freerange(NoMemory))
Booted == userinit(Kernel)

Init ==
    /\ free = Booted.m.free /\ mem = Booted.m.mem /\ panic = Booted.m.panic
    /\ kernel_pagetable = Kernel.r /\ calls = 0
    /\ proc = [p \in Proc |-> IF p = initproc THEN Booted.pr ELSE Unused]

Running(p) == panic = "" /\ proc[p].state = "RUNNABLE"
Allocs == 0 .. MaxAllocs \cup {-1}

(***************************************************************************)
(* fork().                                                                 *)
(***************************************************************************)
child_copied(m, p, np, pr) ==
    IF m.r < 0 THEN Becomes(freeproc(m, pr)) /\ proc' = [proc EXCEPT ![np] = Freed(pr)]
    ELSE /\ Becomes(setdata(m, pr.trapframe, m.mem[proc[p].trapframe].data))
         /\ proc' = [proc EXCEPT ![np] = [pr EXCEPT !.state = "RUNNABLE", !.sz = proc[p].sz]]

child_allocated(a, p, np) ==
    IF a.pr.state = "UNUSED" THEN Becomes(a.m) /\ proc' = [proc EXCEPT ![np] = a.pr]
    ELSE child_copied(uvmcopy(a.m, proc[p].pagetable, a.pr.pagetable, proc[p].sz), p, np, a.pr)

fork(p) ==
    /\ Running(p)
    /\ \E np \in Proc, left \in Allocs :
          /\ np = Min({c \in Proc : proc[c].state = "UNUSED"} \cup {NPROC})
          /\ child_allocated(allocproc(Memory(left), proc[np]), p, np)
    /\ UNCHANGED kernel_pagetable

(***************************************************************************)
(* exec(): load the segments, make a stack, commit.  x is memory m, the    *)
(* new page table pt with its size sz, and whether all is well.            *)
(***************************************************************************)
Bad(x) == [x EXCEPT !.ok = FALSE]

\* uvmalloc() in exec(): the new size, or a failure with the old one.
grown(x, m) == IF m.r = 0 THEN Bad([x EXCEPT !.m = m]) ELSE [x EXCEPT !.m = m, !.sz = m.r]
Grown(x, newsz, xperm) == grown(x, uvmalloc(x.m, x.pt, x.sz, newsz, xperm))

RECURSIVE loadseg(_, _, _)
load_page(x, pa, seg, i) ==
    IF pa = 0 THEN Bad([x EXCEPT !.m = Panic(@, "loadseg: address should exist")])
    ELSE IF seg.short THEN Bad(x)
    ELSE loadseg([x EXCEPT !.m = setdata(@, pa, seg.tag)], seg, i + PGSIZE)
loadseg(x, seg, i) ==
    IF ~x.ok \/ i >= seg.filesz THEN x
    ELSE load_page(x, walkaddr(x.m, x.pt, PageOf(seg.vaddr + i)), seg, i)

End(seg) == (seg.vaddr + seg.memsz) % UINT64
NotLoadable(seg) == seg.memsz < seg.filesz \/ End(seg) < seg.vaddr \/ seg.vaddr % PGSIZE # 0

RECURSIVE load(_, _)
load(x, segs) ==
    IF segs = <<>> \/ ~x.ok THEN x
    ELSE IF ~Head(segs).load THEN load(x, Tail(segs))
    ELSE IF NotLoadable(Head(segs)) THEN Bad(x)
    ELSE load(loadseg(Grown(x, End(Head(segs)), Head(segs).perm), Head(segs), 0), Tail(segs))

\* Two pages at the next page boundary, the first of them inaccessible.
guard(x) == IF ~x.ok THEN x ELSE [x EXCEPT !.m = uvmclear(@, x.pt, PageOf(x.sz) - 2), !.sp = x.sz]
make_stack(x) ==
    IF ~x.ok THEN x
    ELSE guard(Grown([x EXCEPT !.sz = PGROUNDUP(@)], PGROUNDUP(x.sz) + 2 * PGSIZE, {"W"}))

\* Push len bytes.
Aligned(sp) == sp - (sp % ALIGN)
pushed(x, m, sp) == IF m.r < 0 THEN Bad(x) ELSE [x EXCEPT !.m = m, !.sp = sp]
push(x, len) ==
    IF ~x.ok THEN x
    ELSE IF Aligned(x.sp - len) < x.sz - PGSIZE THEN Bad(x)
    ELSE pushed(x, copyout(x.m, x.pt, Aligned(x.sp - len), "args", len), Aligned(x.sp - len))

\* The strings of argv, and then the array of pointers to them.
RECURSIVE push_args(_, _)
push_args(x, argv) == IF argv = <<>> THEN x ELSE push_args(push(x, Head(argv)), Tail(argv))
push_all(x, argv) == push(push_args(x, argv), (Len(argv) + 1) * PTR)

ForgetNew(m, pt, sz) == m
DropNew(m, pt, sz) == proc_freepagetable(m, pt, sz)

\* exec() returns memory, and the entry of the process.
commit(x, pr, prog) ==
    IF ~x.ok THEN [m |-> DropNew(x.m, x.pt, x.sz), pr |-> pr]
    ELSE [m  |-> proc_freepagetable(setdata(x.m, pr.trapframe, prog.entry), pr.pagetable, pr.sz),
          pr |-> [pr EXCEPT !.pagetable = x.pt, !.sz = x.sz]]
exec_in(m, pr, prog, argv) ==
    IF m.r = 0 THEN [m |-> m, pr |-> pr]
    ELSE commit(push_all(make_stack(load([m |-> m, pt |-> m.r, sz |-> 0, sp |-> 0, ok |-> TRUE],
                                         prog.segs)), argv), pr, prog)
exec(m, pr, prog, argv) ==
    IF prog.elf THEN exec_in(proc_pagetable(m, pr.trapframe), pr, prog, argv) ELSE [m |-> m, pr |-> pr]

\* sys_exec(): the strings of argv are in pages of the kernel meanwhile.
RECURSIVE fetch_args(_, _, _)
fetched(m, argv, pages) ==
    IF m.r = 0 THEN [m |-> m, pages |-> pages, ok |-> FALSE]
    ELSE IF Head(argv) = 0 THEN [m |-> m, pages |-> pages \cup {m.r}, ok |-> FALSE]
    ELSE fetch_args(m, Tail(argv), pages \cup {m.r})
fetch_args(m, argv, pages) ==
    IF argv = <<>> THEN [m |-> m, pages |-> pages, ok |-> TRUE] ELSE fetched(kalloc(m), argv, pages)

FreeArgs(m, pages) == FoldSet(LAMBDA f, acc : kfree(acc, f), m, pages)
exec_done(p, e, pages) == Becomes(FreeArgs(e.m, pages)) /\ proc' = [proc EXCEPT ![p] = e.pr]
exec_args(p, a, x) ==
    exec_done(p, IF a.ok THEN exec(a.m, proc[p], x.prog, x.argv) ELSE [m |-> a.m, pr |-> proc[p]], a.pages)

sys_exec(p) ==
    /\ Running(p)
    /\ \E x \in Execs, left \in Allocs : exec_args(p, fetch_args(Memory(left), x.argv, {}), x)
    /\ UNCHANGED kernel_pagetable

(***************************************************************************)
(* sbrk(), exit(), wait(), and access to user memory.                      *)
(***************************************************************************)
growproc(m, pr, n) ==
    IF n > 0 THEN uvmalloc(m, pr.pagetable, pr.sz, (pr.sz + n) % UINT64, {"W"})
    ELSE IF n < 0 THEN uvmdealloc(m, pr.pagetable, pr.sz, (pr.sz + n) % UINT64)
    ELSE Returning(m, pr.sz)

resized(p, m, n) ==
    Becomes(m) /\ proc' = [proc EXCEPT ![p].sz = IF n > 0 /\ m.r = 0 THEN @ ELSE m.r]
sys_sbrk(p) ==
    /\ Running(p)
    /\ \E n \in Deltas, left \in Allocs :
          proc[p].sz + n <= MaxPages * PGSIZE /\ resized(p, growproc(Memory(left), proc[p], n), n)
    /\ UNCHANGED kernel_pagetable

exit(p) ==
    /\ Running(p) /\ p # initproc
    /\ proc' = [proc EXCEPT ![p].state = "ZOMBIE"]
    /\ UNCHANGED <<free, mem, kernel_pagetable, panic>>

\* wait() copies xstate to addr, unless that is 0, and frees a zombie.
reaped(c, m) ==
    IF m.r < 0 THEN Becomes(m) /\ UNCHANGED proc
    ELSE Becomes(freeproc(m, proc[c])) /\ proc' = [proc EXCEPT ![c] = Freed(@)]
wait(p, c) ==
    /\ Running(p) /\ proc[c].state = "ZOMBIE"
    /\ \E b \in Buffers :
          reaped(c, IF b[1] = 0 THEN Memory(-1)
                    ELSE copyout(Memory(-1), proc[p].pagetable, b[1], "stored", b[2]))
    /\ UNCHANGED kernel_pagetable

\* read() and others: the kernel writes to a buffer of the process.
sys_copyout(p) ==
    /\ Running(p)
    /\ \E b \in Buffers : Becomes(copyout(Memory(-1), proc[p].pagetable, b[1], "stored", b[2]))
    /\ UNCHANGED <<kernel_pagetable, proc>>

Next ==
    /\ calls < MaxCalls /\ calls' = calls + 1
    /\ \E p \in Proc :
          \/ fork(p) \/ sys_exec(p) \/ sys_sbrk(p) \/ exit(p) \/ sys_copyout(p)
          \/ \E c \in Proc : wait(p, c)

Spec == Init /\ [][Next]_vars

(***************************************************************************)
(* Properties.                                                             *)
(***************************************************************************)
Used == {p \in Proc : proc[p].state # "UNUSED"}
PteOrNone(m) == IF m.slot = Null THEN NoPte ELSE PteAt(m, m.slot)
Lookup(pt, v) == PteOrNone(walk(Memory(0), pt, v, FALSE))

\* The pages of a page table itself.
RECURSIVE Tables(_, _)
Tables(pt, level) ==
    {pt} \cup IF level = 0 THEN {}
              ELSE UNION {Tables(mem[pt].pte[j].pa, level - 1) : j \in {i \in 0 .. FAN - 1 : Valid(mem[pt].pte[i])}}

\* What process p has mapped for itself: pairs of a virtual and a physical page.
Mapped(p) ==
    LET pte == [v \in 0 .. NPAGES - 1 |-> Lookup(proc[p].pagetable, v)]
    IN {<<v, pte[v].pa>> : v \in {u \in DOMAIN pte : Valid(pte[u])} \ {TRAMPOLINE, TRAPFRAME}}

\* What the pages of memory are used for.
Uses ==
    {<<t, "kernel table">> : t \in Tables(kernel_pagetable, LEVELS - 1)}
    \cup {<<Lookup(kernel_pagetable, KSTACK(p)).pa, "stack", p>> : p \in Proc}
    \cup {<<proc[p].trapframe, "trapframe", p>> : p \in Used}
    \cup UNION {{<<t, "table", p>> : t \in Tables(proc[p].pagetable, LEVELS - 1)} : p \in Used}
    \cup UNION {{<<u[2], "page", p, u[1]>> : u \in Mapped(p)} : p \in Used}

\* Whichever call of kalloc() fails in fork(), exec() or sbrk(), every page is on the
\* free list once or has exactly one use: none is lost, none is freed twice or while
\* somebody still maps it (kalloc.c, vm.c, proc.c, exec.c).
PagesAccounted ==
    LET uses == Uses
    IN \A f \in Frame : free[f] + Cardinality({u \in uses : u[1] = f}) = 1

\* The error paths unmap exactly what was mapped: no panic of kalloc.c, vm.c or exec.c
\* is ever reached ("remap", "freewalk: leaf", "not mapped", ...).
NeverPanics == panic = ""

\* In every page table of a process the trampoline and the process's own trapframe are
\* mapped where uservec expects them and not accessible to user code, and nothing else is
\* mapped outside of 0..sz; kernel stacks have unmapped pages around them.
KernelPagesHidden ==
    /\ \A p \in Used :
          LET pt == proc[p].pagetable
          IN /\ Lookup(pt, TRAMPOLINE) = Pte(TrampolineText, {"V", "R", "X"})
             /\ Lookup(pt, TRAPFRAME) = Pte(proc[p].trapframe, {"V", "R", "W"})
             /\ \A u \in Mapped(p) : u[1] < PageOf(PGROUNDUP(proc[p].sz))
    /\ \A p \in Proc : Lookup(kernel_pagetable, KSTACK(p) - 1) = NoPte
                       /\ Lookup(kernel_pagetable, KSTACK(p) + 1) = NoPte

\* copyin() and copyinstr() succeed exactly when every byte asked for is in a page that
\* the process may access, also across pages and at the end of the address space.
CopyinExact ==
    \A p \in Used, b \in Buffers :
        LET pt == proc[p].pagetable
            all == \A a \in b[1] .. b[1] + b[2] - 1 : PageOf(a) < NPAGES /\ "U" \in Lookup(pt, PageOf(a)).fl
        IN /\ (copyin(Memory(0), pt, b[1], b[2]) = 0) = all
           /\ (copyinstr(Memory(0), pt, b[1], b[2], b[1] + b[2] - 1) = 0) = all

\* What a process can reach, by itself or through system calls, is exactly its own pages
\* that are accessible to users: KernelPagesHidden and CopyinExact.
UserReach == KernelPagesHidden /\ CopyinExact

PageImage(pte) == [fl |-> pte.fl, data |-> mem[pte.pa].data]
Image(p) ==
    IF p \notin Used THEN [sz |-> 0, page |-> <<>>, regs |-> ""]
    ELSE [sz   |-> proc[p].sz,
          page |-> [v \in 1 .. PageOf(PGROUNDUP(proc[p].sz)) |-> PageImage(Lookup(proc[p].pagetable, v - 1))],
          regs |-> mem[proc[p].trapframe].data]

Spaces == INSTANCE AddressSpace WITH img <- [p \in Proc |-> Image(p)]

\* The page tables give every process an address space of its own: fork() copies it,
\* exec() replaces all of it or, when it fails, leaves all of it, sbrk() adds zeroed
\* pages or removes pages at the end, and no other process's calls change it.
IsAddressSpaces == Spaces!Spec
=============================================================================
