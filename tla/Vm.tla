--------------------------------- MODULE Vm ---------------------------------
(***************************************************************************)
(* Physical pages (kalloc.c) and page tables (vm.c) as functions from one  *)
(* state of memory to the next.  A memory m is a record:                   *)
(*   free    how often each page is on kmem.freelist                       *)
(*   mem     what each page holds: PTEs and, for a page of a process, data *)
(*   left    how many calls of kalloc() can still succeed: other processes *)
(*           may take the rest of the free pages at any moment             *)
(*   panic   why the kernel has panicked, or ""                            *)
(*   r, slot what the last function returned: a number, or the place of a  *)
(*           PTE, <<page, index>>, with page 0 for a null pointer          *)
(* Addresses of pages are page numbers.  A page of data is one value.      *)
(***************************************************************************)
EXTENDS Integers, FiniteSets, FiniteSetsExt

CONSTANTS
    LEVELS, FAN,          \* levels of a page table, PTEs in a page of one
    PGSIZE,
    UINT64,               \* the range of an address: 2^64
    UART0, VIRTIO0, PLIC, KERNBASE, ETEXT, END, PHYSTOP,  \* page numbers
    NPROC

NPAGES == FAN ^ LEVELS                    \* MAXVA
TRAMPOLINE == NPAGES - 1
TRAPFRAME  == TRAMPOLINE - 1
KSTACK(p)  == TRAMPOLINE - (p + 1) * 2
TrampolineText == KERNBASE                \* the page of trampoline.S

Frame == END .. PHYSTOP - 1

\* A process cannot run into TRAPFRAME: there is less memory than address space.
ASSUME VmAssumption ==
    /\ \A c \in {LEVELS, FAN, PGSIZE, UINT64, UART0, NPROC} : c \in Nat \ {0}
    /\ UART0 < VIRTIO0 /\ VIRTIO0 < PLIC /\ PLIC < KERNBASE /\ KERNBASE < ETEXT
    /\ ETEXT <= END /\ END < PHYSTOP /\ PHYSTOP < KSTACK(NPROC - 1)
    /\ UINT64 > NPAGES * PGSIZE

PGROUNDUP(a)   == ((a + PGSIZE - 1) \div PGSIZE) * PGSIZE
PGROUNDDOWN(a) == (a \div PGSIZE) * PGSIZE
PageOf(a)      == a \div PGSIZE
PX(level, v)   == (v \div FAN ^ level) % FAN

Pte(pa, fl) == [pa |-> pa, fl |-> fl]
NoPte   == Pte(0, {})
Zero    == [pte |-> [j \in 0 .. FAN - 1 |-> NoPte], data |-> "zero"]
Junk(x) == [pte |-> [j \in 0 .. FAN - 1 |-> Pte(0, {"V", "junk"})], data |-> x]

Null == <<0, 0>>
PteAt(m, slot) == m.mem[slot[1]].pte[slot[2]]
SetPte(m, slot, pte) == [m EXCEPT !.mem[slot[1]].pte[slot[2]] = pte]
Valid(pte) == "V" \in pte.fl

Panic(m, why) == IF m.panic = "" THEN [m EXCEPT !.panic = why] ELSE m
Returning(m, x) == [m EXCEPT !.r = x]

(***************************************************************************)
(* kalloc.c.  The free list is under kmem.lock.  Which page is first on it *)
(* does not matter to anyone; the model takes the lowest.                  *)
(***************************************************************************)
kfree(m, f) ==
    IF m.panic # "" THEN m
    ELSE IF f \notin Frame THEN Panic(m, "kfree")
    ELSE [m EXCEPT !.free[f] = @ + 1, !.mem[f] = Junk("freed")]

take(m, f) == [m EXCEPT !.free[f] = @ - 1, !.mem[f] = Junk("allocated"), !.left = @ - 1, !.r = f]
available(m) == {f \in Frame : m.free[f] > 0}
kalloc(m) ==
    IF m.panic # "" \/ m.left = 0 \/ available(m) = {} THEN Returning(m, 0)
    ELSE take(m, Min(available(m)))

memzero(m, f) == [m EXCEPT !.mem[f] = Zero]
setdata(m, f, x) == [m EXCEPT !.mem[f].data = x]

\* kfree() of every page from end to PHYSTOP.
freerange(m) == [m EXCEPT !.free = [f \in Frame |-> @[f] + 1], !.mem = [f \in Frame |-> Junk("freed")]]

(***************************************************************************)
(* walk() and mappages().                                                  *)
(***************************************************************************)
RECURSIVE walk_from(_, _, _, _, _)
walk_new(m, at, v, level) ==
    IF m.r = 0 THEN [m EXCEPT !.slot = Null]
    ELSE walk_from(SetPte(memzero(m, m.r), at, Pte(m.r, {"V"})), m.r, v, TRUE, level - 1)
walk_from(m, pagetable, v, alloc, level) ==
    LET at == <<pagetable, PX(level, v)>>
    IN IF level = 0 THEN [m EXCEPT !.slot = at]
       ELSE IF Valid(PteAt(m, at)) THEN walk_from(m, PteAt(m, at).pa, v, alloc, level - 1)
       ELSE IF alloc THEN walk_new(kalloc(m), at, v, level)
       ELSE [m EXCEPT !.slot = Null]

walk(m, pagetable, v, alloc) ==
    IF v >= NPAGES THEN [Panic(m, "walk") EXCEPT !.slot = Null]
    ELSE walk_from(m, pagetable, v, alloc, LEVELS - 1)

\* The page that a user address is in, or 0.
any_page(m) == IF m.slot # Null /\ Valid(PteAt(m, m.slot)) THEN PteAt(m, m.slot).pa ELSE 0
user_page(m) ==
    IF m.slot # Null /\ {"V", "U"} \subseteq PteAt(m, m.slot).fl THEN PteAt(m, m.slot).pa ELSE 0
walkaddr(m, pagetable, v) == IF v >= NPAGES THEN 0 ELSE user_page(walk(m, pagetable, v, FALSE))

map_page(m, pa, perm) ==
    IF m.panic # "" \/ m.slot = Null THEN Returning(m, -1)
    ELSE IF Valid(PteAt(m, m.slot)) THEN Returning(Panic(m, "mappages: remap"), -1)
    ELSE Returning(SetPte(m, m.slot, Pte(pa, perm \cup {"V"})), 0)

\* n pages, from the lowest; the loop is cut in halves to keep the recursion flat.
RECURSIVE mappages(_, _, _, _, _, _)
map_rest(m, pagetable, v, n, pa, perm) ==
    IF m.r # 0 THEN m ELSE mappages(m, pagetable, v, n, pa, perm)
mappages(m, pagetable, v, n, pa, perm) ==
    LET h == n \div 2
    IN IF n = 1 THEN map_page(walk(m, pagetable, v, TRUE), pa, perm)
       ELSE map_rest(mappages(m, pagetable, v, h, pa, perm), pagetable, v + h, n - h, pa + h, perm)

(***************************************************************************)
(* Taking mappings away.                                                   *)
(***************************************************************************)
unmap_page(m, do_free) ==
    IF m.slot = Null THEN Panic(m, "uvmunmap: walk")
    ELSE IF ~Valid(PteAt(m, m.slot)) THEN Panic(m, "uvmunmap: not mapped")
    ELSE IF PteAt(m, m.slot).fl = {"V"} THEN Panic(m, "uvmunmap: not a leaf")
    ELSE IF do_free THEN SetPte(kfree(m, PteAt(m, m.slot).pa), m.slot, NoPte)
    ELSE SetPte(m, m.slot, NoPte)

RECURSIVE uvmunmap(_, _, _, _, _)
uvmunmap(m, pagetable, v, npages, do_free) ==
    IF npages = 0 \/ m.panic # "" THEN m
    ELSE uvmunmap(unmap_page(walk(m, pagetable, v, FALSE), do_free), pagetable, v + 1, npages - 1, do_free)

PagesDown(oldsz, newsz) == (oldsz - newsz) \div PGSIZE
PagesBetween(oldsz, newsz) == (PGROUNDUP(oldsz) - PGROUNDUP(newsz)) \div PGSIZE

uvmdealloc(m, pagetable, oldsz, newsz) ==
    IF newsz >= oldsz THEN Returning(m, oldsz)
    ELSE Returning(uvmunmap(m, pagetable, PageOf(PGROUNDUP(newsz)),
                            PagesBetween(oldsz, newsz), TRUE), newsz)

RECURSIVE freewalk(_, _)
free_entry(m, pagetable, j, pte) ==
    IF m.panic # "" \/ ~Valid(pte) THEN m
    ELSE IF pte.fl \cap {"R", "W", "X"} # {} THEN Panic(m, "freewalk: leaf")
    ELSE SetPte(freewalk(m, pte.pa), <<pagetable, j>>, NoPte)
freewalk(m, pagetable) ==
    kfree(FoldSet(LAMBDA j, acc : free_entry(acc, pagetable, j, acc.mem[pagetable].pte[j]),
                  m, 0 .. FAN - 1), pagetable)

uvmfree(m, pagetable, sz) ==
    freewalk(uvmunmap(m, pagetable, 0, PageOf(PGROUNDUP(sz)), TRUE), pagetable)

(***************************************************************************)
(* Giving memory to a process.                                             *)
(***************************************************************************)
zeroed(m) == IF m.r = 0 THEN m ELSE memzero(m, m.r)
uvmcreate(m) == zeroed(kalloc(m))

first_page(m, pagetable, x) ==
    setdata(mappages(m, pagetable, 0, 1, m.r, {"R", "W", "X", "U"}), m.r, x)
uvmfirst(m, pagetable, x) == first_page(zeroed(kalloc(m)), pagetable, x)

\* uvmalloc()'s loop: page a has just been mapped to f; a page has just been allocated.
RECURSIVE uvmalloc_from(_, _, _, _, _, _)
alloc_mapped(m, f, pagetable, oldsz, a, newsz, xperm) ==
    IF m.r # 0 THEN Returning(uvmdealloc(kfree(m, f), pagetable, a, oldsz), 0)
    ELSE uvmalloc_from(m, pagetable, oldsz, a + PGSIZE, newsz, xperm)
alloc_page(m, pagetable, oldsz, a, newsz, xperm) ==
    IF m.r = 0 THEN Returning(uvmdealloc(m, pagetable, a, oldsz), 0)
    ELSE alloc_mapped(mappages(memzero(m, m.r), pagetable, PageOf(a), 1, m.r, {"R", "U"} \cup xperm),
                      m.r, pagetable, oldsz, a, newsz, xperm)
uvmalloc_from(m, pagetable, oldsz, a, newsz, xperm) ==
    IF a >= newsz \/ m.panic # "" THEN Returning(m, newsz)
    ELSE alloc_page(kalloc(m), pagetable, oldsz, a, newsz, xperm)

uvmalloc(m, pagetable, oldsz, newsz, xperm) ==
    IF newsz < oldsz THEN Returning(m, oldsz)
    ELSE uvmalloc_from(m, pagetable, PGROUNDUP(oldsz), PGROUNDUP(oldsz), newsz, xperm)

\* uvmcopy()'s error path, with npages copied so far.
KeepCopied(m, new, npages) == Returning(m, -1)
UndoCopied(m, new, npages) == Returning(uvmunmap(m, new, 0, npages, TRUE), -1)

RECURSIVE uvmcopy_from(_, _, _, _, _)
copy_mapped(m, f, old, new, i, sz) ==
    IF m.r # 0 THEN UndoCopied(kfree(m, f), new, PageOf(i))
    ELSE uvmcopy_from(m, old, new, i + PGSIZE, sz)
copy_to(m, pte, old, new, i, sz) ==
    IF m.r = 0 THEN UndoCopied(m, new, PageOf(i))
    ELSE copy_mapped(mappages(setdata(memzero(m, m.r), m.r, m.mem[pte.pa].data),
                              new, PageOf(i), 1, m.r, pte.fl), m.r, old, new, i, sz)
copy_page(m, old, new, i, sz) ==
    IF m.slot = Null THEN Panic(m, "uvmcopy: pte should exist")
    ELSE IF ~Valid(PteAt(m, m.slot)) THEN Panic(m, "uvmcopy: page not present")
    ELSE copy_to(kalloc(m), PteAt(m, m.slot), old, new, i, sz)
uvmcopy_from(m, old, new, i, sz) ==
    IF i >= sz \/ m.panic # "" THEN Returning(m, 0)
    ELSE copy_page(walk(m, old, PageOf(i), FALSE), old, new, i, sz)

uvmcopy(m, old, new, sz) == uvmcopy_from(m, old, new, 0, sz)

clear_user(m) ==
    IF m.slot = Null THEN Panic(m, "uvmclear")
    ELSE SetPte(m, m.slot, Pte(PteAt(m, m.slot).pa, PteAt(m, m.slot).fl \ {"U"}))
clear_nothing(m, pagetable, v) == m
uvmclear(m, pagetable, v) == clear_user(walk(m, pagetable, v, FALSE))

(***************************************************************************)
(* Copying between the kernel and a process.                               *)
(***************************************************************************)
InPage(va, len) == Min({PGSIZE - (va % PGSIZE), len})
NextPage(va) == (PGROUNDDOWN(va) + PGSIZE) % UINT64

RECURSIVE copyout(_, _, _, _, _)
copy_out(m, pa0, pagetable, dstva, x, len) ==
    IF pa0 = 0 THEN Returning(m, -1)
    ELSE copyout(setdata(m, pa0, x), pagetable, NextPage(dstva), x, len - InPage(dstva, len))
copyout(m, pagetable, dstva, x, len) ==
    IF len = 0 THEN Returning(m, 0)
    ELSE copy_out(m, walkaddr(m, pagetable, PageOf(dstva)), pagetable, dstva, x, len)

RECURSIVE copyin(_, _, _, _)
copyin(m, pagetable, srcva, len) ==
    IF len = 0 THEN 0
    ELSE IF walkaddr(m, pagetable, PageOf(srcva)) = 0 THEN -1
    ELSE copyin(m, pagetable, NextPage(srcva), len - InPage(srcva, len))

\* The string ends with the byte at nul.
RECURSIVE copyinstr(_, _, _, _, _)
copyinstr(m, pagetable, srcva, max, nul) ==
    IF max = 0 THEN -1
    ELSE IF walkaddr(m, pagetable, PageOf(srcva)) = 0 THEN -1
    ELSE IF nul \in srcva .. srcva + InPage(srcva, max) - 1 THEN 0
    ELSE copyinstr(m, pagetable, NextPage(srcva), max - InPage(srcva, max), nul)

(***************************************************************************)
(* The kernel's page table.                                                *)
(***************************************************************************)
must_map(m) == IF m.r # 0 THEN Panic(m, "kvmmap") ELSE m
kvmmap(m, kpgtbl, v, pa, n, perm) == must_map(mappages(m, kpgtbl, v, n, pa, perm))

map_stack(m, kpgtbl, p) ==
    IF m.r = 0 THEN Panic(m, "kalloc") ELSE kvmmap(m, kpgtbl, KSTACK(p), m.r, 1, {"R", "W"})
RECURSIVE proc_mapstacks(_, _, _)
proc_mapstacks(m, kpgtbl, p) ==
    IF p = NPROC THEN m ELSE proc_mapstacks(map_stack(kalloc(m), kpgtbl, p), kpgtbl, p + 1)

\* The regions of kvmmake(): first page, number of pages, what it maps to, permissions.
Regions == <<
    <<UART0, 1, UART0, {"R", "W"}>>, <<VIRTIO0, 1, VIRTIO0, {"R", "W"}>>, <<PLIC, 1, PLIC, {"R", "W"}>>,
    <<KERNBASE, ETEXT - KERNBASE, KERNBASE, {"R", "X"}>>, <<ETEXT, PHYSTOP - ETEXT, ETEXT, {"R", "W"}>>,
    <<TRAMPOLINE, 1, TrampolineText, {"R", "X"}>> >>
map_regions(m, k) ==
    FoldSet(LAMBDA i, acc : kvmmap(acc, k, Regions[i][1], Regions[i][3], Regions[i][2], Regions[i][4]),
            m, DOMAIN Regions)
make_kernel(m, k) == Returning(proc_mapstacks(map_regions(memzero(m, k), k), k, 0), k)
kvmmake(m) == make_kernel(kalloc(m), kalloc(m).r)
=============================================================================
