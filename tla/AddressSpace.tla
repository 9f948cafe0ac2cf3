---------------------------- MODULE AddressSpace ----------------------------
(***************************************************************************)
(* What a process can rely on about its memory: its own flat array of      *)
(* pages.  fork() copies it, exec() replaces it by the program's image or  *)
(* leaves it as it is, sbrk() adds zeroed pages at the end or removes      *)
(* pages from there, and only the process itself, or the kernel on its     *)
(* behalf, changes what a page holds.                                      *)
(***************************************************************************)
EXTENDS Integers, Sequences, FiniteSets, FiniteSetsExt

CONSTANTS Proc, PGSIZE, Programs, Deltas, Values

VARIABLE img

NoImage == [sz |-> 0, page |-> <<>>, regs |-> ""]
Up(a) == (a + PGSIZE - 1) \div PGSIZE
Page(fl, data) == [fl |-> fl \cup {"V"}, data |-> data]

\* Page v of a program's image (page[v + 1]): the flags of the segment that first
\* reached so far, and what the last segment with a part of the file there put there.
End(segs, i) == Max({0} \cup {segs[j].vaddr + segs[j].memsz : j \in 1 .. i})
TextPage(segs, v) ==
    LET first == Min({i \in DOMAIN segs : Up(End(segs, i)) > v})
        there == {i \in DOMAIN segs : segs[i].vaddr <= v * PGSIZE
                                      /\ v * PGSIZE < segs[i].vaddr + segs[i].filesz}
    IN Page({"R", "U"} \cup segs[first].perm,
            IF there = {} THEN "zero" ELSE segs[Max(there)].tag)

Loaded(prog) ==
    LET segs == SelectSeq(prog.segs, LAMBDA s : s.load)
        n    == Up(End(segs, Len(segs)))
    IN [sz   |-> (n + 2) * PGSIZE,
        page |-> [v \in 1 .. n + 2 |->
                    IF v <= n THEN TextPage(segs, v - 1)
                    ELSE IF v = n + 1 THEN Page({"R", "W"}, "zero")
                    ELSE Page({"R", "W", "U"}, "args")],
        regs |-> prog.entry]

Resized(im, sz) ==
    [im EXCEPT !.sz = sz,
               !.page = [v \in 1 .. Up(sz) |-> IF v <= Up(im.sz) THEN im.page[v]
                                               ELSE Page({"R", "W", "U"}, "zero")]]

Initcode == [sz |-> PGSIZE, page |-> <<Page({"R", "W", "X", "U"}, "initcode")>>, regs |-> "initcode"]

Init == \E p \in Proc : img = [q \in Proc |-> IF q = p THEN Initcode ELSE NoImage]

(***************************************************************************)
(* Steps from a to b, where a and b are images of one process.             *)
(***************************************************************************)
Images == {Loaded(prog) : prog \in Programs}
Exec(a, b) == b \in Images
Sbrk(a, b) == \E d \in Deltas : a.sz + d >= 0 /\ b = Resized(a, a.sz + d)
Store(a, b) ==
    /\ b.sz = a.sz /\ b.regs = a.regs /\ DOMAIN b.page = DOMAIN a.page
    /\ \A v \in DOMAIN a.page :
          \/ b.page[v] = a.page[v]
          \/ /\ b.page[v].fl = a.page[v].fl /\ "U" \in a.page[v].fl
             /\ b.page[v].data \in Values

\* Of the processes, from s to t: one changes its image, is copied, or reaps another
\* one and may be told its exit status in memory.
Others(s, t, ps) == \A q \in Proc \ ps : t[q] = s[q]
Steps(s, t) == \E p \in Proc :
    /\ s[p] # NoImage
    /\ \/ Others(s, t, {p}) /\ (Store(s[p], t[p]) \/ Sbrk(s[p], t[p]) \/ Exec(s[p], t[p]))
       \/ \E c \in Proc \ {p} :
             /\ Others(s, t, {p, c})
             /\ \/ s[c] = NoImage /\ t[c] = s[p] /\ t[p] = s[p]
                \/ t[c] = NoImage /\ Store(s[p], t[p])

Next == Steps(img, img')

Spec == Init /\ [][Next]_img
=============================================================================
