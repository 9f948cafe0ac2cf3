------------------------------ MODULE MCMemory ------------------------------
(* An instance of Memory for TLC. *)
EXTENDS Memory

Seg(vaddr, memsz, filesz, perm, tag) ==
    [vaddr |-> vaddr, memsz |-> memsz, filesz |-> filesz, perm |-> perm, tag |-> tag,
     load |-> TRUE, short |-> FALSE]

\* Text and data with bss; a segment inside another one, after one that is not loaded;
\* no ELF file; a short file; an end of segment beyond the range of an address.
A == [elf |-> TRUE, entry |-> "A", segs |-> <<Seg(0, 3, 3, {"X"}, "text"), Seg(4, 3, 2, {"W"}, "data")>>]
B == [elf |-> TRUE, entry |-> "B", segs |-> <<[Seg(0, 9, 9, {}, "note") EXCEPT !.load = FALSE],
                                             Seg(0, 4, 4, {"W"}, "text"), Seg(0, 2, 1, {}, "head")>>]
C == [elf |-> FALSE, entry |-> "C", segs |-> <<>>]
D == [elf |-> TRUE, entry |-> "D", segs |-> <<Seg(0, 3, 3, {"X"}, "text"),
                                             [Seg(4, 4, 4, {"W"}, "data") EXCEPT !.short = TRUE]>>]
E == [elf |-> TRUE, entry |-> "E", segs |-> <<Seg(0, 3, 3, {"X"}, "text"), Seg(8, UINT64 - 4, 0, {}, "data")>>]
MCPrograms == {A, B, C, D, E}
MCExecs == {[prog |-> A, argv |-> <<>>], [prog |-> A, argv |-> <<3, 2>>], [prog |-> B, argv |-> <<1>>],
            [prog |-> B, argv |-> <<1, 0>>], [prog |-> C, argv |-> <<1>>], [prog |-> D, argv |-> <<>>],
            [prog |-> E, argv |-> <<>>]}
MCDeltas == {5, 0, -3, -100}
MCBuffers == {<<0, 1>>, <<3, 2>>, <<UINT64 - 2, 3>>, <<NPAGES * PGSIZE - 6, 3>>}
MCValues == {"stored", "args"}
=============================================================================
