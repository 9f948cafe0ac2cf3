----------------------------- MODULE ByteFiles ------------------------------
(***************************************************************************)
(* What the contents of inodes promise: a file is a sequence of bytes.  A  *)
(* write replaces bytes from some place on, at once, and may extend the    *)
(* file; what a read returns was all in the file at one moment.            *)
(*                                                                         *)
(* A write that fails half-way leaves bytes that it does not count.  They  *)
(* are shown but not kept: any of them may be forgotten at any time.       *)
(***************************************************************************)
EXTENDS Integers, Sequences

CONSTANTS Proc, Inum, Byte, Chunk,
    Unit,          \* the bytes of a block: a write fails in the middle of one
    MaxSize

VARIABLES
    file,          \* by inode: the bytes shown, and the bytes that are kept
    result         \* what a read or stat is about to return

vars == <<file, result>>

NoResult == <<>>

(***************************************************************************)
(* Steps of one file from s to t, and results r of its state s.            *)
(***************************************************************************)
Longer(a, b) == IF a > b THEN a ELSE b
Known(s, j) == {s.shown[j], s.kept[j]}

\* A process writes x from place o on: n bytes, and m more that it does not count.
Written(s, t, x, o, n, m) ==
    /\ Len(t.shown) = Longer(Len(s.shown), o + n) /\ Len(t.kept) = Len(t.shown)
    /\ \A j \in DOMAIN t.shown :
          IF j \in o + 1 .. o + n THEN Known(t, j) = {x}
          ELSE /\ t.shown[j] \in Known(s, j) \/ (j \in o + n + 1 .. o + n + m /\ t.shown[j] = x)
               /\ t.kept[j] \in {s.kept[j], t.shown[j]}
Write(s, t) ==
    \E x \in Byte, o \in 0 .. Len(s.shown), n \in 0 .. Chunk, m \in 0 .. Unit - 1 :
        /\ o + n <= MaxSize /\ ((o + n) % Unit) + m <= Unit
        /\ Written(s, t, x, o, n, m)
Truncate(t) == t.shown = <<>> /\ t.kept = <<>>
Forget(s, t) ==
    /\ t.kept = s.kept /\ Len(t.shown) = Len(s.shown)
    /\ \A j \in DOMAIN s.shown : t.shown[j] \in Known(s, j)

Read(s, r) == \E o \in 0 .. Len(s.shown) - 1 :
    Len(r) \in 1 .. Len(s.shown) - o /\ \A j \in DOMAIN r : r[j] \in Known(s, o + j)
Stat(s, r) == r = <<Len(s.shown)>>

(***************************************************************************)
(* Steps from the files f and the results r to g and q.                    *)
(***************************************************************************)
Change(f, g) == \E n \in Inum :
    /\ \A m \in Inum \ {n} : g[m] = f[m]
    /\ Write(f[n], g[n]) \/ Truncate(g[n])

Tell(f, r, q) == \E p \in Proc, n \in Inum :
    /\ \A o \in Proc \ {p} : q[o] = r[o]
    /\ r[p] = NoResult /\ (Read(f[n], q[p]) \/ Stat(f[n], q[p]))

Return(r, q) == \E p \in Proc : q \in {r, [r EXCEPT ![p] = NoResult]}

\* When a call returns, or at any other time, what was not kept may be forgotten.
Steps(f, r, g, q) ==
    \/ f = g /\ Tell(f, r, q)
    \/ Return(r, q) /\ \A n \in Inum : Forget(f[n], g[n])
    \/ r = q /\ Change(f, g)

Init ==
    /\ file \in [Inum -> [shown : Seq(Nat), kept : Seq(Nat)]]
    /\ \A n \in Inum : file[n].kept = file[n].shown
    /\ result = [p \in Proc |-> NoResult]

\* (The two sets let TLC evaluate what stands for file once in a step.)
Next == \E f \in {file}, g \in {file'} : Steps(f, result, g, result')

Spec == Init /\ [][Next]_vars
=============================================================================
