----------------------------- MODULE LogPhases -----------------------------
(***************************************************************************)
(* The data of the log, phase by phase: every step of Log preserves        *)
(* Phases, the part of IInv that says which copies of a block are good.    *)
(***************************************************************************)
EXTENDS LogInvariant

\* A step of a process in a system call, outside commit().
OpStep(p) ==
    \/ begin_op(p) \/ log_write(p) \/ end_op(p) \/ Brelse(p)
    \/ \E b \in Block : Read(p, b)
    \/ \E b \in Block, d \in Data : Modify(p, b, d)

\* A call that begins, reads, writes or ends.
LEMMA OpPhases ==
  ASSUME TypeOK, Control, Locks, Header, Phases, [Next]_vars, NEW p \in Proc, OpStep(p)
  PROVE  Phases'
<1> USE DEF Goto
<1>p. pc \in [Proc -> PC] /\ cur \in [Proc -> Block \cup {None}]
  BY Zenon DEF TypeOK
<1>t. /\ cache \in [Block -> Data \cup {Torn, None}]
      /\ home \in [Block -> Data \cup {Torn}] /\ logd \in [Slots -> Data \cup {Torn}]
  BY Zenon DEF TypeOK
<1>h. lh \in Seq(Block) /\ hdr \in Seq(Block) /\ tail \in Nat
  BY Zenon DEF TypeOK
<1>l. /\ Len(lh) \in Nat /\ DOMAIN lh = 1 .. Len(lh) /\ tail \in Nat
      /\ \A i \in DOMAIN lh : lh[i] \in Block
  BY <1>h
<1>n. None \notin Data \cup {Torn}
  BY LogAssumption DEF LogAssumption
<1>b. \A b \in Block : BufData(b) # None /\ (cache[b] # None => BufData(b) = cache[b])
  BY <1>t, <1>n DEF BufData
<1>u. \A q,
   r \in Proc : pc[q] \in CommitPc => (pc[r] \in CommitPc => r = q) /\ pc[r] \notin InOp
  BY DEF Control, At, Active
<1>v. boot' = "up" /\ Empty' /\ CleanOrLogged' /\ LogGood' /\ HomeGood' /\ ClearGood' => Phases'
  BY DEF Phases, Booting
<1>g. Running => Empty /\ CleanOrLogged /\ LogGood /\ HomeGood /\ ClearGood
  BY DEF Phases
<1>1. CASE begin_op(p)
  <2>0. /\ boot = "up" /\ boot' = "up" /\ panicked = "no"
        /\ UNCHANGED <<home, logd, hdr, lh, tail, committing, cache>>
    BY <1>1 DEF begin_op, Running, diskvars, cachevars
  <2>1. /\ At(Writing)' <=> At(Writing)
        /\ At(Installing)' <=> At(Installing)
        /\ At({"clear"})' <=> At({"clear"})
        /\ At({"committed"})' <=> At({"committed"})
    BY <1>p, <1>1 DEF begin_op, At, Writing, Installing
  <2>2. \A b \in Block : Dirty(b)' <=> Dirty(b)
    BY <1>p, <1>1 DEF begin_op, Dirty
  <2>3. Active' = {} => Active = {}
    BY <1>p, <1>1 DEF begin_op, Active, InOp
  <2>E. Empty'
    BY <1>g, <2>0, <2>1, <2>3 DEF Running, Empty
  <2>C. CleanOrLogged'
    BY <1>g, <2>0, <2>2 DEF Running, CleanOrLogged, Clean
  <2>L. LogGood'
    BY <1>g, <2>0, <2>1 DEF Running, LogGood
  <2>H. HomeGood'
    BY <1>g, <2>0, <2>1 DEF Running, HomeGood, Home, Clean
  <2>K. ClearGood'
    BY <1>g, <2>0, <2>1 DEF Running, ClearGood, Home
  <2> QED
    BY <1>v, <2>0, <2>E, <2>C, <2>L, <2>H, <2>K
<1>2. CASE log_write(p)
  <2>0. /\ boot = "up" /\ boot' = "up" /\ panicked = "no"
        /\ UNCHANGED <<home, logd, hdr, tail, committing, cache>>
    BY <1>2 DEF log_write, Running, diskvars
  <2>1. ~At(Writing) /\ ~At(Installing) /\ ~At({"clear"}) /\ ~At({"committed"})
    BY <1>u, <1>2 DEF log_write, At, Writing, Installing, CommitPc, InOp
  <2>2. ~At(Writing)' /\ ~At(Installing)' /\ ~At({"clear"})' /\ ~At({"committed"})'
    BY <1>p, <2>1, <1>2 DEF log_write, At, Writing, Installing
  <2>3. Active' # {}
    BY <1>p, <1>2 DEF log_write, Active, InOp
  <2>4. \A c \in Block : Dirty(c) => Dirty(c)' \/ c = cur[p]
    BY <1>p, <1>2 DEF log_write, Dirty
  <2> SUFFICES ASSUME panicked' = "no" PROVE Phases'
    BY <2>0 DEF Phases, Booting, Running
  <2>5. \A c \in Block : c \in Range(lh) \/ c = cur[p] => c \in Range(lh')
    <3>1. CASE cur[p] \in Range(lh)
      BY <3>1, <1>2 DEF log_write
    <3>2. CASE cur[p] \notin Range(lh)
      <4>1. lh' = Append(lh, cur[p]) /\ cur[p] \in Block
        BY <3>2, <1>2 DEF log_write, Locks, HoldsBuffer
      <4>2. /\ DOMAIN lh' = 1 .. Len(lh) + 1 /\ lh'[Len(lh) + 1] = cur[p]
            /\ \A i \in 1 .. Len(lh) : lh'[i] = lh[i]
        BY <1>h, <4>1
      <4> QED
        BY <1>l, <4>2 DEF Range
    <3> QED
      BY <3>1, <3>2
  <2>E. Empty'
    BY <1>g, <2>0, <2>1, <2>2, <2>3 DEF Running, Empty
  <2>C. CleanOrLogged'
    BY <1>g, <2>0, <2>4, <2>5 DEF Running, CleanOrLogged, Clean
  <2>L. LogGood'
    BY <2>2 DEF LogGood
  <2>H. HomeGood'
    BY <2>2 DEF HomeGood
  <2>K. ClearGood'
    BY <2>2 DEF ClearGood
  <2> QED
    BY <1>v, <2>0, <2>E, <2>C, <2>L, <2>H, <2>K
<1>3. CASE end_op(p)
  <2>0. /\ boot = "up" /\ boot' = "up" /\ panicked = "no"
        /\ UNCHANGED <<home, logd, hdr, lh, tail, cache>>
    BY <1>3, Zenon DEF end_op, Running, diskvars, cachevars
  <2>1. ~At(Writing) /\ ~At(Installing) /\ ~At({"clear"}) /\ ~At({"committed"})
    BY <1>u, <1>3, Zenon DEF end_op, At, Writing, Installing, CommitPc, InOp
  <2>2. ~At(Writing)' /\ ~At(Installing)' /\ ~At({"clear"})' /\ ~At({"committed"})'
    BY <1>p, <2>1, <1>3, Zenon DEF end_op, Wakeup, At, Writing, Installing
  <2>3. \A b \in Block : Dirty(b)' <=> Dirty(b)
    BY <1>p, <1>3, Zenon DEF end_op, Wakeup, Dirty
  <2>4. committing' \/ Active' # {}
    <3>1. outstanding' = Cardinality(Active')
      BY ControlStep DEF Control
    <3>2. outstanding' # 0 => Active' # {}
      BY <3>1, FS_EmptySet
    <3> QED
      BY <3>2, <1>3, Zenon DEF end_op
  <2>E. Empty'
    BY <1>g, <2>0, <2>1, <2>2, <2>4 DEF Running, Empty
  <2>C. CleanOrLogged'
    BY <1>g, <2>0, <2>3 DEF Running, CleanOrLogged, Clean
  <2>L. LogGood'
    BY <2>2 DEF LogGood
  <2>H. HomeGood'
    BY <2>2 DEF HomeGood
  <2>K. ClearGood'
    BY <2>2 DEF ClearGood
  <2> QED
    BY <1>v, <2>0, <2>E, <2>C, <2>L, <2>H, <2>K
<1>4. CASE Brelse(p)
  <2>0. /\ boot = "up" /\ boot' = "up" /\ panicked = "no"
        /\ UNCHANGED <<home, logd, hdr, lh, tail, committing, cache>>
    BY <1>4 DEF Brelse, Running, diskvars, logvars
  <2>1. /\ At(Writing)' <=> At(Writing)
        /\ At(Installing)' <=> At(Installing)
        /\ At({"clear"})' <=> At({"clear"})
        /\ At({"committed"})' <=> At({"committed"})
    BY <1>p, <1>4 DEF Brelse, At, Writing, Installing
  <2>2. \A b \in Block : Dirty(b)' <=> Dirty(b)
    BY <1>p, <1>4 DEF Brelse, Dirty
  <2>3. Active' = {} => Active = {}
    BY <1>p, <1>4 DEF Brelse, Active, InOp
  <2>E. Empty'
    BY <1>g, <2>0, <2>1, <2>3 DEF Running, Empty
  <2>C. CleanOrLogged'
    BY <1>g, <2>0, <2>2 DEF Running, CleanOrLogged, Clean
  <2>L. LogGood'
    BY <1>g, <2>0, <2>1 DEF Running, LogGood
  <2>H. HomeGood'
    BY <1>g, <2>0, <2>1 DEF Running, HomeGood, Home, Clean
  <2>K. ClearGood'
    BY <1>g, <2>0, <2>1 DEF Running, ClearGood, Home
  <2> QED
    BY <1>v, <2>0, <2>E, <2>C, <2>L, <2>H, <2>K
<1>5. ASSUME NEW b \in Block, Read(p, b) PROVE Phases'
  <2>0. /\ boot = "up" /\ boot' = "up" /\ panicked = "no"
        /\ cache' = [cache EXCEPT ![b] = BufData(b)]
        /\ UNCHANGED <<home, logd, hdr, lh, tail, committing>>
    BY <1>5 DEF Read, Running, diskvars, logvars
  <2>1. /\ At(Writing)' <=> At(Writing)
        /\ At(Installing)' <=> At(Installing)
        /\ At({"clear"})' <=> At({"clear"})
        /\ At({"committed"})' <=> At({"committed"})
    BY <1>p, <1>5 DEF Read, At, Writing, Installing
  <2>2. \A c \in Block : Dirty(c)' <=> Dirty(c)
    BY <1>p, <1>5 DEF Read, Dirty
  <2>3. Active' = Active
    BY <1>p, <1>5 DEF Read, Active, InOp
  <2>4. \A c \in Block : (Clean(c) => Clean(c)') /\ (cache[c] # None => cache'[c] = cache[c])
    BY <1>t, <1>b, <2>0 DEF Clean, BufData
  <2>5. At(Writing) => \A i \in DOMAIN lh : cache[lh[i]] # None
    <3> SUFFICES ASSUME At(Writing), NEW i \in DOMAIN lh PROVE cache[lh[i]] # None
      OBVIOUS
    <3>1. ~Installed(i)
      BY <1>u DEF Installed, At, Writing, Installing, CommitPc
    <3> QED
      BY <1>l, <2>0, <3>1 DEF Header
  <2>6. \A i \in DOMAIN lh : logd[i] # None
    BY <1>l, <1>t, <1>n, LogAssumption DEF Header, Slots, LogAssumption
  <2>E. Empty'
    BY <1>g, <2>0, <2>1, <2>3 DEF Running, Empty
  <2>C. CleanOrLogged'
    BY <1>g, <2>0, <2>2, <2>4 DEF Running, CleanOrLogged
  <2>L. LogGood'
    BY <1>g, <1>l, <2>0, <2>1, <2>4, <2>5 DEF Running, LogGood
  <2>H. HomeGood'
    <3> SUFFICES ASSUME At(Installing) PROVE HomeGood'
      BY <2>1 DEF HomeGood
    <3>1. hdr = lh /\ tail <= Len(lh) /\ Home(lh, tail) /\ \A i \in DOMAIN lh :
             IF i <= tail THEN Clean(lh[i]) ELSE cache[lh[i]] = logd[i]
      BY <1>g, <2>0 DEF HomeGood, Running
    <3>2. Home(lh, tail)'
      BY <2>0, <3>1 DEF Home
    <3>3. \A i \in DOMAIN lh : IF i <= tail THEN Clean(lh[i])' ELSE cache'[lh[i]] = logd[i]
      BY <1>l, <2>0, <2>4, <2>6, <3>1 DEF Clean
    <3> QED
      BY <2>0, <3>1, <3>2, <3>3 DEF HomeGood, Clean
  <2>K. ClearGood'
    BY <1>g, <2>0, <2>1 DEF Running, ClearGood, Home
  <2> QED
    BY <1>v, <2>0, <2>E, <2>C, <2>L, <2>H, <2>K
<1>6. ASSUME NEW b \in Block, NEW d \in Data, Modify(p, b, d) PROVE Phases'
  <2>0. /\ boot = "up" /\ boot' = "up" /\ panicked = "no"
        /\ cache' = [cache EXCEPT ![b] = d]
        /\ UNCHANGED <<home, logd, hdr, lh, tail, committing>>
    BY <1>6 DEF Modify, Running, diskvars, logvars
  <2>1. ~At(Writing) /\ ~At(Installing) /\ ~At({"clear"}) /\ ~At({"committed"})
    BY <1>u, <1>6 DEF Modify, At, Writing, Installing, CommitPc, InOp
  <2>2. ~At(Writing)' /\ ~At(Installing)' /\ ~At({"clear"})' /\ ~At({"committed"})'
    BY <1>p, <2>1, <1>6 DEF Modify, At, Writing, Installing
  <2>3. \A c \in Block : Dirty(c)' <=> Dirty(c) \/ c = b
    BY <1>p, <1>6 DEF Modify, Bread, Dirty
  <2>4. Active' # {}
    BY <1>p, <1>6 DEF Modify, Active, InOp
  <2>5. \A c \in Block : c # b /\ Clean(c) => Clean(c)'
    BY <1>t, <2>0 DEF Clean
  <2>E. Empty'
    BY <1>g, <2>0, <2>1, <2>2, <2>4 DEF Running, Empty
  <2>C. CleanOrLogged'
    BY <1>g, <2>0, <2>3, <2>5 DEF Running, CleanOrLogged
  <2>L. LogGood'
    BY <2>2 DEF LogGood
  <2>H. HomeGood'
    BY <2>2 DEF HomeGood
  <2>K. ClearGood'
    BY <2>2 DEF ClearGood
  <2> QED
    BY <1>v, <2>0, <2>E, <2>C, <2>L, <2>H, <2>K
<1> QED
  BY <1>1, <1>2, <1>3, <1>4, <1>5, <1>6 DEF OpStep

\* A step of commit().
LEMMA CommitPhases ==
  ASSUME TypeOK, Control, Locks, Header, Phases, NEW p \in Proc, Committer(p)
  PROVE  Phases'
<1> USE DEF Goto
<1>p. pc \in [Proc -> PC] /\ cur \in [Proc -> Block \cup {None}]
  BY Zenon DEF TypeOK
<1>t. /\ cache \in [Block -> Data \cup {Torn, None}]
      /\ home \in [Block -> Data \cup {Torn}] /\ logd \in [Slots -> Data \cup {Torn}]
  BY Zenon DEF TypeOK
<1>h. lh \in Seq(Block) /\ hdr \in Seq(Block) /\ tail \in Nat
  BY Zenon DEF TypeOK
<1>l. /\ Len(lh) \in Nat /\ DOMAIN lh = 1 .. Len(lh) /\ tail \in Nat
      /\ \A i \in DOMAIN lh : lh[i] \in Block
  BY <1>h
<1>n. None \notin Data \cup {Torn}
  BY LogAssumption DEF LogAssumption
<1>b. \A b \in Block : BufData(b) # None /\ (cache[b] # None => BufData(b) = cache[b])
  BY <1>t, <1>n DEF BufData
<1>i. \A i, j \in DOMAIN lh : lh[i] = lh[j] => i = j
  BY DEF Header, IsInjective
<1>s. tail < Len(lh) => /\ tail + 1 \in DOMAIN lh /\ lh[tail + 1] \in Block
                        /\ logd[tail + 1] \in Data \cup {Torn} /\ tail + 1 \in Slots
  BY NextSlot
<1>u. \A q,
   r \in Proc : pc[q] \in CommitPc => (pc[r] \in CommitPc => r = q) /\ pc[r] \notin InOp
  BY DEF Control, At, Active
<1>v. boot' = "up" /\ Empty' /\ CleanOrLogged' /\ LogGood' /\ HomeGood' /\ ClearGood' => Phases'
  BY DEF Phases, Booting
<1>g. Running => Empty /\ CleanOrLogged /\ LogGood /\ HomeGood /\ ClearGood
  BY DEF Phases
<1>1. CASE commit(p)
  <2>0. /\ boot = "up" /\ boot' = "up" /\ panicked = "no"
        /\ tail' = 0
        /\ UNCHANGED <<home, logd, hdr, lh, committing, cache>>
    BY <1>1 DEF commit, Running, diskvars, cachevars
  <2>1. ~At(Writing) /\ ~At(Installing) /\ ~At({"clear"}) /\ ~At({"committed"})
    BY <1>u, <1>1 DEF commit, At, CommitPc, Writing, Installing
  <2>2. ~At(Installing)' /\ ~At({"clear"})' /\ (At({"committed"})' => Len(lh) = 0)
    BY <1>p, <1>u, <1>l, <1>1 DEF commit, Transaction, At, CommitPc, Writing, Installing
  <2>3. \A b \in Block : ~Dirty(b) /\ ~Dirty(b)'
    BY <1>p, <1>u, <1>1 DEF commit, Dirty, CommitPc, InOp
  <2>4. committing'
    <3>1. committing
      BY <1>1 DEF commit, Control, At, CommitPc
    <3> QED
      BY <2>0, <3>1
  <2>5. Len(lh) = 0 => lh = <<>>
    BY <1>h
  <2>E. Empty'
    BY <1>g, <2>0, <2>1, <2>2, <2>4, <2>5 DEF Running, Empty
  <2>C. CleanOrLogged'
    BY <1>g, <2>0, <2>3 DEF Running, CleanOrLogged, Clean
  <2>L. LogGood'
    BY <1>l, <2>0 DEF LogGood
  <2>H. HomeGood'
    BY <2>2 DEF HomeGood
  <2>K. ClearGood'
    BY <2>2 DEF ClearGood
  <2> QED
    BY <1>v, <2>0, <2>E, <2>C, <2>L, <2>H, <2>K
<1>2. CASE write_log(p)
  <2>0. /\ boot = "up" /\ boot' = "up" /\ panicked = "no"
        /\ UNCHANGED <<home, hdr, lh, tail, committing>>
    BY <1>2 DEF write_log, Running, logvars
  <2>1. At(Writing) /\ ~At(Installing) /\ ~At({"clear"}) /\ ~At({"committed"})
    BY <1>u, <1>2 DEF write_log, At, CommitPc, Writing, Installing
  <2>2. At(Writing)' /\ ~At(Installing)' /\ ~At({"clear"})' /\ ~At({"committed"})'
    BY <1>p, <1>u, <1>2 DEF write_log, At, CommitPc, Writing, Installing
  <2>3. \A b \in Block : ~Dirty(b) /\ ~Dirty(b)'
    BY <1>p, <1>u, <1>2 DEF write_log, Dirty, CommitPc, InOp
  <2>4. committing'
    <3>1. committing
      BY <1>2 DEF write_log, Control, At, CommitPc
    <3> QED
      BY <2>0, <3>1
  <2>5. tail + 1 \in DOMAIN lh /\ lh[tail + 1] \in Block
    BY <1>s, <1>2 DEF write_log
  <2>6. cache[lh[tail + 1]] # None
    BY <2>0, <2>1, <2>5 DEF Header, Installed
  <2>7. cache' = cache
    BY <1>t, <1>b, <2>5, <2>6, <1>2 DEF write_log
  <2>8. \A i \in DOMAIN lh : i <= tail => logd'[i] = logd[i]
    BY <1>t, <1>l, <1>2 DEF write_log
  <2>E. Empty'
    BY <1>g, <2>0, <2>1, <2>2, <2>4 DEF Running, Empty
  <2>C. CleanOrLogged'
    BY <1>g, <2>0, <2>3, <2>7 DEF Running, CleanOrLogged, Clean
  <2>L. LogGood'
    BY <1>g, <2>0, <2>1, <2>7, <2>8 DEF Running, LogGood
  <2>H. HomeGood'
    BY <2>2 DEF HomeGood
  <2>K. ClearGood'
    BY <2>2 DEF ClearGood
  <2> QED
    BY <1>v, <2>0, <2>E, <2>C, <2>L, <2>H, <2>K
<1>3. CASE write_log_io(p)
  <2>0. /\ boot = "up" /\ boot' = "up" /\ panicked = "no"
        /\ UNCHANGED <<home, hdr, lh, committing, cache>>
    BY <1>3 DEF write_log_io, Running
  <2>1. At(Writing) /\ ~At(Installing) /\ ~At({"clear"}) /\ ~At({"committed"})
    BY <1>u, <1>3 DEF write_log_io, At, CommitPc, Writing, Installing
  <2>2. At(Writing)' /\ ~At(Installing)' /\ ~At({"clear"})' /\ ~At({"committed"})'
    BY <1>p, <1>u, <1>3 DEF write_log_io, At, CommitPc, Writing, Installing
  <2>3. \A b \in Block : ~Dirty(b) /\ ~Dirty(b)'
    BY <1>p, <1>u, <1>3 DEF write_log_io, Dirty, CommitPc, InOp
  <2>4. committing'
    <3>1. committing
      BY <1>3 DEF write_log_io, Control, At, CommitPc
    <3> QED
      BY <2>0, <3>1
  <2>5. tail < Len(lh)
    BY <1>3 DEF write_log_io, Locks, Transfer
  <2>6. logd' = [logd EXCEPT ![tail + 1] = cache[lh[tail + 1]]] /\ tail' = tail + 1
    BY <1>3 DEF write_log_io
  <2>7. \A i \in DOMAIN lh : i <= tail + 1 => logd'[i] = cache[lh[i]]
    <3>1. \A i \in DOMAIN lh : i <= tail => logd[i] = cache[lh[i]]
      BY <1>g, <2>0, <2>1 DEF Running, LogGood
    <3> QED
      BY <1>l, <1>s, <1>t, <2>5, <2>6, <3>1
  <2>E. Empty'
    BY <1>g, <2>0, <2>1, <2>2, <2>4 DEF Running, Empty
  <2>C. CleanOrLogged'
    BY <1>g, <2>0, <2>3 DEF Running, CleanOrLogged, Clean
  <2>L. LogGood'
    BY <1>l, <2>0, <2>5, <2>6, <2>7 DEF LogGood
  <2>H. HomeGood'
    BY <2>2 DEF HomeGood
  <2>K. ClearGood'
    BY <2>2 DEF ClearGood
  <2> QED
    BY <1>v, <2>0, <2>E, <2>C, <2>L, <2>H, <2>K
<1>4. CASE write_head(p)
  <2>0. /\ boot = "up" /\ boot' = "up" /\ panicked = "no"
        /\ hdr' = lh /\ tail' = 0
        /\ UNCHANGED <<home, logd, lh, committing, cache>>
    BY <1>4 DEF write_head, Running, cachevars
  <2>1. At(Writing) /\ ~At(Installing) /\ ~At({"clear"}) /\ ~At({"committed"})
    BY <1>u, <1>4 DEF write_head, At, CommitPc, Writing, Installing
  <2>2. ~At(Writing)' /\ At(Installing)' /\ ~At({"clear"})' /\ ~At({"committed"})'
    BY <1>p, <1>u, <1>4 DEF write_head, At, CommitPc, Writing, Installing
  <2>3. \A b \in Block : ~Dirty(b) /\ ~Dirty(b)'
    BY <1>p, <1>u, <1>4 DEF write_head, Dirty, CommitPc, InOp
  <2>4. committing'
    <3>1. committing
      BY <1>4 DEF write_head, Control, At, CommitPc
    <3> QED
      BY <2>0, <3>1
  <2>5. \A i \in DOMAIN lh : cache[lh[i]] = logd[i] /\ ~(i <= 0)
    <3>1. tail = Len(lh)
      BY <1>4 DEF write_head, LogWritten
    <3> QED
      BY <1>g, <1>l, <2>0, <2>1, <3>1 DEF Running, LogGood
  <2>E. Empty'
    BY <1>g, <2>0, <2>1, <2>2, <2>4 DEF Running, Empty
  <2>C. CleanOrLogged'
    BY <1>g, <2>0, <2>3 DEF Running, CleanOrLogged, Clean
  <2>L. LogGood'
    BY <2>2 DEF LogGood
  <2>H. HomeGood'
    <3>1. Home(lh, tail)'
      BY <2>0, <2>5 DEF Home
    <3> QED
      BY <1>l, <2>0, <2>5, <3>1 DEF HomeGood
  <2>K. ClearGood'
    BY <2>2 DEF ClearGood
  <2> QED
    BY <1>v, <2>0, <2>E, <2>C, <2>L, <2>H, <2>K
<1>5. CASE install_trans(p)
  <2>0. /\ boot = "up" /\ boot' = "up" /\ panicked = "no"
        /\ UNCHANGED <<logd, hdr, lh, tail, committing>>
    BY <1>5 DEF install_trans, Running, logvars
  <2>1. ~At(Writing) /\ At(Installing) /\ ~At({"clear"}) /\ ~At({"committed"})
    BY <1>u, <1>5 DEF install_trans, At, CommitPc, Writing, Installing
  <2>2. ~At(Writing)' /\ At(Installing)' /\ ~At({"clear"})' /\ ~At({"committed"})'
    BY <1>p, <1>u, <1>5 DEF install_trans, At, CommitPc, Writing, Installing
  <2>3. \A b \in Block : ~Dirty(b) /\ ~Dirty(b)'
    BY <1>p, <1>u, <1>5 DEF install_trans, Dirty, CommitPc, InOp
  <2>4. committing'
    <3>1. committing
      BY <1>5 DEF install_trans, Control, At, CommitPc
    <3> QED
      BY <2>0, <3>1
  <2> DEFINE n == tail + 1
  <2>5. n \in DOMAIN lh /\ lh[n] \in Block /\ n > tail
    BY <1>l, <1>s, <1>5 DEF install_trans
  <2>6. cache' = [cache EXCEPT ![lh[n]] = logd[n]] /\ home' = [home EXCEPT ![lh[n]] = Torn]
    BY <1>5 DEF install_trans
  <2> HIDE DEF n
  <2>7. \A b \in Block : b # lh[n] => cache'[b] = cache[b] /\ home'[b] = home[b]
    BY <1>t, <2>6
  <2>8. \A i \in DOMAIN lh : i # n => lh[i] # lh[n] /\ lh[i] \in Block
    BY <1>i, <1>l, <2>5
  <2>9. cache'[lh[n]] = logd[n] /\ lh[n] \in Range(lh)
    BY <1>t, <2>5, <2>6 DEF Range
  <2>E. Empty'
    BY <1>g, <2>0, <2>1, <2>2, <2>4 DEF Running, Empty
  <2>C. CleanOrLogged'
    BY <1>g, <2>0, <2>3, <2>7, <2>9 DEF Running, CleanOrLogged, Clean
  <2>L. LogGood'
    BY <2>2 DEF LogGood
  <2>H. HomeGood'
    <3>1. hdr = lh /\ tail <= Len(lh) /\ Home(lh, tail) /\ \A i \in DOMAIN lh :
             IF i <= tail THEN Clean(lh[i]) ELSE cache[lh[i]] = logd[i]
      BY <1>g, <2>0, <2>1 DEF Running, HomeGood
    <3>2. Home(lh, tail)'
      BY <1>l, <2>0, <2>5, <2>7, <2>8, <3>1 DEF Home
    <3>3. ASSUME NEW i \in DOMAIN lh
          PROVE  IF i <= tail THEN Clean(lh[i])' ELSE cache'[lh[i]] = logd'[i]
      <4>1. CASE i = n
        BY <1>l, <2>0, <2>5, <2>9, <4>1
      <4>2. CASE i # n
        BY <2>0, <2>7, <2>8, <3>1, <4>2 DEF Clean
      <4> QED
        BY <4>1, <4>2
    <3> QED
      BY <2>0, <3>1, <3>2, <3>3 DEF HomeGood
  <2>K. ClearGood'
    BY <2>2 DEF ClearGood
  <2> QED
    BY <1>v, <2>0, <2>E, <2>C, <2>L, <2>H, <2>K
<1>6. CASE install_io(p)
  <2>0. /\ boot = "up" /\ boot' = "up" /\ panicked = "no"
        /\ UNCHANGED <<logd, hdr, lh, committing, cache>>
    BY <1>6 DEF install_io, Running
  <2>1. ~At(Writing) /\ At(Installing) /\ ~At({"clear"}) /\ ~At({"committed"})
    BY <1>u, <1>6 DEF install_io, At, CommitPc, Writing, Installing
  <2>2. ~At(Writing)' /\ At(Installing)' /\ ~At({"clear"})' /\ ~At({"committed"})'
    BY <1>p, <1>u, <1>6 DEF install_io, At, CommitPc, Writing, Installing
  <2>3. \A b \in Block : ~Dirty(b) /\ ~Dirty(b)'
    BY <1>p, <1>u, <1>6 DEF install_io, Dirty, CommitPc, InOp
  <2>4. committing'
    <3>1. committing
      BY <1>6 DEF install_io, Control, At, CommitPc
    <3> QED
      BY <2>0, <3>1
  <2> DEFINE n == tail + 1
  <2>5. tail < Len(lh)
    BY <1>6 DEF install_io, Locks, Transfer
  <2>6. n \in DOMAIN lh /\ lh[n] \in Block /\ n > tail /\ n <= Len(lh)
    BY <1>l, <1>s, <2>5
  <2>7. home' = [home EXCEPT ![lh[n]] = cache[lh[n]]] /\ tail' = n
    BY <1>6 DEF install_io
  <2>8. \A i \in DOMAIN lh : i <= n <=> i <= tail \/ i = n
    BY <1>l
  <2> HIDE DEF n
  <2>9. \A b \in Block : b # lh[n] => home'[b] = home[b]
    BY <1>t, <2>7
  <2>10. \A i \in DOMAIN lh : i # n => lh[i] # lh[n] /\ lh[i] \in Block
    BY <1>i, <1>l, <2>6
  <2>11. home'[lh[n]] = cache[lh[n]] /\ lh[n] \in Range(lh)
    BY <1>t, <2>6, <2>7 DEF Range
  <2>E. Empty'
    BY <1>g, <2>0, <2>1, <2>2, <2>4 DEF Running, Empty
  <2>C. CleanOrLogged'
    BY <1>g, <2>0, <2>3, <2>9, <2>11 DEF Running, CleanOrLogged, Clean
  <2>L. LogGood'
    BY <2>2 DEF LogGood
  <2>H. HomeGood'
    <3>1. hdr = lh /\ tail <= Len(lh) /\ Home(lh, tail) /\ \A i \in DOMAIN lh :
             IF i <= tail THEN Clean(lh[i]) ELSE cache[lh[i]] = logd[i]
      BY <1>g, <2>0, <2>1 DEF Running, HomeGood
    <3>2. home'[lh[n]] = logd[n]
      <4>1. ~(n <= tail)
        BY <1>l, <2>6
      <4>2. cache[lh[n]] = logd[n]
        BY <2>6, <3>1, <4>1
      <4> QED
        BY <2>11, <4>2
    <3>3. Home(lh, tail)'
      BY <2>0, <2>7, <2>8, <2>9, <2>10, <3>1, <3>2 DEF Home
    <3>4. ASSUME NEW i \in DOMAIN lh
          PROVE  IF i <= n THEN Clean(lh[i])' ELSE cache'[lh[i]] = logd'[i]
      <4>1. CASE i = n
        BY <2>0, <2>8, <2>11, <4>1 DEF Clean
      <4>2. CASE i # n
        BY <2>0, <2>8, <2>9, <2>10, <3>1, <4>2 DEF Clean
      <4> QED
        BY <4>1, <4>2
    <3> QED
      BY <2>0, <2>6, <2>7, <3>1, <3>3, <3>4 DEF HomeGood
  <2>K. ClearGood'
    BY <2>2 DEF ClearGood
  <2> QED
    BY <1>v, <2>0, <2>E, <2>C, <2>L, <2>H, <2>K
<1>7. CASE reset_head(p)
  <2>0. /\ boot = "up" /\ boot' = "up" /\ panicked = "no"
        /\ lh' = <<>> /\ tail = Len(lh)
        /\ UNCHANGED <<home, logd, hdr, committing, cache>>
    BY <1>7 DEF reset_head, Running, diskvars, cachevars
  <2>1. ~At(Writing) /\ At(Installing) /\ ~At({"clear"}) /\ ~At({"committed"})
    BY <1>u, <1>7 DEF reset_head, At, CommitPc, Writing, Installing
  <2>2. ~At(Writing)' /\ ~At(Installing)' /\ At({"clear"})' /\ ~At({"committed"})'
    BY <1>p, <1>u, <1>7 DEF reset_head, At, CommitPc, Writing, Installing
  <2>3. \A b \in Block : ~Dirty(b) /\ ~Dirty(b)'
    BY <1>p, <1>u, <1>7 DEF reset_head, Dirty, CommitPc, InOp
  <2>4. committing'
    <3>1. committing
      BY <1>7 DEF reset_head, Control, At, CommitPc
    <3> QED
      BY <2>0, <3>1
  <2>5. hdr = lh /\ Home(lh, tail) /\ \A i \in DOMAIN lh : i <= tail => Clean(lh[i])
    BY <1>g, <2>0, <2>1 DEF Running, HomeGood
  <2>6. \A i \in DOMAIN lh : Clean(lh[i])
    BY <1>l, <2>0, <2>5
  <2>7. \A b \in Block : Clean(b)
    <3>1. \A b \in Block : b \in Range(lh) \/ Clean(b)
      BY <1>g, <2>0, <2>3 DEF Running, CleanOrLogged
    <3> QED
      BY <2>6, <3>1 DEF Range
  <2>E. Empty'
    BY <1>g, <2>0, <2>1, <2>2, <2>4 DEF Running, Empty
  <2>C. CleanOrLogged'
    BY <2>0, <2>7 DEF CleanOrLogged, Clean
  <2>L. LogGood'
    BY <2>2 DEF LogGood
  <2>H. HomeGood'
    BY <2>2 DEF HomeGood
  <2>K. ClearGood'
    BY <2>0, <2>5 DEF ClearGood, Home
  <2> QED
    BY <1>v, <2>0, <2>E, <2>C, <2>L, <2>H, <2>K
<1>8. CASE clear_head(p)
  <2>0. /\ boot = "up" /\ boot' = "up" /\ panicked = "no"
        /\ hdr' = lh
        /\ UNCHANGED <<home, logd, lh, committing, cache>>
    BY <1>8 DEF clear_head, Running, cachevars, logvars
  <2>1. ~At(Writing) /\ ~At(Installing) /\ At({"clear"}) /\ ~At({"committed"})
    BY <1>u, <1>8 DEF clear_head, At, CommitPc, Writing, Installing
  <2>2. ~At(Writing)' /\ ~At(Installing)' /\ ~At({"clear"})' /\ At({"committed"})'
    BY <1>p, <1>u, <1>8 DEF clear_head, At, CommitPc, Writing, Installing
  <2>3. \A b \in Block : ~Dirty(b) /\ ~Dirty(b)'
    BY <1>p, <1>u, <1>8 DEF clear_head, Dirty, CommitPc, InOp
  <2>4. committing'
    <3>1. committing
      BY <1>8 DEF clear_head, Control, At, CommitPc
    <3> QED
      BY <2>0, <3>1
  <2>E. Empty'
    BY <1>g, <2>0, <2>1, <2>2, <2>4 DEF Running, Empty
  <2>C. CleanOrLogged'
    BY <1>g, <2>0, <2>3 DEF Running, CleanOrLogged, Clean
  <2>L. LogGood'
    BY <2>2 DEF LogGood
  <2>H. HomeGood'
    BY <2>2 DEF HomeGood
  <2>K. ClearGood'
    BY <2>2 DEF ClearGood
  <2> QED
    BY <1>v, <2>0, <2>E, <2>C, <2>L, <2>H, <2>K
<1>9. CASE end_commit(p)
  <2>0. /\ boot = "up" /\ boot' = "up" /\ panicked = "no"
        /\ UNCHANGED <<home, logd, hdr, lh, cache>>
    BY <1>9 DEF end_commit, Running, cachevars, diskvars
  <2>1. ~At(Writing) /\ ~At(Installing) /\ ~At({"clear"}) /\ At({"committed"})
    BY <1>u, <1>9 DEF end_commit, At, CommitPc, Writing, Installing
  <2>2. ~At(Writing)' /\ ~At(Installing)' /\ ~At({"clear"})' /\ ~At({"committed"})'
    BY <1>p, <1>u, <1>9 DEF end_commit, Wakeup, At, CommitPc, Writing, Installing
  <2>3. \A b \in Block : ~Dirty(b) /\ ~Dirty(b)'
    BY <1>p, <1>u, <1>9 DEF end_commit, Wakeup, Dirty, CommitPc, InOp
  <2>E. Empty'
    BY <1>g, <2>0, <2>1, <2>2 DEF Running, Empty
  <2>C. CleanOrLogged'
    BY <1>g, <2>0, <2>3 DEF Running, CleanOrLogged, Clean
  <2>L. LogGood'
    BY <2>2 DEF LogGood
  <2>H. HomeGood'
    BY <2>2 DEF HomeGood
  <2>K. ClearGood'
    BY <2>2 DEF ClearGood
  <2> QED
    BY <1>v, <2>0, <2>E, <2>C, <2>L, <2>H, <2>K
<1> QED
  BY <1>1, <1>2, <1>3, <1>4, <1>5, <1>6, <1>7, <1>8, <1>9 DEF Committer

\* The recovery, a crash, the recycling of a buffer.
LEMMA BootPhases ==
  ASSUME TypeOK, Control, Locks, Header, Phases,
     Recovery \/ Crash \/ (\E b \in Block : Evict(b)) \/ UNCHANGED vars
  PROVE  Phases'
<1> USE DEF Goto
<1>t. /\ cache \in [Block -> Data \cup {Torn, None}]
      /\ home \in [Block -> Data \cup {Torn}] /\ logd \in [Slots -> Data \cup {Torn}]
  BY Zenon DEF TypeOK
<1>h. lh \in Seq(Block) /\ hdr \in Seq(Block) /\ tail \in Nat
  BY Zenon DEF TypeOK
<1>l. /\ Len(lh) \in Nat /\ DOMAIN lh = 1 .. Len(lh) /\ tail \in Nat
      /\ \A i \in DOMAIN lh : lh[i] \in Block
  BY <1>h
<1>i. \A i, j \in DOMAIN lh : lh[i] = lh[j] => i = j
  BY DEF Header, IsInjective
<1>s. tail < Len(lh) => /\ tail + 1 \in DOMAIN lh /\ lh[tail + 1] \in Block
                        /\ logd[tail + 1] \in Data \cup {Torn} /\ tail + 1 \in Slots
  BY NextSlot
<1>u. \A q,
   r \in Proc : pc[q] \in CommitPc => (pc[r] \in CommitPc => r = q) /\ pc[r] \notin InOp
  BY DEF Control, At, Active
<1>m. Booting
  BY DEF Phases
<1>v. boot' = "up" /\ Empty' /\ CleanOrLogged' /\ LogGood' /\ HomeGood' /\ ClearGood' => Phases'
  BY DEF Phases, Booting
<1>g. Running => Empty /\ CleanOrLogged /\ LogGood /\ HomeGood /\ ClearGood
  BY DEF Phases
<1>1. ASSUME NEW b \in Block, Evict(b) PROVE Phases'
  <2>1. /\ cache' = [cache EXCEPT ![b] = None] /\ pin[b] = 0 /\ panicked = "no"
        /\ ~(boot = "install_io" /\ b = lh[tail + 1])
        /\ UNCHANGED <<home, logd, hdr, lh, tail, committing, pc, cur, boot, panicked>>
    BY <1>1 DEF Evict, diskvars, logvars, procvars
  <2>2. \A c \in Block : (Clean(c) => Clean(c)') /\ (c # b => cache'[c] = cache[c]) /\ cache'[b] = None
    BY <1>t, <2>1 DEF Clean
  <2>3. Booting'
    <3>1. boot = "read_head" => \A c \in Block : cache'[c] = None
      BY <1>m, <2>2 DEF Booting
    <3>2. \A h, k : Home(h, k)' <=> Home(h, k)
      BY <2>1 DEF Home
    <3>3. boot = "install_io" => tail < Len(lh) /\ cache'[lh[tail + 1]] = logd[tail + 1]
      <4>1. boot = "install_io" => tail < Len(lh) /\ cache[lh[tail + 1]] = logd[tail + 1]
        BY <1>m DEF Booting
      <4>2. tail < Len(lh) => lh[tail + 1] \in Block
        BY <1>l, <1>s
      <4> QED
        BY <2>1, <2>2, <4>1, <4>2
    <3>4. boot # "up" => \A c \in Block : Clean(c)' \/ (boot = "install_io" /\ c = lh[tail + 1])
      BY <1>m, <2>2 DEF Booting
    <3> QED
      BY <1>m, <2>1, <3>1, <3>2, <3>3, <3>4 DEF Booting
  <2>4. UNCHANGED <<Active, At(Writing), At(Installing), At({"clear"}), At({"committed"})>>
    BY <2>1 DEF At, Active
  <2> SUFFICES ASSUME Running PROVE (Empty /\ CleanOrLogged /\ LogGood /\ HomeGood /\ ClearGood)'
    BY <2>1, <2>3 DEF Phases, Running
  <2>5. \A i \in DOMAIN lh : Installed(i) \/ lh[i] # b
    <3>1. pin[b] = IF \E i \in DOMAIN lh : lh[i] = b /\ ~Installed(i) THEN 1 ELSE 0
      BY DEF Running, Header
    <3>2. pin[b] # 1
      BY <2>1
    <3>3. ~\E i \in DOMAIN lh : lh[i] = b /\ ~Installed(i)
      BY <3>1, <3>2
    <3> QED
      BY <3>3
  <2>6. At(Writing) => ~At(Installing)
    BY <1>u DEF At, Writing, Installing, CommitPc
  <2>E. Empty' /\ ClearGood'
    BY <1>g, <2>1, <2>4 DEF Empty, ClearGood, Home
  <2>C. CleanOrLogged'
    BY <1>g, <2>1, <2>2 DEF CleanOrLogged, Dirty
  <2>L. LogGood'
    BY <1>g, <1>l, <2>1, <2>2, <2>4, <2>5, <2>6 DEF LogGood, Installed
  <2>H. HomeGood'
    <3> SUFFICES ASSUME At(Installing) PROVE HomeGood'
      BY <2>4 DEF HomeGood
    <3>1. hdr = lh /\ tail <= Len(lh) /\ Home(lh, tail) /\ \A i \in DOMAIN lh :
             IF i <= tail THEN Clean(lh[i]) ELSE cache[lh[i]] = logd[i]
      BY <1>g DEF HomeGood
    <3>2. Home(lh, tail)'
      BY <2>1, <3>1 DEF Home
    <3>3. \A i \in DOMAIN lh : IF i <= tail THEN Clean(lh[i])' ELSE cache'[lh[i]] = logd[i]
      BY <1>l, <2>1, <2>2, <2>5, <3>1 DEF Installed, Clean
    <3> QED
      BY <2>1, <3>1, <3>2, <3>3 DEF HomeGood, Clean
  <2> QED
    BY <2>E, <2>C, <2>L, <2>H
<1>2. CASE read_head
  <2>1. /\ lh' = hdr /\ tail' = 0 /\ boot = "read_head" /\ boot' = "install"
        /\ UNCHANGED <<home, logd, hdr, cache>>
    BY <1>2 DEF read_head, diskvars, cachevars
  <2>2. Len(hdr) \in Nat /\ \A i \in DOMAIN hdr : ~(i <= 0)
    BY <1>h
  <2>3. Home(lh, tail)'
    BY <2>1, <2>2 DEF Home
  <2>4. \A b \in Block : Clean(b)'
    BY <1>m, <2>1 DEF Booting, Clean
  <2>5. lh' = hdr' /\ tail' <= Len(lh')
    BY <2>1, <2>2
  <2>6. Booting'
    BY <2>1, <2>3, <2>4, <2>5 DEF Booting
  <2> QED
    BY <2>1, <2>6 DEF Phases, Running
<1>3. CASE recover_install
  <2> DEFINE n == tail + 1
  <2>1. n \in DOMAIN lh /\ lh[n] \in Block /\ n > tail
    BY <1>l, <1>s, <1>3 DEF recover_install
  <2>2. /\ cache' = [cache EXCEPT ![lh[n]] = logd[n]] /\ home' = [home EXCEPT ![lh[n]] = Torn]
        /\ boot = "install" /\ boot' = "install_io" /\ tail < Len(lh)
        /\ UNCHANGED <<logd, hdr, lh, tail>>
    BY <1>3 DEF recover_install, logvars
  <2>3. \A b \in Block : b # lh[n] => cache'[b] = cache[b] /\ home'[b] = home[b]
    BY <1>t, <2>2
  <2>4. \A i \in DOMAIN lh : i <= tail => lh[i] # lh[n] /\ lh[i] \in Block
    BY <1>i, <1>l, <2>1
  <2>5. cache'[lh[n]] = logd[n]
    BY <1>t, <2>1, <2>2
  <2>6. lh = hdr /\ tail <= Len(lh) /\ Home(lh, tail) /\ \A b \in Block : Clean(b)
    BY <1>m, <2>2 DEF Booting
  <2>7. Home(lh, tail)'
    BY <2>2, <2>3, <2>4, <2>6 DEF Home
  <2>8. \A b \in Block : b # lh[n] => Clean(b)'
    BY <2>3, <2>6 DEF Clean
  <2> QED
    BY <2>2, <2>5, <2>6, <2>7, <2>8 DEF Phases, Booting, Running
<1>4. CASE recover_install_io
  <2> DEFINE n == tail + 1
  <2>0. /\ boot = "install_io" /\ boot' = "install" /\ UNCHANGED <<logd, hdr, lh, cache>>
        /\ home' = [home EXCEPT ![lh[n]] = cache[lh[n]]] /\ tail' = n
    BY <1>4 DEF recover_install_io, cachevars
  <2>1. /\ tail < Len(lh) /\ cache[lh[n]] = logd[n] /\ lh = hdr /\ Home(lh, tail)
        /\ \A b \in Block : Clean(b) \/ b = lh[n]
    BY <1>m, <2>0 DEF Booting
  <2>2. n \in DOMAIN lh /\ lh[n] \in Block /\ n <= Len(lh)
    <3>1. n \in DOMAIN lh /\ lh[n] \in Block
      BY <1>s, <2>1
    <3> QED
      BY <1>l, <3>1
  <2>3. \A i \in DOMAIN lh : i <= n <=> i <= tail \/ i = n
    BY <1>l
  <2> HIDE DEF n
  <2>4. \A b \in Block : b # lh[n] => home'[b] = home[b]
    BY <1>t, <2>0
  <2>5. \A i \in DOMAIN lh : i # n => lh[i] # lh[n] /\ lh[i] \in Block
    BY <1>i, <1>l, <2>2
  <2>6. home'[lh[n]] = cache[lh[n]]
    BY <1>t, <2>0, <2>2
  <2>7. Home(lh, tail)'
    BY <2>0, <2>1, <2>3, <2>4, <2>5, <2>6 DEF Home
  <2>8. \A b \in Block : Clean(b)'
    BY <2>0, <2>1, <2>4, <2>6 DEF Clean
  <2> QED
    BY <2>0, <2>1, <2>2, <2>7, <2>8 DEF Phases, Booting, Running
<1>5. CASE recover_reset
  <2>1. /\ boot = "install" /\ boot' = "clear" /\ tail = Len(lh) /\ lh' = <<>>
        /\ UNCHANGED <<home, logd, hdr, cache>>
    BY <1>5 DEF recover_reset, diskvars, cachevars
  <2>2. lh = hdr /\ Home(lh, tail) /\ \A b \in Block : Clean(b)
    BY <1>m, <2>1 DEF Booting
  <2>3. Home(hdr, Len(hdr))' /\ \A b \in Block : Clean(b)'
    BY <2>1, <2>2 DEF Home, Clean
  <2> QED
    BY <2>1, <2>3 DEF Phases, Booting, Running
<1>6. CASE recover_clear
  <2>0. boot = "clear" /\ boot' = "up" /\ hdr' = lh /\ UNCHANGED <<home, cache, lh>>
    BY <1>6 DEF recover_clear, cachevars, logvars
  <2>1. lh = <<>> /\ \A b \in Block : Clean(b)
    BY <1>m, <2>0 DEF Booting
  <2>2. ~At(Writing)' /\ ~At(Installing)' /\ ~At({"clear"})' /\ ~At({"committed"})'
    BY <1>6 DEF recover_clear, At, Writing, Installing
  <2>E. Empty'
    BY <2>0, <2>1, <2>2 DEF Empty
  <2>C. CleanOrLogged'
    BY <2>0, <2>1 DEF CleanOrLogged, Clean
  <2>L. LogGood'
    BY <2>2 DEF LogGood
  <2>H. HomeGood'
    BY <2>2 DEF HomeGood
  <2>K. ClearGood'
    BY <2>2 DEF ClearGood
  <2> QED
    BY <1>v, <2>0, <2>E, <2>C, <2>L, <2>H, <2>K
<1>7. CASE Crash
  <2>1. boot' = "read_head" /\ \A b \in Block : cache'[b] = None
    BY <1>7 DEF Crash
  <2> QED
    BY <2>1 DEF Phases, Booting, Running, Clean
<1>8. CASE UNCHANGED vars
  <2>1. UNCHANGED <<home, logd, hdr, cache, lh, tail, committing, pc, cur, boot, panicked>>
    BY <1>8 DEF vars, diskvars, cachevars, logvars, procvars
  <2>2. Booting'
    BY <1>m, <2>1 DEF Booting, Home, Clean
  <2>3. UNCHANGED <<Active, At(Writing), At(Installing), At({"clear"}), At({"committed"})>>
    BY <2>1 DEF At, Active
  <2>4. Running => Empty' /\ CleanOrLogged' /\ ClearGood'
    BY <1>g, <2>1, <2>3 DEF Empty, CleanOrLogged, ClearGood, Clean, Dirty, Home
  <2>5. Running => LogGood' /\ HomeGood'
    BY <1>g, <2>1, <2>3 DEF LogGood, HomeGood, Clean, Home
  <2> QED
    BY <2>1, <2>2, <2>4, <2>5 DEF Phases, Running
<1> QED
  BY <1>1, <1>2, <1>3, <1>4, <1>5, <1>6, <1>7, <1>8 DEF Recovery

LEMMA PhasesStep == TypeOK /\ Control /\ Locks /\ Header /\ Phases /\ [Next]_vars => Phases'
<1> SUFFICES ASSUME TypeOK, Control, Locks, Header, Phases, [Next]_vars PROVE Phases'
  OBVIOUS
<1>1. \/ \E p \in Proc : OpStep(p) \/ Committer(p)
      \/ Recovery \/ Crash \/ (\E b \in Block : Evict(b)) \/ UNCHANGED vars
  BY DEF Next, OpStep
<1>2. ASSUME NEW p \in Proc, OpStep(p) PROVE Phases'
  BY <1>2, OpPhases
<1>3. ASSUME NEW p \in Proc, Committer(p) PROVE Phases'
  BY <1>3, CommitPhases
<1>4. CASE Recovery \/ Crash \/ (\E b \in Block : Evict(b)) \/ UNCHANGED vars
  BY <1>4, BootPhases
<1> QED
  BY <1>1, <1>2, <1>3, <1>4
=============================================================================
