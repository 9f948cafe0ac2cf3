----------------------------- MODULE LogProofs -----------------------------
(***************************************************************************)
(* What holds of Log for every value of its constants: its safety          *)
(* invariants, and that it implements AtomicDisk.  A step of commit() or   *)
(* of the recovery that moves data between the cache, the log and the home *)
(* blocks changes neither what readers see (Contents) nor what a crash     *)
(* would leave (Recovered), with one exception: write_head(), which makes  *)
(* the second equal to the first.                                          *)
(***************************************************************************)
EXTENDS LogPhases

(***************************************************************************)
(* The theorems.                                                           *)
(***************************************************************************)
LEMMA IInvInit == Init => IInv
<1> SUFFICES ASSUME Init PROVE IInv
  OBVIOUS
<1>n. /\ LogBlocks \in Nat \ {0} /\ Zero \in Data
  BY LogAssumption DEF LogAssumption
<1>1. TypeOK
  <2>1. /\ home \in [Block -> Data \cup {Torn}] /\ logd \in [Slots -> Data \cup {Torn}]
        /\ cache \in [Block -> Data \cup {Torn, None}] /\ holder \in [Block -> Proc \cup {None}]
        /\ pin \in [Block -> Nat]
    BY <1>n DEF Init
  <2>2. lh \in Seq(Block) /\ hdr \in Seq(Block)
    BY DEF Init
  <2>3. pc \in [Proc -> PC] /\ cur \in [Proc -> Block \cup {None}] /\ used \in [Proc -> SUBSET Block]
    BY DEF Init, PC
  <2> QED
    BY <2>1, <2>2, <2>3, Zenon DEF Init, TypeOK, Boot
<1>2. Locks
  BY DEF Init, Locks, HoldsBuffer, Transfer
<1>3. Header
  BY <1>n DEF Init, Header, IsInjective
<1>4. Phases
  BY DEF Init, Phases, Booting, Running, Clean
<1> QED
  BY <1>1, <1>2, <1>3, <1>4, ControlInit DEF IInv

LEMMA IInvStep == IInv /\ [Next]_vars => IInv'
BY TypeStep, ControlStep, LocksStep, HeaderStep, PhasesStep DEF IInv

\* IInv is an invariant of the log.
THEOREM Invariant == Spec => []IInv
BY IInvInit, IInvStep, PTL DEF Spec

\* Type correctness: no buffer that commit() or the recovery copies from is empty, no pin
\* count and no count of outstanding calls goes below zero.
THEOREM TypeCorrect == Spec => []TypeOK
<1>1. IInv => TypeOK
  BY DEF IInv
<1> QED
  BY <1>1, Invariant, PTL

\* log.c:12-16: commits happen one at a time and only while no FS system call is active.
THEOREM CommitsAlone == Spec => []CommitAlone
<1>1. IInv => CommitAlone
  <2> SUFFICES ASSUME Control PROVE CommitAlone
    BY DEF IInv
  <2> DEFINE Committers == {p \in Proc : pc[p] \in CommitPc}
  <2>1. CASE committing
    <3>1. PICK p \in Proc : pc[p] \in CommitPc
      BY <2>1 DEF Control, At
    <3>2. Committers = {p}
      BY <3>1 DEF Control
    <3> QED
      BY <2>1, <3>2, FS_Singleton DEF Control, CommitAlone
  <2>2. CASE ~committing
    <3>1. Committers = {}
      BY <2>2 DEF Control, At
    <3> QED
      BY <2>2, <3>1, FS_EmptySet DEF Control, CommitAlone
  <2> QED
    BY <2>1, <2>2
<1> QED
  BY <1>1, Invariant, PTL

\* log_write() and install_trans() pin and unpin every block of a transaction exactly once.
THEOREM PinsMatch == Spec => []PinnedIffLogged
<1>1. IInv => PinnedIffLogged
  <2> SUFFICES ASSUME IInv, Running, NEW b \in Block
               PROVE  pin[b] = Cardinality({i \in DOMAIN lh : /\ lh[i] = b
                        /\ i > IF \E p \in Proc : pc[p] \in {"install", "install_io"}
                                 THEN tail ELSE 0})
    BY DEF PinnedIffLogged
  <2> DEFINE start == IF \E p \in Proc : pc[p] \in {"install", "install_io"} THEN tail ELSE 0
             I == {i \in DOMAIN lh : lh[i] = b /\ i > start}
  <2>1. lh \in Seq(Block) /\ tail \in Nat
    BY Zenon DEF IInv, TypeOK
  <2>2. \A i \in DOMAIN lh : i > start <=> ~Installed(i)
    BY <2>1 DEF Installed, At, Installing
  <2>3. pin[b] = IF \E i \in DOMAIN lh : lh[i] = b /\ ~Installed(i) THEN 1 ELSE 0
    BY DEF IInv, Header, Running
  <2> HIDE DEF start
  <2>4. CASE \E i \in DOMAIN lh : lh[i] = b /\ ~Installed(i)
    <3>1. PICK i \in DOMAIN lh : lh[i] = b /\ ~Installed(i)
      BY <2>4
    <3>2. I = {i}
      BY <2>2, <3>1 DEF IInv, Header, IsInjective
    <3>3. Cardinality(I) = 1
      BY <3>2, FS_Singleton, Zenon
    <3> QED
      BY <2>3, <2>4, <3>3 DEF start
  <2>5. CASE ~\E i \in DOMAIN lh : lh[i] = b /\ ~Installed(i)
    <3>1. I = {}
      BY <2>2, <2>5
    <3>2. Cardinality(I) = 0
      BY <3>1, FS_EmptySet
    <3> QED
      BY <2>3, <2>5, <3>2 DEF start
  <2> QED
    BY <2>4, <2>5
<1> QED
  BY <1>1, Invariant, PTL

\* Once the last outstanding end_op() has returned, a crash loses nothing.
THEOREM Durable == Spec => []IdleIsDurable
<1>1. IInv => IdleIsDurable
  <2> SUFFICES ASSUME IInv, Running, outstanding = 0, ~committing PROVE Contents = Recovered
    BY DEF IdleIsDurable
  <2>1. Active = {}
    BY ActiveFinite, FS_EmptySet, Zenon DEF IInv, Control
  <2>2. \A p \in Proc : pc[p] \notin CommitPc
    BY DEF IInv, Control, At
  <2>3. lh = <<>> /\ hdr = <<>>
    BY <2>1, <2>2 DEF IInv, Phases, Empty, At, Installing, CommitPc
  <2>4. \A b \in Block : Clean(b)
    BY <2>1, <2>3 DEF IInv, Phases, CleanOrLogged, Range, Dirty, Active, InOp
  <2>5. \A b \in Block : BufData(b) = home[b]
    BY <2>4 DEF Clean, BufData
  <2>6. Range(hdr) = {}
    BY <2>3 DEF Range
  <2> QED
    BY <2>5, <2>6 DEF Contents, Recovered
<1> QED
  BY <1>1, Invariant, PTL

(***************************************************************************)
(* The refinement.                                                         *)
(***************************************************************************)
\* The abstract memory: the buffer cache, or what recovery will make of the disk.
Mem == IF boot = "up" THEN Contents ELSE Recovered

\* A log block stands for its home block exactly when the header names it.
LEMMA RecoveredIs ==
  ASSUME IsInjective(hdr)
  PROVE  \A b \in Block : /\ b \notin Range(hdr) => Recovered[b] = home[b]
                          /\ \A i \in DOMAIN hdr : hdr[i] = b => Recovered[b] = logd[i]
<1> SUFFICES ASSUME NEW b \in Block
             PROVE  /\ b \notin Range(hdr) => Recovered[b] = home[b]
                    /\ \A i \in DOMAIN hdr : hdr[i] = b => Recovered[b] = logd[i]
  OBVIOUS
<1>1. b \notin Range(hdr) => Recovered[b] = home[b]
  BY DEF Recovered
<1>2. ASSUME NEW i \in DOMAIN hdr, hdr[i] = b PROVE Recovered[b] = logd[i]
  <2> DEFINE j == CHOOSE k \in DOMAIN hdr : hdr[k] = b
  <2>1. j \in DOMAIN hdr /\ hdr[j] = b
    BY <1>2
  <2>2. j = i
    BY <1>2, <2>1 DEF IsInjective
  <2>3. b \in Range(hdr)
    BY <1>2 DEF Range
  <2> QED
    BY <2>2, <2>3, Zenon DEF Recovered
<1> QED
  BY <1>1, <1>2

\* What the disk holds once the header's blocks are home, or while there are none.
LEMMA RecoveredHome ==
  ASSUME IsInjective(hdr), Home(hdr, Len(hdr)), hdr \in Seq(Block)
  PROVE  Recovered = [b \in Block |-> home[b]]
<1>1. ASSUME NEW b \in Block PROVE Recovered[b] = home[b]
  <2>1. CASE b \in Range(hdr)
    <3>1. PICK i \in DOMAIN hdr : hdr[i] = b
      BY <2>1 DEF Range
    <3>2. i <= Len(hdr)
      OBVIOUS
    <3> QED
      BY <3>1, <3>2, RecoveredIs DEF Home
  <2>2. CASE b \notin Range(hdr)
    BY <2>2, RecoveredIs
  <2> QED
    BY <2>1, <2>2
<1>2. Recovered = [b \in Block |-> Recovered[b]]
  BY DEF Recovered
<1> QED
  BY <1>1, <1>2

\* Home blocks that the header names may be anything.
LEMMA RecoveredFrame ==
  ASSUME UNCHANGED <<logd, hdr>>, \A b \in Block : b \notin Range(hdr) => home'[b] = home[b]
  PROVE  Recovered' = Recovered
<1>1. Range(hdr)' = Range(hdr)
  BY DEF Range
<1> QED
  BY <1>1 DEF Recovered

LEMMA RecoveredEmpty ==
  ASSUME hdr = <<>>
  PROVE  Recovered = [b \in Block |-> home[b]]
<1>1. Range(hdr) = {}
  BY DEF Range
<1> QED
  BY <1>1 DEF Recovered

LEMMA ContentsClean ==
  ASSUME \A b \in Block : Clean(b)
  PROVE  Contents = [b \in Block |-> home[b]]
BY DEF Clean, Contents, BufData

\* The steps that leave the abstract state alone.
Stutters == UNCHANGED <<Mem, Recovered, Active>>

LEMMA StutterIs == Stutters => UNCHANGED AD!advars
BY DEF Stutters, Mem, AD!advars

LEMMA StepRefines == IInv /\ [Next]_vars => [AD!Next]_(AD!advars)
<1> SUFFICES ASSUME IInv, [Next]_vars PROVE [AD!Next]_(AD!advars)
  OBVIOUS
<1> USE DEF Goto
<1>p. pc \in [Proc -> PC] /\ cur \in [Proc -> Block \cup {None}]
  BY Zenon DEF IInv, TypeOK
<1>t. /\ cache \in [Block -> Data \cup {Torn, None}]
      /\ home \in [Block -> Data \cup {Torn}] /\ logd \in [Slots -> Data \cup {Torn}]
  BY Zenon DEF IInv, TypeOK
<1>h. lh \in Seq(Block) /\ hdr \in Seq(Block) /\ tail \in Nat
  BY Zenon DEF IInv, TypeOK
<1>n. None \notin Data \cup {Torn}
  BY LogAssumption DEF LogAssumption
<1>j. IsInjective(lh) /\ IsInjective(hdr) /\ IsInjective(hdr)'
  BY IInvStep DEF IInv, Header
<1>u. \A p,
   q \in Proc : pc[p] \in CommitPc => (pc[q] \in CommitPc => q = p) /\ pc[q] \notin InOp
  BY DEF IInv, Control, At, Active
<1>g. Running => Empty /\ CleanOrLogged /\ LogGood /\ HomeGood /\ ClearGood
  BY DEF IInv, Phases
\* Steps that touch neither the disk nor the cache's contents.
<1>f. UNCHANGED <<home, logd, hdr>> => Recovered' = Recovered
  BY DEF Recovered, Range
<1>c. UNCHANGED <<home, cache>> => Contents' = Contents
  BY DEF Contents, BufData
<1>s. Stutters => [AD!Next]_(AD!advars)
  BY StutterIs
<1>1. ASSUME NEW p \in Proc, begin_op(p) PROVE [AD!Next]_(AD!advars)
  <2>1. UNCHANGED <<Mem, Recovered>>
    BY <1>c, <1>f, <1>1 DEF begin_op, diskvars, cachevars, Mem
  <2>2. CASE MustWait
    <3>1. Active' = Active
      BY <1>p, <2>2, <1>1 DEF begin_op, Active, InOp
    <3> QED
      BY <1>s, <2>1, <3>1 DEF Stutters
  <2>3. CASE ~MustWait
    <3>1. Active' = Active \cup {p} /\ p \notin Active
      BY <1>p, <2>3, <1>1 DEF begin_op, Active, InOp
    <3>2. AD!Begin(p)
      BY <2>1, <3>1 DEF AD!Begin, Mem
    <3> QED
      BY <3>2 DEF AD!Next
  <2> QED
    BY <2>2, <2>3
<1>2. ASSUME NEW p \in Proc, log_write(p) PROVE [AD!Next]_(AD!advars)
  <2>1. Active' = Active
    BY <1>p, <1>2 DEF log_write, Active, InOp
  <2> QED
    BY <1>c, <1>f, <1>s, <2>1, <1>2 DEF log_write, diskvars, Stutters, Mem
<1>3. ASSUME NEW p \in Proc, end_op(p) PROVE [AD!Next]_(AD!advars)
  <2>1. UNCHANGED <<Mem, Recovered>>
    BY <1>c, <1>f, <1>3, Zenon DEF end_op, diskvars, cachevars, Mem
  <2>2. Active' = Active \ {p} /\ p \in Active
    BY <1>p, <1>3, Zenon DEF end_op, Wakeup, Active, InOp
  <2>3. AD!End(p)
    BY <2>1, <2>2 DEF AD!End, Mem
  <2> QED
    BY <2>3 DEF AD!Next
<1>4. ASSUME NEW p \in Proc, commit(p) PROVE [AD!Next]_(AD!advars)
  <2>1. Active' = Active
    BY <1>p, <1>4 DEF commit, Active, InOp
  <2> QED
    BY <1>c, <1>f, <1>s, <2>1, <1>4 DEF commit, cachevars, diskvars, Stutters, Mem
<1>5. ASSUME NEW p \in Proc, write_log(p) PROVE [AD!Next]_(AD!advars)
  <2>b. lh[tail + 1] \in Block
    BY <1>5, NextSlot DEF write_log, IInv
  <2>1. Active' = Active
    BY <1>p, <1>5 DEF write_log, Active, InOp
  <2>2. \A c \in Block : cache'[c] = IF c = lh[tail + 1] THEN BufData(c) ELSE cache[c]
    BY <1>t, <1>5 DEF write_log
  <2>3. Contents' = Contents
    BY <1>t, <1>n, <2>2, <1>5 DEF write_log, diskvars, Contents, BufData
  <2>e. hdr = <<>> /\ hdr' = <<>> /\ UNCHANGED home
    BY <1>g, <1>u, <1>5 DEF write_log, Empty, At, Installing, CommitPc
  <2>r. Recovered' = Recovered
    <3>1. Range(hdr) = {} /\ Range(hdr)' = {}
      BY <2>e DEF Range
    <3> QED
      BY <2>e, <3>1 DEF Recovered
  <2> QED
    BY <1>s, <2>1, <2>3, <2>r, <1>5 DEF write_log, Stutters, Mem
<1>6. ASSUME NEW p \in Proc, write_log_io(p) PROVE [AD!Next]_(AD!advars)
  <2>1. Active' = Active
    BY <1>p, <1>6 DEF write_log_io, Active, InOp
  <2>e. hdr = <<>> /\ hdr' = <<>> /\ UNCHANGED home
    BY <1>g, <1>u, <1>6 DEF write_log_io, Empty, At, Installing, CommitPc
  <2>r. Recovered' = Recovered
    <3>1. Range(hdr) = {} /\ Range(hdr)' = {}
      BY <2>e DEF Range
    <3> QED
      BY <2>e, <3>1 DEF Recovered
  <2> QED
    BY <1>c, <1>s, <2>1, <2>r, <1>6 DEF write_log_io, Stutters, Mem
<1>7. ASSUME NEW p \in Proc, write_head(p) PROVE [AD!Next]_(AD!advars)
  <2> Running /\ At(Writing) /\ pc[p] \in CommitPc
    BY <1>7 DEF write_head, At, Writing, CommitPc
  <2>1. Active = {} /\ Active' = {}
    BY <1>p, <1>u, <1>7 DEF write_head, Active, InOp
  <2>2. Contents' = Contents
    BY <1>c, <1>7 DEF write_head, cachevars
  <2>3. hdr' = lh /\ UNCHANGED <<home, logd, boot>> /\ boot = "up"
    BY <1>7 DEF write_head, Running
  <2>4. \A i \in DOMAIN lh : logd[i] = cache[lh[i]] /\ cache[lh[i]] # None
    <3>1. \A i \in DOMAIN lh : i <= tail => logd[i] = cache[lh[i]]
      BY <1>g DEF LogGood
    <3>2. \A i \in DOMAIN lh : i <= tail /\ i \in Slots
      BY <1>h, LogAssumption, <1>7 DEF write_head, LogWritten, IInv, Header, Slots,
         LogAssumption
    <3> QED
      BY <1>t, <1>n, <3>1, <3>2
  <2>5. ASSUME NEW b \in Block PROVE Recovered'[b] = Contents[b]
    <3>1. CASE b \in Range(lh)
      <4>1. PICK i \in DOMAIN lh : lh[i] = b
        BY <3>1 DEF Range
      <4>2. Recovered'[b] = logd'[i]
        <5> DEFINE j == CHOOSE k \in DOMAIN lh : lh[k] = b
        <5>1. j \in DOMAIN lh /\ lh[j] = b
          BY <4>1
        <5>2. j = i
          BY <1>j, <4>1, <5>1 DEF IsInjective
        <5>3. Recovered'[b] = logd'[j]
          BY <2>3, <3>1 DEF Recovered
        <5> QED
          BY <5>2, <5>3, Zenon
      <4> QED
        BY <2>3, <2>4, <4>1, <4>2 DEF Contents, BufData
    <3>2. CASE b \notin Range(lh)
      <4>1. ~Dirty(b)
        BY <1>u DEF Dirty, InOp
      <4>2. Clean(b)
        BY <1>g, <3>2, <4>1 DEF CleanOrLogged
      <4>3. Recovered'[b] = home[b]
        BY <2>3, <3>2 DEF Recovered
      <4> QED
        BY <4>2, <4>3 DEF Clean, Contents, BufData
    <3> QED
      BY <3>1, <3>2
  <2>6. Recovered' = Contents
    BY <2>5 DEF Recovered, Contents
  <2>7. AD!Commit
    BY <2>1, <2>2, <2>3, <2>6 DEF AD!Commit
  <2> QED
    BY <2>7 DEF AD!Next
<1>8. ASSUME NEW p \in Proc, install_trans(p) PROVE [AD!Next]_(AD!advars)
  <2> Running /\ At(Installing) /\ pc[p] \in CommitPc
    BY <1>8 DEF install_trans, At, Installing, CommitPc
  <2>1. Active' = Active
    BY <1>p, <1>8 DEF install_trans, Active, InOp
  <2> DEFINE n == tail + 1
  <2>2. /\ n \in DOMAIN lh /\ lh[n] \in Block /\ n > tail /\ logd[n] \in Data \cup {Torn}
        /\ cache' = [cache EXCEPT ![lh[n]] = logd[n]] /\ home' = [home EXCEPT ![lh[n]] = Torn]
        /\ UNCHANGED <<logd, hdr, boot>> /\ boot = "up"
    BY <1>h, <1>8, NextSlot DEF install_trans, IInv, Running
  <2>3. hdr = lh /\ cache[lh[n]] = logd[n]
    BY <1>g, <1>h, <2>2 DEF HomeGood
  <2> HIDE DEF n
  <2>4. cache' = cache
    BY <1>t, <2>2, <2>3
  <2>5. lh[n] \in Range(hdr)
    BY <2>2, <2>3 DEF Range
  <2>6. Recovered' = Recovered
    BY <1>t, <2>2, <2>5, RecoveredFrame
  <2>7. Contents' = Contents
    BY <1>t, <1>n, <2>2, <2>3, <2>4 DEF Contents, BufData
  <2> QED
    BY <1>s, <2>1, <2>2, <2>6, <2>7 DEF Stutters, Mem
<1>9. ASSUME NEW p \in Proc, install_io(p) PROVE [AD!Next]_(AD!advars)
  <2> Running /\ At(Installing) /\ pc[p] \in CommitPc
    BY <1>9 DEF install_io, At, Installing, CommitPc
  <2>1. Active' = Active
    BY <1>p, <1>9 DEF install_io, Active, InOp
  <2> DEFINE n == tail + 1
  <2>2. tail < Len(lh) /\ holder[lh[n]] = p
    BY <1>9 DEF install_io, IInv, Locks, Transfer
  <2>3. n \in DOMAIN lh /\ lh[n] \in Block
    BY <2>2, NextSlot DEF IInv
  <2>4. cache[lh[n]] # None
    BY <2>2, <2>3, LogAssumption DEF IInv, Locks, LogAssumption
  <2>5. /\ home' = [home EXCEPT ![lh[n]] = cache[lh[n]]]
        /\ UNCHANGED <<logd, hdr, boot, cache>> /\ boot = "up"
    BY <1>9 DEF install_io, Running
  <2> HIDE DEF n
  <2>6. lh[n] \in Range(hdr)
    BY <1>g, <2>3 DEF HomeGood, Range
  <2>7. Recovered' = Recovered
    BY <1>t, <2>5, <2>6, RecoveredFrame
  <2>8. Contents' = Contents
    BY <1>t, <2>4, <2>5 DEF Contents, BufData
  <2> QED
    BY <1>s, <2>1, <2>5, <2>7, <2>8 DEF Stutters, Mem
<1>10. ASSUME NEW p \in Proc, reset_head(p) PROVE [AD!Next]_(AD!advars)
  <2>1. Active' = Active
    BY <1>p, <1>10 DEF reset_head, Active, InOp
  <2> QED
    BY <1>c, <1>f, <1>s, <2>1, <1>10 DEF reset_head, diskvars, cachevars, Stutters, Mem
<1>11. ASSUME NEW p \in Proc, clear_head(p) PROVE [AD!Next]_(AD!advars)
  <2>1. Active' = Active
    BY <1>p, <1>11 DEF clear_head, Active, InOp
  <2>2. lh = <<>> /\ hdr' = <<>> /\ Home(hdr, Len(hdr)) /\ UNCHANGED <<home, cache, boot>>
    BY <1>g, <1>11 DEF clear_head, cachevars, Empty, ClearGood, At
  <2>3. Recovered = [b \in Block |-> home[b]]
    BY <1>h, <1>j, <2>2, RecoveredHome
  <2>4. Recovered' = [b \in Block |-> home'[b]]
    <3>1. Range(hdr)' = {}
      BY <2>2 DEF Range
    <3> QED
      BY <3>1 DEF Recovered
  <2> QED
    BY <1>c, <1>s, <2>1, <2>2, <2>3, <2>4 DEF Stutters, Mem
<1>12. ASSUME NEW p \in Proc, end_commit(p) PROVE [AD!Next]_(AD!advars)
  <2>1. Active' = Active
    BY <1>p, <1>12 DEF end_commit, Wakeup, Active, InOp
  <2> QED
    BY <1>c, <1>f, <1>s, <2>1, <1>12 DEF end_commit, Wakeup, diskvars, cachevars, Stutters, Mem
<1>13. ASSUME NEW p \in Proc, Brelse(p) PROVE [AD!Next]_(AD!advars)
  <2>1. Active' = Active
    BY <1>p, <1>13 DEF Brelse, Active, InOp
  <2> QED
    BY <1>c, <1>f, <1>s, <2>1, <1>13 DEF Brelse, diskvars, logvars, Stutters, Mem
<1>14. ASSUME NEW p \in Proc, NEW b \in Block, Read(p, b) PROVE [AD!Next]_(AD!advars)
  <2>1. Active' = Active
    BY <1>p, <1>14 DEF Read, Active, InOp
  <2>2. \A c \in Block : cache'[c] = IF c = b THEN BufData(c) ELSE cache[c]
    BY <1>t, <1>14 DEF Read
  <2>3. Contents' = Contents
    BY <1>t, <1>n, <2>2, <1>14 DEF Read, diskvars, Contents, BufData
  <2> QED
    BY <1>f, <1>s, <2>1, <2>3, <1>14 DEF Read, diskvars, Stutters, Mem
<1>15. ASSUME NEW p \in Proc, NEW b \in Block, NEW d \in Data, Modify(p, b, d) PROVE [AD!Next]_(AD!advars)
  <2>1. Active' = Active /\ p \in Active
    BY <1>p, <1>15 DEF Modify, Active, InOp
  <2>2. Recovered' = Recovered /\ boot = "up" /\ boot' = "up"
    BY <1>f, <1>15 DEF Modify, diskvars, Running
  <2>3. d # None
    BY <1>n
  <2>4. Contents' = [Contents EXCEPT ![b] = d]
    BY <1>t, <2>3, <1>15, Zenon DEF Modify, diskvars, Contents, BufData
  <2>5. AD!Write(p, b, d)
    BY <2>1, <2>2, <2>4 DEF AD!Write
  <2> QED
    BY <2>5 DEF AD!Next
<1>16. ASSUME NEW b \in Block, Evict(b) PROVE [AD!Next]_(AD!advars)
  <2>1. /\ cache' = [cache EXCEPT ![b] = None] /\ cache[b] # None /\ pin[b] = 0 /\ holder[b] = None
        /\ UNCHANGED <<home, logd, hdr, pc, boot>> /\ panicked = "no"
    BY <1>16 DEF Evict, diskvars, procvars
  <2>2. Active' = Active
    BY <2>1 DEF Active
  <2>3. boot = "up" => Clean(b)
    <3> SUFFICES ASSUME boot = "up" PROVE Clean(b)
      OBVIOUS
    <3>1. \A i \in DOMAIN lh : lh[i] = b => Installed(i)
      BY <2>1 DEF IInv, Header
    <3>2. ~Dirty(b)
      BY <1>p, <2>1, LogAssumption DEF Dirty, IInv, Locks, HoldsBuffer, LogAssumption
    <3>3. CASE b \in Range(lh)
      BY <1>g, <2>1, <3>1, <3>3 DEF Running, HomeGood, Installed, Range
    <3>4. CASE b \notin Range(lh)
      BY <1>g, <2>1, <3>2, <3>4 DEF Running, CleanOrLogged
    <3> QED
      BY <3>3, <3>4
  <2>4. boot = "up" => Contents' = Contents
    BY <1>t, <2>1, <2>3 DEF Contents, BufData, Clean
  <2> QED
    BY <1>f, <1>s, <2>1, <2>2, <2>4 DEF Stutters, Mem
<1>17. CASE read_head
  <2>1. Active' = Active
    BY <1>17 DEF read_head, procvars, Active
  <2>2. boot # "up" /\ boot' # "up"
    BY <1>17 DEF read_head
  <2> QED
    BY <1>f, <1>s, <2>1, <2>2, <1>17 DEF read_head, diskvars, Stutters, Mem
<1>18. CASE recover_install
  <2>1. Active' = Active
    BY <1>18 DEF recover_install, procvars, Active
  <2>2. boot # "up" /\ boot' # "up"
    BY <1>18 DEF recover_install
  <2> DEFINE n == tail + 1
  <2>3. n \in DOMAIN lh /\ lh[n] \in Block /\ lh = hdr
    BY <1>18, NextSlot DEF recover_install, IInv, Phases, Booting
  <2>4. home' = [home EXCEPT ![lh[n]] = Torn] /\ UNCHANGED <<logd, hdr>>
    BY <1>18 DEF recover_install
  <2> HIDE DEF n
  <2>5. lh[n] \in Range(hdr)
    BY <2>3 DEF Range
  <2>6. Recovered' = Recovered
    BY <1>t, <2>4, <2>5, RecoveredFrame
  <2> QED
    BY <1>s, <2>1, <2>2, <2>6 DEF Stutters, Mem
<1>19. CASE recover_install_io
  <2>1. Active' = Active
    BY <1>19 DEF recover_install_io, procvars, Active
  <2>2. boot # "up" /\ boot' # "up"
    BY <1>19 DEF recover_install_io
  <2> DEFINE n == tail + 1
  <2>3. tail < Len(lh) /\ lh = hdr
    BY <1>19 DEF recover_install_io, IInv, Phases, Booting
  <2>4. n \in DOMAIN lh /\ lh[n] \in Block
    BY <2>3, NextSlot DEF IInv
  <2>5. home' = [home EXCEPT ![lh[n]] = cache[lh[n]]] /\ UNCHANGED <<logd, hdr>>
    BY <1>19 DEF recover_install_io
  <2> HIDE DEF n
  <2>6. lh[n] \in Range(hdr)
    BY <2>3, <2>4 DEF Range
  <2>7. Recovered' = Recovered
    BY <1>t, <2>5, <2>6, RecoveredFrame
  <2> QED
    BY <1>s, <2>1, <2>2, <2>7 DEF Stutters, Mem
<1>20. CASE recover_reset
  <2>1. Active' = Active
    BY <1>20 DEF recover_reset, procvars, Active
  <2>2. boot # "up" /\ boot' # "up"
    BY <1>20 DEF recover_reset
  <2> QED
    BY <1>f, <1>s, <2>1, <2>2, <1>20 DEF recover_reset, diskvars, Stutters, Mem
<1>21. CASE recover_clear
  <2>1. Active = {} /\ Active' = {}
    BY <1>21 DEF recover_clear, IInv, Control, Active, InOp
  <2>2. lh = <<>> /\ Home(hdr, Len(hdr)) /\ \A b \in Block : Clean(b)
    BY <1>21 DEF recover_clear, IInv, Phases, Booting
  <2>3. hdr' = <<>> /\ boot # "up" /\ boot' = "up" /\ UNCHANGED <<home, cache>>
    BY <2>2, <1>21 DEF recover_clear, cachevars
  <2>4. Recovered = [b \in Block |-> home[b]]
    BY <1>h, <1>j, <2>2, RecoveredHome
  <2>5. Recovered' = [b \in Block |-> home'[b]]
    <3>1. Range(hdr)' = {}
      BY <2>3 DEF Range
    <3> QED
      BY <3>1 DEF Recovered
  <2>6. Contents = [b \in Block |-> home[b]]
    BY <2>2, ContentsClean
  <2> QED
    BY <1>c, <1>s, <2>1, <2>3, <2>4, <2>5, <2>6 DEF Stutters, Mem
<1>22. CASE Crash
  <2>1. Active' = {}
    BY <1>22 DEF Crash, Active, InOp
  <2>2. Recovered' = Recovered /\ boot' # "up"
    BY <1>f, <1>22 DEF Crash, diskvars
  <2>3. AD!Crash
    BY <2>1, <2>2 DEF AD!Crash
  <2> QED
    BY <2>3 DEF AD!Next
<1>23. CASE UNCHANGED vars
  <2>1. UNCHANGED <<home, logd, hdr, cache, pc, boot>>
    BY <1>23 DEF vars, diskvars, cachevars, procvars
  <2>2. Active' = Active
    BY <2>1 DEF Active
  <2> QED
    BY <1>c, <1>f, <1>s, <2>1, <2>2 DEF Stutters, Mem
<1> QED
  BY <1>1, <1>2, <1>3, <1>4, <1>5, <1>6, <1>7, <1>8, <1>9, <1>10, <1>11, <1>12, <1>13, <1>14,
     <1>15, <1>16, <1>17, <1>18, <1>19, <1>20, <1>21, <1>22, <1>23
     DEF Next, Committer, Recovery

LEMMA InitRefines == Init => AD!Init
<1> SUFFICES ASSUME Init PROVE AD!Init
  OBVIOUS
<1>1. Recovered = [b \in Block |-> Zero]
  BY RecoveredEmpty DEF Init
<1>2. Active = {}
  BY DEF Init, Active, InOp
<1> QED
  BY <1>1, <1>2 DEF Init, AD!Init

\* The log makes operations atomic across crashes: whenever the machine stops, recovery
\* leaves the disk as it was after some set of whole operations (log.c:10-31).
THEOREM LogIsAtomic == Spec => CrashAtomic
<1>1. Spec => [][AD!Next]_(AD!advars)
  BY StepRefines, Invariant, PTL DEF Spec
<1> QED
  BY <1>1, InitRefines, PTL DEF Spec, CrashAtomic, AD!Spec
=============================================================================
