--------------------------- MODULE LogInvariant ----------------------------
(***************************************************************************)
(* The inductive invariant of Log, and the proofs that a step preserves    *)
(* its control, its locks, its pins and its types (LogPhases: its data).   *)
(*                                                                         *)
(* IInv is the inductive invariant.  Control says who commits and when,    *)
(* Locks ties the buffers' sleep-locks to the processes, Header bounds the *)
(* transaction and counts the pins, and Phases says, for each phase of     *)
(* commit() and of the recovery, which of the three copies of a block      *)
(* (cache, log, home) are good.                                            *)
(***************************************************************************)
EXTENDS Log, FiniteSetTheorems, TLAPS

HoldsBuffer == {"reading", "dirty", "logged"}
Transfer == {"write_log_io", "install_io"}
Writing == {"write_log", "write_log_io"}
Installing == {"install", "install_io"}

At(S) == \E p \in Proc : pc[p] \in S

(***************************************************************************)
(* The control: outstanding counts the active calls, committing says that  *)
(* a process is in commit(), which is then alone.                          *)
(***************************************************************************)
Control ==
    /\ boot # "up" => /\ \A p \in Proc : pc[p] = "down"
                      /\ panicked = "no"
    /\ boot = "up" => \A p \in Proc : pc[p] # "down"
    /\ outstanding = Cardinality(Active)
    /\ committing => Active = {}
    /\ committing <=> At(CommitPc)
    /\ \A p, q \in Proc : pc[p] \in CommitPc /\ pc[q] \in CommitPc => p = q

(***************************************************************************)
(* The sleep-locks of the buffers.                                         *)
(***************************************************************************)
Locks ==
    /\ \A p \in Proc : pc[p] \in HoldsBuffer => cur[p] \in Block /\ holder[cur[p]] = p
    /\ \A p \in Proc : pc[p] \in Transfer => tail < Len(lh) /\ holder[lh[tail + 1]] = p
    /\ \A b \in Block : holder[b] # None =>
         /\ cache[b] # None
         /\ \/ pc[holder[b]] \in HoldsBuffer /\ cur[holder[b]] = b
            \/ pc[holder[b]] \in Transfer /\ lh[tail + 1] = b

(***************************************************************************)
(* The transaction: distinct blocks, as many as the log has room for, each *)
(* pinned once until it is installed.                                      *)
(***************************************************************************)
Installed(i) == i <= tail /\ At(Installing)

Header ==
    /\ IsInjective(lh) /\ Len(lh) <= LogBlocks - 1
    /\ IsInjective(hdr) /\ Len(hdr) <= LogBlocks - 1
    /\ boot # "up" => \A b \in Block : pin[b] = 0
    /\ boot = "up" => \A b \in Block :
         pin[b] = IF \E i \in DOMAIN lh : lh[i] = b /\ ~Installed(i) THEN 1 ELSE 0
    /\ \A b \in Block : pin[b] # 0 => cache[b] # None

(***************************************************************************)
(* The data.                                                               *)
(***************************************************************************)
Clean(b) == cache[b] \in {None, home[b]}
Dirty(b) == \E p \in Proc : pc[p] = "dirty" /\ cur[p] = b

\* The blocks of header h whose log copies are home again: the first n.
Home(h, n) == \A i \in DOMAIN h : i <= n => home[h[i]] = logd[i]

\* The recovery: what it has installed agrees with the log, the cache with the disk.
Booting ==
    /\ boot = "read_head" => \A b \in Block : cache[b] = None
    /\ boot \in {"install", "install_io"} => lh = hdr /\ tail <= Len(lh) /\ Home(lh, tail)
    /\ boot = "install_io" => tail < Len(lh) /\ cache[lh[tail + 1]] = logd[tail + 1]
    /\ boot = "clear" => lh = <<>> /\ Home(hdr, Len(hdr))
    /\ boot # "up" => \A b \in Block : Clean(b) \/ (boot = "install_io" /\ b = lh[tail + 1])

\* The header on the disk is empty but between the commit point and clear_head; the
\* transaction is empty unless a call or a commit is under way.
Empty ==
    /\ hdr = <<>> \/ At(Installing) \/ At({"clear"})
    /\ At({"clear"}) \/ At({"committed"}) => lh = <<>>
    /\ ~committing /\ Active = {} => lh = <<>>

\* Only logged blocks, and those about to be, differ from their home blocks.
CleanOrLogged == \A b \in Block : b \in Range(lh) \/ Dirty(b) \/ Clean(b)

\* write_log(): the log has the cached contents of the first tail blocks.
LogGood == At(Writing) => tail <= Len(lh) /\ \A i \in DOMAIN lh : i <= tail => logd[i] = cache[lh[i]]

\* install_trans(): the first tail blocks are home, the others are cached as logged.
HomeGood == At(Installing) =>
    /\ hdr = lh /\ tail <= Len(lh) /\ Home(lh, tail)
    /\ \A i \in DOMAIN lh : IF i <= tail THEN Clean(lh[i]) ELSE cache[lh[i]] = logd[i]

\* Between install_trans() and the second write_head().
ClearGood == At({"clear"}) => Home(hdr, Len(hdr))

Phases ==
    /\ Booting
    /\ Running => Empty /\ CleanOrLogged /\ LogGood /\ HomeGood /\ ClearGood

IInv == TypeOK /\ Control /\ Locks /\ Header /\ Phases

(***************************************************************************)
(* The control.                                                            *)
(***************************************************************************)
LEMMA ActiveFinite == IsFiniteSet(Active)
BY LogAssumption, FS_Subset DEF LogAssumption, Active

LEMMA ControlInit == Init => Control
<1> SUFFICES ASSUME Init PROVE Control
  OBVIOUS
<1>1. Active = {}
  BY DEF Init, Active, InOp
<1>2. outstanding = Cardinality(Active)
  BY <1>1, FS_EmptySet DEF Init
<1> QED
  BY <1>1, <1>2 DEF Init, Control, At, CommitPc

LEMMA ControlStep == TypeOK /\ Control /\ [Next]_vars => Control'
<1> SUFFICES ASSUME TypeOK, Control, [Next]_vars PROVE Control'
  OBVIOUS
<1> USE DEF Goto, Running, At
<1>t. pc \in [Proc -> PC] /\ outstanding \in Nat /\ committing \in BOOLEAN
  BY Zenon DEF TypeOK
<1>f. IsFiniteSet(Active) /\ Cardinality(Active) \in Nat
  BY ActiveFinite, FS_CardinalityType
<1>1. ASSUME NEW p \in Proc, begin_op(p) PROVE Control'
  <2>1. CASE MustWait
    <3>1. Active' = Active
      BY <1>t, <1>1, <2>1 DEF begin_op, Active, InOp
    <3> QED
      BY <1>t, <1>1, <2>1, <3>1 DEF begin_op, Control, CommitPc
  <2>2. CASE ~MustWait
    <3>1. Active' = Active \cup {p} /\ p \notin Active
      BY <1>t, <1>1, <2>2 DEF begin_op, Active, InOp
    <3>2. Cardinality(Active') = Cardinality(Active) + 1
      BY <3>1, <1>f, FS_AddElement
    <3> QED
      BY <1>t, <1>1, <2>2, <3>1, <3>2 DEF begin_op, MustWait, Control, CommitPc
  <2> QED
    BY <2>1, <2>2
<1>2. ASSUME NEW p \in Proc, end_op(p) PROVE Control'
  <2>1. Active' = Active \ {p} /\ p \in Active
    BY <1>t, <1>2, Zenon DEF end_op, Wakeup, Active, InOp
  <2>2. Cardinality(Active') = Cardinality(Active) - 1
    BY <2>1, <1>f, FS_RemoveElement
  <2>3. ~committing
    BY <2>1 DEF Control
  <2>4. CASE outstanding - 1 = 0
    <3>1. Active' = {}
      BY <2>2, <2>4, <1>f, FS_EmptySet, ActiveFinite, <2>1, FS_RemoveElement DEF Control
    <3> QED
      BY <1>t, <1>2, <2>2, <2>3, <2>4, <3>1 DEF end_op, Control, CommitPc
  <2>5. CASE outstanding - 1 # 0
    BY <1>t, <1>2, <2>1, <2>2, <2>3, <2>5 DEF end_op, Wakeup, Control, CommitPc
  <2> QED
    BY <2>4, <2>5
<1>3. ASSUME NEW p \in Proc, log_write(p) PROVE Control'
  <2>1. Active' = Active
    BY <1>t, <1>3 DEF log_write, Active, InOp
  <2> QED
    BY <1>t, <1>3, <2>1, Zenon DEF log_write, LogWritePanic, Control, CommitPc
<1>4. ASSUME NEW p \in Proc, commit(p) PROVE Control'
  <2>1. Active' = Active
    BY <1>t, <1>4 DEF commit, Active, InOp
  <2> QED
    BY <1>t, <1>4, <2>1 DEF commit, Control, CommitPc
<1>5. ASSUME NEW p \in Proc, write_log(p) PROVE Control'
  <2>1. Active' = Active
    BY <1>t, <1>5 DEF write_log, Active, InOp
  <2> QED
    BY <1>t, <1>5, <2>1 DEF write_log, logvars, Control, CommitPc
<1>6. ASSUME NEW p \in Proc, write_log_io(p) PROVE Control'
  <2>1. Active' = Active
    BY <1>t, <1>6 DEF write_log_io, Active, InOp
  <2> QED
    BY <1>t, <1>6, <2>1 DEF write_log_io, Control, CommitPc
<1>7. ASSUME NEW p \in Proc, write_head(p) PROVE Control'
  <2>1. Active' = Active
    BY <1>t, <1>7 DEF write_head, Active, InOp
  <2> QED
    BY <1>t, <1>7, <2>1 DEF write_head, Control, CommitPc
<1>8. ASSUME NEW p \in Proc, install_trans(p) PROVE Control'
  <2>1. Active' = Active
    BY <1>t, <1>8 DEF install_trans, Active, InOp
  <2> QED
    BY <1>t, <1>8, <2>1 DEF install_trans, logvars, Control, CommitPc
<1>9. ASSUME NEW p \in Proc, install_io(p) PROVE Control'
  <2>1. Active' = Active
    BY <1>t, <1>9 DEF install_io, Active, InOp
  <2> QED
    BY <1>t, <1>9, <2>1 DEF install_io, Control, CommitPc
<1>10. ASSUME NEW p \in Proc, reset_head(p) PROVE Control'
  <2>1. Active' = Active
    BY <1>t, <1>10 DEF reset_head, Active, InOp
  <2> QED
    BY <1>t, <1>10, <2>1 DEF reset_head, Control, CommitPc
<1>11. ASSUME NEW p \in Proc, clear_head(p) PROVE Control'
  <2>1. Active' = Active
    BY <1>t, <1>11 DEF clear_head, Active, InOp
  <2> QED
    BY <1>t, <1>11, <2>1 DEF clear_head, logvars, Control, CommitPc
<1>12. ASSUME NEW p \in Proc, Brelse(p) PROVE Control'
  <2>1. Active' = Active
    BY <1>t, <1>12 DEF Brelse, Active, InOp
  <2> QED
    BY <1>t, <1>12, <2>1 DEF Brelse, logvars, Control, CommitPc
<1>13. ASSUME NEW p \in Proc, end_commit(p) PROVE Control'
  <2>1. Active' = Active
    BY <1>t, <1>13 DEF end_commit, Wakeup, Active, InOp
  <2> QED
    BY <1>t, <1>13, <2>1 DEF end_commit, Wakeup, Control, CommitPc
<1>14. ASSUME NEW p \in Proc, NEW b \in Block, Read(p, b) PROVE Control'
  <2>1. Active' = Active
    BY <1>t, <1>14 DEF Read, Active, InOp
  <2> QED
    BY <1>t, <1>14, <2>1 DEF Read, logvars, Control, CommitPc
<1>15. ASSUME NEW p \in Proc, NEW b \in Block, NEW d \in Data, Modify(p, b, d) PROVE Control'
  <2>1. Active' = Active
    BY <1>t, <1>15 DEF Modify, Active, InOp
  <2> QED
    BY <1>t, <1>15, <2>1 DEF Modify, logvars, Control, CommitPc
<1>16. ASSUME NEW b \in Block, Evict(b) PROVE Control'
  BY <1>16 DEF Evict, procvars, logvars, Control, Active
<1>17. CASE Recovery
  <2>1. Active = {} /\ Active' = {}
    BY <1>17 DEF Recovery, read_head, recover_install, recover_install_io, recover_reset,
       recover_clear, procvars, Control, Active, InOp
  <2> QED
    BY <1>17, <2>1 DEF Recovery, read_head, recover_install, recover_install_io, recover_reset,
       recover_clear, procvars, logvars, Control, CommitPc
<1>18. CASE Crash
  <2>1. Active' = {}
    BY <1>18 DEF Crash, Active, InOp
  <2> QED
    BY <1>18, <2>1, FS_EmptySet DEF Crash, Control, CommitPc
<1>19. CASE UNCHANGED vars
  BY <1>19 DEF vars, procvars, logvars, Control, Active
<1> QED
  BY <1>1, <1>2, <1>3, <1>4, <1>5, <1>6, <1>7, <1>8, <1>9, <1>10, <1>11, <1>12, <1>13, <1>14, <1>15, <1>16, <1>17, <1>18, <1>19 DEF Next, Committer

\* The index of a loop of commit() or of the recovery names a block and a log block.
LEMMA NextSlot ==
  ASSUME TypeOK, Header, tail < Len(lh)
  PROVE  /\ tail + 1 \in DOMAIN lh /\ lh[tail + 1] \in Block
         /\ logd[tail + 1] \in Data \cup {Torn} /\ tail + 1 \in Slots
<1>1. lh \in Seq(Block) /\ tail \in Nat /\ logd \in [Slots -> Data \cup {Torn}]
  BY Zenon DEF TypeOK
<1>2. Len(lh) \in Nat /\ Len(lh) <= LogBlocks - 1 /\ DOMAIN lh = 1 .. Len(lh)
  BY <1>1 DEF Header
<1>3. LogBlocks \in Nat
  BY LogAssumption DEF LogAssumption
<1> QED
  BY <1>1, <1>2, <1>3 DEF Slots

(***************************************************************************)
(* The sleep-locks.                                                        *)
(***************************************************************************)
LEMMA LocksStep == TypeOK /\ Control /\ Locks /\ Header /\ [Next]_vars => Locks'
<1> SUFFICES ASSUME TypeOK, Control, Locks, Header, [Next]_vars PROVE Locks'
  OBVIOUS
<1> USE DEF Goto, Running
<1>t. /\ pc \in [Proc -> PC] /\ cur \in [Proc -> Block \cup {None}]
      /\ holder \in [Block -> Proc \cup {None}] /\ cache \in [Block -> Data \cup {Torn, None}]
      /\ lh \in Seq(Block) /\ tail \in Nat
      /\ home \in [Block -> Data \cup {Torn}] /\ logd \in [Slots -> Data \cup {Torn}]
  BY Zenon DEF TypeOK
<1>n. None \notin Data \cup {Torn} /\ None \notin Block /\ None \notin Proc
  BY LogAssumption DEF LogAssumption
<1>s. tail < Len(lh) => /\ tail + 1 \in DOMAIN lh /\ lh[tail + 1] \in Block
                        /\ logd[tail + 1] \in Data \cup {Torn}
  BY NextSlot
\* A transfer is the committer's own; none is under way while a call is active.
<1>u. \A q \in Proc : pc[q] \in Transfer =>
          \A p \in Proc : (pc[p] \in CommitPc => p = q) /\ pc[p] \notin InOp
  BY DEF Control, Transfer, CommitPc, At, Active, InOp
<1>d. boot # "up" => \A b \in Block : holder[b] = None
  BY <1>t, <1>n DEF Control, Locks, HoldsBuffer, Transfer
<1>1. ASSUME NEW p \in Proc, begin_op(p) PROVE Locks'
  BY <1>t, <1>n, <1>s, <1>1 DEF begin_op, cachevars, diskvars, Locks, HoldsBuffer, Transfer
<1>2. ASSUME NEW p \in Proc, log_write(p) PROVE Locks'
  <2>1. pc[p] \in InOp /\ \A q \in Proc : pc[q] \notin Transfer
    BY <1>2, <1>u DEF log_write, InOp
  <2>2. \A q \in Proc : pc'[q] \notin Transfer
    BY <1>t, <2>1, <1>2 DEF log_write, Transfer
  <2>3. /\ \A q \in Proc : pc'[q] \in HoldsBuffer <=> pc[q] \in HoldsBuffer
        /\ UNCHANGED <<cur, holder, cache>>
    BY <1>t, <1>2 DEF log_write, HoldsBuffer
  <2> QED
    BY <1>t, <1>n, <2>1, <2>2, <2>3 DEF Locks
<1>3. ASSUME NEW p \in Proc, end_op(p) PROVE Locks'
  <2>1. UNCHANGED <<cur, holder, cache, lh, tail>> /\ pc[p] = "op"
    BY <1>3, Zenon DEF end_op, cachevars
  <2>2. \A q \in Proc : /\ pc'[q] \in HoldsBuffer <=> pc[q] \in HoldsBuffer
                        /\ pc'[q] \in Transfer <=> pc[q] \in Transfer
    BY <1>t, <1>3, <2>1, Zenon DEF end_op, Wakeup, HoldsBuffer, Transfer
  <2> QED
    BY <1>t, <1>n, <2>1, <2>2 DEF Locks
<1>4. ASSUME NEW p \in Proc, commit(p) PROVE Locks'
  <2>1. pc[p] \in CommitPc \ Transfer
    BY <1>4 DEF commit, CommitPc, Transfer
  <2>2. \A q \in Proc : pc[q] \notin Transfer
    BY <1>u, <2>1
  <2>3. \A q \in Proc : pc'[q] \notin Transfer
    BY <1>t, <2>2, <1>4 DEF commit, Transfer
  <2> QED
    BY <1>t, <1>n, <2>1, <2>2, <2>3, <1>4 DEF commit, cachevars, Locks, HoldsBuffer, CommitPc
<1>5. ASSUME NEW p \in Proc, write_log(p) PROVE Locks'
  <2>1. tail < Len(lh) /\ pc[p] \in CommitPc
    BY <1>5 DEF write_log, CommitPc
  <2>2. \A q \in Proc : pc'[q] \in Transfer <=> q = p
    BY <1>t, <1>u, <2>1, <1>5 DEF write_log, CommitPc, Transfer
  <2>3. \A q \in Proc : pc'[q] \in HoldsBuffer <=> pc[q] \in HoldsBuffer
    BY <1>t, <1>5 DEF write_log, HoldsBuffer
  <2>4. \A b \in Block : BufData(b) # None
    BY <1>t, <1>n DEF BufData
  <2> QED
    BY <1>t, <1>n, <1>s, <1>u, <2>1, <2>2, <2>3, <2>4, <1>5 DEF write_log, Bread, logvars,
       Locks, Transfer
<1>6. ASSUME NEW p \in Proc, write_log_io(p) PROVE Locks'
  BY <1>t, <1>n, <1>s, <1>6 DEF write_log_io, Locks, HoldsBuffer, Transfer
<1>7. ASSUME NEW p \in Proc, write_head(p) PROVE Locks'
  <2>1. pc[p] \in CommitPc \ Transfer
    BY <1>7 DEF write_head, CommitPc, Transfer
  <2>2. \A q \in Proc : pc[q] \notin Transfer
    BY <1>u, <2>1
  <2>3. \A q \in Proc : pc'[q] \notin Transfer
    BY <1>t, <2>2, <1>7 DEF write_head, Transfer
  <2> QED
    BY <1>t, <1>n, <2>1, <2>2, <2>3, <1>7 DEF write_head, cachevars, Locks, HoldsBuffer,
       CommitPc
<1>8. ASSUME NEW p \in Proc, install_trans(p) PROVE Locks'
  BY <1>t, <1>n, <1>s, <1>8 DEF install_trans, Bread, logvars, Locks, HoldsBuffer, Transfer
<1>9. ASSUME NEW p \in Proc, install_io(p) PROVE Locks'
  BY <1>t, <1>n, <1>s, <1>9 DEF install_io, Bunpin, Locks, HoldsBuffer, Transfer
<1>10. ASSUME NEW p \in Proc, reset_head(p) PROVE Locks'
  BY <1>t, <1>n, <1>s, <1>10 DEF reset_head, diskvars, cachevars, Locks, HoldsBuffer, Transfer
<1>11. ASSUME NEW p \in Proc, clear_head(p) PROVE Locks'
  BY <1>t, <1>n, <1>s, <1>11 DEF clear_head, cachevars, logvars, Locks, HoldsBuffer, Transfer
<1>12. ASSUME NEW p \in Proc, end_commit(p) PROVE Locks'
  BY <1>t, <1>n, <1>s, <1>12 DEF end_commit, Wakeup, diskvars, cachevars, Locks, HoldsBuffer,
     Transfer
<1>13. ASSUME NEW p \in Proc, Brelse(p) PROVE Locks'
  BY <1>t, <1>n, <1>s, <1>13 DEF Brelse, diskvars, logvars, Locks, HoldsBuffer, Transfer
<1>14. ASSUME NEW p \in Proc, NEW b \in Block, Read(p, b) PROVE Locks'
  <2>1. BufData(b) # None
    BY <1>t, <1>n DEF BufData
  <2>2. \A q \in Proc : pc'[q] \in Transfer <=> pc[q] \in Transfer
    BY <1>t, <1>14 DEF Read, Transfer
  <2>3. \A q \in Proc : pc'[q] \in HoldsBuffer <=> pc[q] \in HoldsBuffer \/ q = p
    BY <1>t, <1>14 DEF Read, HoldsBuffer
  <2> QED
    BY <1>t, <1>n, <1>s, <2>1, <2>2, <2>3, <1>14 DEF Read, Bread, logvars, Locks, HoldsBuffer
<1>15. ASSUME NEW p \in Proc, NEW b \in Block, NEW d \in Data, Modify(p, b, d) PROVE Locks'
  BY <1>t, <1>n, <1>s, <1>15 DEF Modify, Bread, diskvars, logvars, Locks, HoldsBuffer, Transfer
<1>16. ASSUME NEW b \in Block, Evict(b) PROVE Locks'
  BY <1>t, <1>n, <1>s, <1>16 DEF Evict, diskvars, logvars, procvars, Locks, HoldsBuffer,
     Transfer
<1>17. CASE read_head
  <2>1. \A q \in Proc : pc'[q] \notin Transfer \cup HoldsBuffer
    BY <1>t, <1>17 DEF read_head, procvars, Control, Transfer, HoldsBuffer
  <2>2. \A b \in Block : holder'[b] = None
    BY <1>d, <1>17 DEF read_head, cachevars
  <2> QED
    BY <2>1, <2>2 DEF Locks
<1>18. CASE recover_install
  BY <1>t, <1>n, <1>s, <1>18 DEF recover_install, logvars, procvars, Locks, HoldsBuffer,
     Transfer
<1>19. CASE recover_install_io
  <2>1. \A q \in Proc : pc'[q] \notin Transfer \cup HoldsBuffer
    BY <1>t, <1>19 DEF recover_install_io, procvars, Control, Transfer, HoldsBuffer
  <2>2. \A b \in Block : holder'[b] = None
    BY <1>d, <1>19 DEF recover_install_io, cachevars
  <2> QED
    BY <2>1, <2>2 DEF Locks
<1>20. CASE recover_reset
  BY <1>t, <1>n, <1>s, <1>20 DEF recover_reset, diskvars, cachevars, procvars, Locks,
     HoldsBuffer, Transfer
<1>21. CASE recover_clear
  <2>1. \A q \in Proc : pc'[q] \notin Transfer \cup HoldsBuffer
    BY <1>t, <1>21 DEF recover_clear, procvars, Control, Transfer, HoldsBuffer
  <2>2. \A b \in Block : holder'[b] = None
    BY <1>d, <1>21 DEF recover_clear, cachevars
  <2> QED
    BY <2>1, <2>2 DEF Locks
<1>22. CASE Crash
  BY <1>t, <1>n, <1>s, <1>22 DEF Crash, diskvars, Locks, HoldsBuffer, Transfer
<1>23. CASE UNCHANGED vars
  BY <1>t, <1>n, <1>s, <1>23 DEF vars, diskvars, cachevars, logvars, procvars, Locks,
     HoldsBuffer, Transfer
<1> QED
  BY <1>1, <1>2, <1>3, <1>4, <1>5, <1>6, <1>7, <1>8, <1>9, <1>10, <1>11, <1>12, <1>13, <1>14,
     <1>15, <1>16, <1>17, <1>18, <1>19, <1>20, <1>21, <1>22, <1>23
     DEF Next, Committer, Recovery

(***************************************************************************)
(* The transaction and its pins.                                           *)
(***************************************************************************)
LEMMA HeaderStep == TypeOK /\ Control /\ Locks /\ Header /\ Phases /\ [Next]_vars => Header'
<1> SUFFICES ASSUME TypeOK, Control, Locks, Header, Phases, [Next]_vars PROVE Header'
  OBVIOUS
<1> USE DEF Goto, Running
<1>t. /\ pc \in [Proc -> PC] /\ cur \in [Proc -> Block \cup {None}] /\ pin \in [Block -> Nat]
      /\ cache \in [Block -> Data \cup {Torn, None}]
      /\ lh \in Seq(Block) /\ hdr \in Seq(Block) /\ tail \in Nat
      /\ home \in [Block -> Data \cup {Torn}] /\ logd \in [Slots -> Data \cup {Torn}]
  BY Zenon DEF TypeOK
<1>n. None \notin Data \cup {Torn} /\ LogBlocks \in Nat \ {0}
  BY LogAssumption DEF LogAssumption
<1>b. \A b \in Block : BufData(b) # None
  BY <1>t, <1>n DEF BufData
<1>e. IsInjective(<<>>) /\ Len(<<>>) <= LogBlocks - 1
  BY <1>n DEF IsInjective
<1>u. \A p, q \in Proc : pc[p] \in CommitPc /\ pc[q] \in Installing => p = q
  BY DEF Control, CommitPc, Installing
\* A step that leaves the log and the pins alone and fills, but does not empty, buffers.
<1>k. ASSUME At(Installing)' <=> At(Installing), UNCHANGED <<lh, hdr, pin, tail, boot>>,
             \A b \in Block : cache[b] # None => cache'[b] # None
      PROVE  Header'
  <2>1. \A i : Installed(i)' <=> Installed(i)
    BY <1>k DEF Installed
  <2>2. \A b \in Block : pin'[b] # 0 => cache'[b] # None
    BY <1>k DEF Header
  <2> QED
    BY <1>k, <2>1, <2>2 DEF Header
<1>1. ASSUME NEW p \in Proc, begin_op(p) PROVE Header'
  <2>1. At(Installing)' <=> At(Installing)
    BY <1>t, <1>1 DEF begin_op, At, Installing
  <2>2. UNCHANGED <<lh, hdr, pin, tail, boot, cache>>
    BY <1>1 DEF begin_op, cachevars, diskvars
  <2> QED
    BY <1>k, <2>1, <2>2
<1>2. ASSUME NEW p \in Proc, log_write(p) PROVE Header'
  <2>1. At(Installing)' <=> At(Installing)
    BY <1>t, <1>2 DEF log_write, At, Installing
  <2>2. ~At(Installing)
    BY <1>2 DEF log_write, Control, Active, InOp, At, Installing, CommitPc
  <2>3. CASE LogWritePanic # "no" \/ cur[p] \in Range(lh)
    BY <1>t, <2>1, <2>3, <1>2 DEF log_write, diskvars, Header, Installed
  <2>4. CASE ~(LogWritePanic # "no" \/ cur[p] \in Range(lh))
    <3> DEFINE b == cur[p]
    <3>0. None \notin Proc /\ pc[p] = "dirty"
      BY <1>2, LogAssumption DEF log_write, LogAssumption
    <3>1. b \in Block /\ holder[b] = p /\ cache[b] # None
      BY <3>0 DEF Locks, HoldsBuffer
    <3>2. /\ lh' = Append(lh, b) /\ pin' = [pin EXCEPT ![b] = @ + 1] /\ boot' = boot
          /\ UNCHANGED <<cache, hdr>> /\ boot = "up"
      BY <2>4, <1>2 DEF log_write, Bpin, diskvars
    <3>3. \A i \in DOMAIN lh : lh[i] # b
      BY <2>4 DEF Range
    <3>4. Len(lh) < LogBlocks - 1
      <4>1. Len(lh) \in Nat
        BY <1>t
      <4>2. ~TooBig
        BY <2>4 DEF LogWritePanic
      <4> QED
        BY <1>n, <4>1, <4>2 DEF TooBig
    <3>5. /\ DOMAIN lh = 1 .. Len(lh) /\ DOMAIN lh' = 1 .. Len(lh) + 1 /\ Len(lh) \in Nat
          /\ Len(lh') = Len(lh) + 1
          /\ lh'[Len(lh) + 1] = b /\ \A i \in 1 .. Len(lh) : lh'[i] = lh[i]
      BY <1>t, <3>1, <3>2
    <3> HIDE DEF b
    <3>6. IsInjective(lh') /\ Len(lh') <= LogBlocks - 1
      BY <1>n, <3>3, <3>4, <3>5 DEF IsInjective, Header
    <3>7. \A c \in Block : (\E i \in DOMAIN lh' : lh'[i] = c) <=>
                           (\E i \in DOMAIN lh : lh[i] = c) \/ c = b
      BY <3>5
    <3>8. \A c \in Block : pin'[c] = IF \E i \in DOMAIN lh' : lh'[i] = c /\ ~Installed(i)' THEN 1 ELSE 0
      BY <1>t, <2>1, <2>2, <3>1, <3>2, <3>3, <3>7 DEF Installed, Header
    <3>9. \A c \in Block : pin'[c] # 0 => cache'[c] # None
      BY <1>t, <3>1, <3>2 DEF Header
    <3> QED
      BY <3>2, <3>6, <3>8, <3>9 DEF Header
  <2> QED
    BY <2>3, <2>4
<1>3. ASSUME NEW p \in Proc, end_op(p) PROVE Header'
  <2>1. At(Installing)' <=> At(Installing)
    BY <1>t, <1>3, Zenon DEF end_op, Wakeup, At, Installing
  <2>2. UNCHANGED <<lh, hdr, pin, tail, boot, cache>>
    BY <1>3, Zenon DEF end_op, cachevars, diskvars
  <2> QED
    BY <1>k, <2>1, <2>2
<1>4. ASSUME NEW p \in Proc, commit(p) PROVE Header'
  <2>1. ~At(Installing) /\ ~At(Installing)'
    BY <1>t, <1>u, <1>4 DEF commit, At, Installing, CommitPc
  <2> QED
    BY <2>1, <1>4 DEF commit, diskvars, cachevars, Header, Installed
<1>5. ASSUME NEW p \in Proc, write_log(p) PROVE Header'
  <2>1. At(Installing)' <=> At(Installing)
    BY <1>t, <1>5 DEF write_log, At, Installing
  <2>2. lh[tail + 1] \in Block /\ logd[tail + 1] \in Data \cup {Torn}
    BY <1>5, NextSlot DEF write_log
  <2>3. BufData(lh[tail + 1]) # None
    BY <1>b, <2>2
  <2>4. /\ UNCHANGED <<lh, hdr, pin, tail, boot>>
        /\ cache' = [cache EXCEPT ![lh[tail + 1]] = BufData(lh[tail + 1])]
    BY <1>5 DEF write_log, logvars
  <2>5. \A c \in Block : cache[c] # None => cache'[c] # None
    BY <1>t, <2>3, <2>4
  <2> QED
    BY <1>k, <2>1, <2>4, <2>5
<1>6. ASSUME NEW p \in Proc, write_log_io(p) PROVE Header'
  <2>1. ~At(Installing) /\ ~At(Installing)'
    BY <1>t, <1>u, <1>6 DEF write_log_io, At, Installing, CommitPc
  <2> QED
    BY <2>1, <1>6 DEF write_log_io, Header, Installed
<1>7. ASSUME NEW p \in Proc, write_head(p) PROVE Header'
  <2>1. ~At(Installing)
    BY <1>u, <1>7 DEF write_head, At, Installing, CommitPc
  <2>2. tail' = 0 /\ \A i \in DOMAIN lh : ~Installed(i) /\ ~Installed(i)'
    BY <1>t, <2>1, <1>7 DEF write_head, Installed
  <2> QED
    BY <2>2, <1>7 DEF write_head, cachevars, Header
<1>8. ASSUME NEW p \in Proc, install_trans(p) PROVE Header'
  <2>1. At(Installing)' <=> At(Installing)
    BY <1>t, <1>8 DEF install_trans, At, Installing
  <2>2. lh[tail + 1] \in Block /\ logd[tail + 1] \in Data \cup {Torn}
    BY <1>8, NextSlot DEF install_trans
  <2>3. logd[tail + 1] # None
    BY <1>n, <2>2
  <2>4. /\ UNCHANGED <<lh, hdr, pin, tail, boot>>
        /\ cache' = [cache EXCEPT ![lh[tail + 1]] = logd[tail + 1]]
    BY <1>8 DEF install_trans, logvars
  <2>5. \A c \in Block : cache[c] # None => cache'[c] # None
    BY <1>t, <2>3, <2>4
  <2> QED
    BY <1>k, <2>1, <2>4, <2>5
<1>9. ASSUME NEW p \in Proc, install_io(p) PROVE Header'
  <2> DEFINE n == tail + 1
  <2>1. /\ At(Installing) /\ At(Installing)'
        /\ boot = "up" /\ UNCHANGED <<boot, lh, hdr, cache>>
        /\ tail' = n /\ pin' = [pin EXCEPT ![lh[n]] = @ - 1]
    BY <1>t, <1>9 DEF install_io, At, Installing, Bunpin
  <2>0. tail < Len(lh)
    BY <1>9 DEF install_io, Locks, Transfer
  <2>2. n \in DOMAIN lh /\ lh[n] \in Block
    BY <2>0, NextSlot
  <2>3. \A i \in DOMAIN lh : i \in Nat /\ (Installed(i) <=> i <= tail) /\ (Installed(i)' <=> i <= n)
    BY <1>t, <2>1 DEF Installed
  <2>4. \A i \in DOMAIN lh : lh[i] = lh[n] => i = n
    BY <2>2 DEF Header, IsInjective
  <2>5. ASSUME NEW b \in Block
        PROVE  pin'[b] = IF \E i \in DOMAIN lh : lh[i] = b /\ ~Installed(i)' THEN 1 ELSE 0
    <3>1. CASE b = lh[n]
      <4>1. pin[b] = 1
        BY <1>t, <2>1, <2>2, <2>3, <3>1 DEF Header
      <4>2. ~\E i \in DOMAIN lh : lh[i] = b /\ ~Installed(i)'
        BY <2>2, <2>3, <2>4, <3>1
      <4> QED
        BY <1>t, <2>1, <3>1, <4>1, <4>2
    <3>2. CASE b # lh[n]
      <4>1. \A i \in DOMAIN lh : lh[i] = b => (Installed(i)' <=> Installed(i))
        BY <1>t, <2>2, <2>3, <3>2
      <4> QED
        BY <1>t, <2>1, <3>2, <4>1 DEF Header
    <3> QED
      BY <3>1, <3>2
  <2>6. \A b \in Block : pin'[b] # 0 => pin[b] # 0
    BY <1>t, <2>1, <2>2, <2>3 DEF Header
  <2> QED
    BY <2>1, <2>5, <2>6 DEF Header
<1>10. ASSUME NEW p \in Proc, reset_head(p) PROVE Header'
  <2>1. \A i \in DOMAIN lh : Installed(i)
    BY <1>t, <1>10 DEF reset_head, Installed, At, Installing
  <2>2. boot = "up" /\ boot' = "up" /\ UNCHANGED <<pin, cache, hdr>> /\ lh' = <<>>
    BY <1>10 DEF reset_head, cachevars, diskvars
  <2>3. \A b \in Block : pin[b] = 0
    BY <2>1, <2>2 DEF Header
  <2>4. \A i \in DOMAIN lh' : FALSE
    BY <2>2
  <2>5. IsInjective(lh') /\ Len(lh') <= LogBlocks - 1
    BY <1>e, <2>2
  <2>6. IsInjective(hdr') /\ Len(hdr') <= LogBlocks - 1
    BY <2>2 DEF Header
  <2> QED
    BY <2>2, <2>3, <2>4, <2>5, <2>6 DEF Header
<1>11. ASSUME NEW p \in Proc, clear_head(p) PROVE Header'
  <2>1. At(Installing)' <=> At(Installing)
    BY <1>t, <1>11 DEF clear_head, At, Installing
  <2>2. UNCHANGED <<lh, pin, tail, boot, cache>> /\ hdr' = lh
    BY <1>11 DEF clear_head, cachevars, logvars
  <2>3. \A i : Installed(i)' <=> Installed(i)
    BY <2>1, <2>2 DEF Installed
  <2> QED
    BY <2>1, <2>2, <2>3 DEF Header
<1>12. ASSUME NEW p \in Proc, end_commit(p) PROVE Header'
  <2>1. At(Installing)' <=> At(Installing)
    BY <1>t, <1>12 DEF end_commit, Wakeup, At, Installing
  <2>2. UNCHANGED <<lh, hdr, pin, tail, boot, cache>>
    BY <1>12 DEF end_commit, diskvars, cachevars
  <2> QED
    BY <1>k, <2>1, <2>2
<1>13. ASSUME NEW p \in Proc, Brelse(p) PROVE Header'
  <2>1. At(Installing)' <=> At(Installing)
    BY <1>t, <1>13 DEF Brelse, At, Installing
  <2>2. UNCHANGED <<lh, hdr, pin, tail, boot, cache>>
    BY <1>13 DEF Brelse, diskvars, logvars
  <2> QED
    BY <1>k, <2>1, <2>2
<1>14. ASSUME NEW p \in Proc, NEW b \in Block, Read(p, b) PROVE Header'
  <2>1. At(Installing)' <=> At(Installing)
    BY <1>t, <1>14 DEF Read, At, Installing
  <2>2. b \in Block
    OBVIOUS
  <2>3. BufData(b) # None
    BY <1>b, <2>2
  <2>4. /\ UNCHANGED <<lh, hdr, pin, tail, boot>>
        /\ cache' = [cache EXCEPT ![b] = BufData(b)]
    BY <1>14 DEF Read, diskvars, logvars
  <2>5. \A c \in Block : cache[c] # None => cache'[c] # None
    BY <1>t, <2>3, <2>4
  <2> QED
    BY <1>k, <2>1, <2>4, <2>5
<1>15. ASSUME NEW p \in Proc, NEW b \in Block, NEW d \in Data, Modify(p, b, d) PROVE Header'
  <2>1. At(Installing)' <=> At(Installing)
    BY <1>t, <1>15 DEF Modify, At, Installing
  <2>2. b \in Block /\ d \in Data
    OBVIOUS
  <2>3. d # None
    BY <1>n, <2>2
  <2>4. /\ UNCHANGED <<lh, hdr, pin, tail, boot>>
        /\ cache' = [cache EXCEPT ![b] = d]
    BY <1>15 DEF Modify, diskvars, logvars
  <2>5. \A c \in Block : cache[c] # None => cache'[c] # None
    BY <1>t, <2>3, <2>4
  <2> QED
    BY <1>k, <2>1, <2>4, <2>5
<1>16. ASSUME NEW b \in Block, Evict(b) PROVE Header'
  <2>1. /\ UNCHANGED <<lh, hdr, pin, tail, boot, pc>>
        /\ cache' = [cache EXCEPT ![b] = None] /\ pin[b] = 0
    BY <1>16 DEF Evict, diskvars, logvars, procvars
  <2>2. \A i : Installed(i)' <=> Installed(i)
    BY <2>1 DEF Installed, At
  <2>3. \A c \in Block : pin'[c] # 0 => cache'[c] # None
    BY <1>t, <2>1 DEF Header
  <2> QED
    BY <2>1, <2>2, <2>3 DEF Header
<1>17. CASE read_head
  BY <1>t, <1>17 DEF read_head, diskvars, cachevars, Header
<1>18. CASE recover_install
  BY <1>t, <1>18 DEF recover_install, logvars, Header
<1>19. CASE recover_install_io
  BY <1>t, <1>19 DEF recover_install_io, cachevars, Header
<1>20. CASE recover_reset
  BY <1>e, <1>20 DEF recover_reset, diskvars, cachevars, Header
<1>21. CASE recover_clear
  BY <1>e, <1>21 DEF recover_clear, cachevars, logvars, Header, Phases, Booting
<1>22. CASE Crash
  BY <1>e, <1>22 DEF Crash, diskvars, Header
<1>23. CASE UNCHANGED vars
  <2>1. UNCHANGED <<lh, hdr, pin, tail, boot, cache, pc>>
    BY <1>23 DEF vars, diskvars, cachevars, logvars, procvars
  <2>2. At(Installing)' <=> At(Installing)
    BY <2>1 DEF At
  <2> QED
    BY <1>k, <2>1, <2>2
<1> QED
  BY <1>1, <1>2, <1>3, <1>4, <1>5, <1>6, <1>7, <1>8, <1>9, <1>10, <1>11, <1>12, <1>13, <1>14,
     <1>15, <1>16, <1>17, <1>18, <1>19, <1>20, <1>21, <1>22, <1>23
     DEF Next, Committer, Recovery

(***************************************************************************)
(* Types.                                                                  *)
(***************************************************************************)
LEMMA TypeStep == IInv /\ [Next]_vars => TypeOK'
<1> SUFFICES ASSUME TypeOK, Control, Locks, Header, Phases, [Next]_vars PROVE TypeOK'
  BY DEF IInv
<1> USE DEF Goto, Running
<1>n. None \notin Data \cup {Torn} /\ None \notin Proc
  BY LogAssumption DEF LogAssumption
<1>b. \A b \in Block : BufData(b) \in Data \cup {Torn}
  BY <1>n, Zenon DEF BufData, TypeOK
<1>c. cache \in [Block -> Data \cup {Torn, None}] /\ tail \in Nat /\ lh \in Seq(Block)
  BY Zenon DEF TypeOK
<1>o. pc \in [Proc -> PC] /\ outstanding \in Nat
  BY Zenon DEF TypeOK
<1>p. pin \in [Block -> Nat] /\ used \in [Proc -> SUBSET Block]
  BY Zenon DEF TypeOK
<1>d. /\ logd \in [Slots -> Data \cup {Torn}] /\ home \in [Block -> Data \cup {Torn}]
      /\ holder \in [Block -> Proc \cup {None}]
  BY Zenon DEF TypeOK
<1>1. ASSUME NEW p \in Proc, begin_op(p) PROVE TypeOK'
  <2>1. pc' \in [Proc -> PC] /\ outstanding' \in Nat
    BY <1>o, <1>1 DEF begin_op, PC, CommitPc, InOp
  <2> QED
    BY <2>1, <1>1 DEF begin_op, cachevars, diskvars, TypeOK
<1>2. ASSUME NEW p \in Proc, log_write(p) PROVE TypeOK'
  <2>1. cur[p] \in Block
    BY <1>2 DEF log_write, Locks, HoldsBuffer
  <2>2. lh' \in Seq(Block)
    BY <1>c, <2>1, <1>2 DEF log_write
  <2>3. pin' \in [Block -> Nat] /\ pc' \in [Proc -> PC] /\ used' \in [Proc -> SUBSET Block]
    BY <1>o, <1>p, <2>1, <1>2 DEF log_write, Bpin, PC, CommitPc, InOp
  <2>4. panicked' \in {"no", "too big a transaction", "log_write outside of trans"}
    BY <1>2, Zenon DEF log_write, LogWritePanic
  <2> QED
    BY <2>2, <2>3, <2>4, <1>2, Zenon DEF log_write, diskvars, TypeOK
<1>3. ASSUME NEW p \in Proc, end_op(p) PROVE TypeOK'
  <2>1. outstanding - 1 \in Nat
    <3>1. Active # {}
      BY <1>3, Zenon DEF end_op, Active, InOp
    <3> QED
      BY <3>1, ActiveFinite, FS_EmptySet, FS_CardinalityType DEF Control
  <2> QED
    BY <2>1, <1>3, Zenon DEF end_op, Wakeup, cachevars, diskvars, TypeOK, PC, CommitPc, InOp
<1>4. ASSUME NEW p \in Proc, commit(p) PROVE TypeOK'
  BY <1>n, <1>b, <1>4 DEF commit, cachevars, diskvars, TypeOK, PC, Boot, CommitPc, InOp
<1>5. ASSUME NEW p \in Proc, write_log(p) PROVE TypeOK'
  <2>1. lh[tail + 1] \in Block
    BY <1>5, NextSlot DEF write_log
  <2> QED
    BY <1>b, <2>1, <1>5, Zenon DEF write_log, Bread, logvars, TypeOK, PC, CommitPc, InOp
<1>6. ASSUME NEW p \in Proc, write_log_io(p) PROVE TypeOK'
  <2>1. tail < Len(lh) /\ holder[lh[tail + 1]] = p
    BY <1>6 DEF write_log_io, Locks, Transfer
  <2>2. cache[lh[tail + 1]] \in Data \cup {Torn}
    BY <1>n, <1>c, <2>1, NextSlot DEF Locks
  <2>3. /\ pc' \in [Proc -> PC] /\ logd' \in [Slots -> Data \cup {Torn}]
        /\ holder' \in [Block -> Proc \cup {None}] /\ tail' \in Nat
    <3> DEFINE b == lh[tail + 1]  v == cache[b]
    <3>1. /\ logd' = [logd EXCEPT ![tail + 1] = v] /\ holder' = [holder EXCEPT ![b] = None]
          /\ tail' = tail + 1 /\ pc' = [pc EXCEPT ![p] = "write_log"]
      BY <1>6 DEF write_log_io
    <3>2. v \in Data \cup {Torn}
      BY <2>2
    <3> HIDE DEF b, v
    <3>3. logd' \in [Slots -> Data \cup {Torn}]
      BY <1>d, <3>1, <3>2, Zenon
    <3>4. holder' \in [Block -> Proc \cup {None}]
      BY <1>d, <3>1, Zenon
    <3> QED
      BY <1>c, <1>o, <3>1, <3>3, <3>4 DEF PC, CommitPc
  <2> QED
    BY <2>3, <1>6 DEF write_log_io, TypeOK
<1>7. ASSUME NEW p \in Proc, write_head(p) PROVE TypeOK'
  BY <1>n, <1>b, <1>7 DEF write_head, cachevars, TypeOK, PC, Boot, CommitPc, InOp
<1>8. ASSUME NEW p \in Proc, install_trans(p) PROVE TypeOK'
  <2>1. lh[tail + 1] \in Block /\ logd[tail + 1] \in Data \cup {Torn}
    BY <1>8, NextSlot DEF install_trans
  <2> QED
    BY <2>1, <1>8 DEF install_trans, Bread, logvars, TypeOK, PC, CommitPc, InOp
<1>9. ASSUME NEW p \in Proc, install_io(p) PROVE TypeOK'
  <2> DEFINE b == lh[tail + 1]
  <2>1. tail < Len(lh) /\ holder[b] = p
    BY <1>9 DEF install_io, Locks, Transfer
  <2>2. b \in Block /\ tail + 1 \in DOMAIN lh
    BY <2>1, NextSlot
  <2>5. cache[b] \in Data \cup {Torn}
    BY <1>n, <1>c, <2>1, <2>2 DEF Locks
  <2>3. ~Installed(tail + 1)
    BY <1>c DEF Installed
  <2>4. pin[b] = 1
    BY <2>2, <2>3, <1>9 DEF install_io, Header
  <2>6. /\ home' = [home EXCEPT ![b] = cache[b]] /\ pin' = [pin EXCEPT ![b] = @ - 1]
        /\ holder' = [holder EXCEPT ![b] = None] /\ tail' = tail + 1
        /\ pc' = [pc EXCEPT ![p] = "install"]
        /\ UNCHANGED <<logd, hdr, cache, lh, outstanding, committing, cur, used, boot, panicked>>
    BY <1>9 DEF install_io, Bunpin
  <2> HIDE DEF b
  <2>7. home' \in [Block -> Data \cup {Torn}]
    BY <1>d, <2>5, <2>6, Zenon
  <2>8. pin' \in [Block -> Nat]
    BY <1>p, <2>2, <2>4, <2>6
  <2>9. holder' \in [Block -> Proc \cup {None}]
    BY <1>d, <2>6, Zenon
  <2>10. pc' \in [Proc -> PC] /\ tail' \in Nat
    BY <1>c, <1>o, <2>6 DEF PC, CommitPc
  <2> QED
    BY <2>6, <2>7, <2>8, <2>9, <2>10, Zenon DEF TypeOK
<1>10. ASSUME NEW p \in Proc, reset_head(p) PROVE TypeOK'
  <2>1. lh' \in Seq(Block) /\ pc' \in [Proc -> PC]
    BY <1>o, <1>10 DEF reset_head, PC, CommitPc
  <2> QED
    BY <2>1, <1>10 DEF reset_head, diskvars, cachevars, TypeOK
<1>11. ASSUME NEW p \in Proc, clear_head(p) PROVE TypeOK'
  BY <1>n, <1>b, <1>11 DEF clear_head, cachevars, logvars, TypeOK, PC, Boot, CommitPc, InOp
<1>12. ASSUME NEW p \in Proc, end_commit(p) PROVE TypeOK'
  BY <1>n, <1>b, <1>12, Zenon DEF end_commit, Wakeup, diskvars, cachevars, TypeOK, PC, Boot,
     CommitPc, InOp
<1>13. ASSUME NEW p \in Proc, Brelse(p) PROVE TypeOK'
  BY <1>n, <1>b, <1>13, Zenon DEF Brelse, diskvars, logvars, TypeOK, PC, Boot, CommitPc, InOp
<1>14. ASSUME NEW p \in Proc, NEW b \in Block, Read(p, b) PROVE TypeOK'
  BY <1>n, <1>b, <1>14 DEF Read, Bread, diskvars, logvars, TypeOK, PC, Boot, CommitPc, InOp
<1>15. ASSUME NEW p \in Proc, NEW b \in Block, NEW d \in Data, Modify(p, b, d) PROVE TypeOK'
  BY <1>n, <1>b, <1>15 DEF Modify, Bread, diskvars, logvars, TypeOK, PC, Boot, CommitPc, InOp
<1>16. ASSUME NEW b \in Block, Evict(b) PROVE TypeOK'
  BY <1>n, <1>b, <1>16 DEF Evict, diskvars, logvars, procvars, TypeOK, PC, Boot, CommitPc, InOp
<1>17. CASE read_head
  BY <1>n, <1>b, <1>17, Zenon DEF read_head, diskvars, cachevars, procvars, TypeOK, PC, Boot,
     CommitPc, InOp
<1>18. CASE recover_install
  <2>1. lh[tail + 1] \in Block /\ logd[tail + 1] \in Data \cup {Torn}
    BY <1>18, NextSlot DEF recover_install
  <2> QED
    BY <2>1, <1>18, Zenon DEF recover_install, logvars, procvars, TypeOK, Boot
<1>19. CASE recover_install_io
  <2>1. tail < Len(lh) /\ cache[lh[tail + 1]] = logd[tail + 1]
    BY <1>19 DEF recover_install_io, Phases, Booting
  <2>2. cache[lh[tail + 1]] \in Data \cup {Torn}
    BY <2>1, NextSlot
  <2>3. home' \in [Block -> Data \cup {Torn}] /\ tail' \in Nat /\ boot' \in Boot
    <3> DEFINE b == lh[tail + 1]  v == cache[b]
    <3>1. home' = [home EXCEPT ![b] = v] /\ tail' = tail + 1 /\ boot' = "install"
      BY <1>19 DEF recover_install_io
    <3>2. v \in Data \cup {Torn}
      BY <2>2
    <3> HIDE DEF b, v
    <3>3. home' \in [Block -> Data \cup {Torn}]
      BY <1>d, <3>1, <3>2, Zenon
    <3> QED
      BY <1>c, <3>1, <3>3 DEF Boot
  <2> QED
    BY <2>3, <1>19, Zenon DEF recover_install_io, cachevars, procvars, TypeOK
<1>20. CASE recover_reset
  <2>1. boot' \in Boot /\ lh' \in Seq(Block)
    BY <1>20 DEF recover_reset, Boot
  <2> QED
    BY <2>1, <1>20, Zenon DEF recover_reset, diskvars, cachevars, procvars, TypeOK
<1>21. CASE recover_clear
  BY <1>n, <1>b, <1>21, Zenon DEF recover_clear, cachevars, logvars, TypeOK, PC, Boot, CommitPc, InOp
<1>22. CASE Crash
  <2>1. /\ boot' \in Boot /\ lh' \in Seq(Block) /\ pc' \in [Proc -> PC]
        /\ cache' \in [Block -> Data \cup {Torn, None}] /\ pin' \in [Block -> Nat]
        /\ holder' \in [Block -> Proc \cup {None}] /\ cur' \in [Proc -> Block \cup {None}]
        /\ used' \in [Proc -> SUBSET Block]
    BY <1>22 DEF Crash, Boot, PC
  <2> QED
    BY <2>1, <1>22, Zenon DEF Crash, diskvars, TypeOK
<1>23. CASE UNCHANGED vars
  BY <1>n, <1>b, <1>23, Zenon DEF vars, diskvars, cachevars, logvars, procvars, TypeOK, PC, Boot,
     CommitPc, InOp
<1> QED
  BY <1>1, <1>2, <1>3, <1>4, <1>5, <1>6, <1>7, <1>8, <1>9, <1>10, <1>11, <1>12, <1>13, <1>14,
     <1>15, <1>16, <1>17, <1>18, <1>19, <1>20, <1>21, <1>22, <1>23
     DEF Next, Committer, Recovery
=============================================================================
