---------------------------- MODULE BcacheProofs ----------------------------
(***************************************************************************)
(* What holds of Bcache for every value of its constants: the counts and   *)
(* locks of buffers agree with their users (BuffersInOrder), and the cache *)
(* is transparent (it implements Blocks).                                  *)
(*                                                                         *)
(* The argument: a process that is past bget() keeps its buffer from being *)
(* recycled, because refcnt counts it, so the buffer still has the block   *)
(* when the process gets the lock.  A buffer nobody refers to has what is  *)
(* on the disk, because whoever changes one pins it before releasing it:   *)
(* recycling loses nothing.                                                *)
(***************************************************************************)
EXTENDS Bcache, FiniteSetTheorems, TLAPS

Users(i) == {p \in Proc : b[p] = i}
Pinned(i) == IF blockno[i] \in pinned THEN 1 ELSE 0
HasLock == {"filling", "hold"}

\* A process in bread()..brelse() has a buffer of the block it asked for, also while it
\* waits for the lock.
Places ==
    \A p \in Proc :
        /\ pc[p] = "idle" => b[p] = None /\ ask[p] = None
        /\ pc[p] # "idle" => b[p] \in Buf /\ ask[p] \in Block /\ blockno[b[p]] = ask[p]

\* The lock's holder is the process that is between acquiresleep() and releasesleep().
Locks ==
    /\ \A p \in Proc : /\ pc[p] \in HasLock => locked[b[p]] = p
                       /\ pc[p] = "hold" => valid[b[p]]
                       /\ pc[p] = "filling" => ~valid[b[p]]
                       /\ pc[p] = "asleep" => locked[b[p]] # None
    /\ \A i \in Buf : locked[i] # None => b[locked[i]] = i /\ pc[locked[i]] \in HasLock

Distinct == \A i, j \in Buf : blockno[i] = blockno[j] /\ blockno[i] # None => i = j

\* A block that the log has pinned is cached.
Pins == \A k \in pinned : Cached(k) # {}

\* A buffer that nobody has locked or pinned is equal to its block.
Clean ==
    \A i \in Buf : valid[i] =>
        /\ blockno[i] \in Block /\ data[i] \in Data
        /\ locked[i] = None /\ blockno[i] \notin pinned => data[i] = platter[blockno[i]]

IInv == TypeOK /\ Places /\ Locks /\ Distinct /\ RefcntExact /\ Pins /\ Clean

(***************************************************************************)
(* Facts about the constants and about counting.                           *)
(***************************************************************************)
LEMMA NoneIsNew == None \notin Proc /\ None \notin Buf /\ None \notin Block /\ None \notin Data
BY BcacheAssumption DEF BcacheAssumption

LEMMA UsersFinite == \A i : IsFiniteSet(Users(i)) /\ Cardinality(Users(i)) \in Nat
<1> SUFFICES ASSUME NEW i PROVE IsFiniteSet(Users(i)) /\ Cardinality(Users(i)) \in Nat
  OBVIOUS
<1>1. Users(i) \subseteq Proc /\ IsFiniteSet(Proc)
  BY BcacheAssumption DEF Users, BcacheAssumption
<1>2. IsFiniteSet(Users(i))
  BY <1>1, FS_Subset
<1> QED
  BY <1>2, FS_CardinalityType

\* refcnt in terms of Users and Pinned.
LEMMA Counts == RefcntExact <=> \A i \in Buf : refcnt[i] = Cardinality(Users(i)) + Pinned(i)
BY DEF RefcntExact, Users, Pinned

\* A buffer that some process is using has a reference.
LEMMA UsedIsCounted ==
  ASSUME IInv, NEW p \in Proc, b[p] \in Buf
  PROVE  refcnt[b[p]] >= 1 /\ Cardinality(Users(b[p])) >= 1
<1>1. Users(b[p]) # {}
  BY DEF Users
<1>2. Cardinality(Users(b[p])) # 0
  BY <1>1, UsersFinite, FS_EmptySet
<1>3. Pinned(b[p]) \in Nat
  BY DEF Pinned
<1> QED
  BY <1>2, <1>3, UsersFinite, Counts DEF IInv

\* A buffer without references: nobody uses it, nobody has it locked, it is not pinned.
LEMMA UnusedIsFree ==
  ASSUME IInv, NEW i \in Buf, Unused(i)
  PROVE  Users(i) = {} /\ locked[i] = None /\ blockno[i] \notin pinned
<1>1. Pinned(i) \in Nat /\ Cardinality(Users(i)) \in Nat
  BY UsersFinite DEF Pinned
<1>2. Pinned(i) = 0 /\ Cardinality(Users(i)) = 0
  BY <1>1, Counts DEF IInv, Unused
<1>3. Users(i) = {}
  BY <1>2, UsersFinite, FS_EmptySet
<1>4. locked[i] = None
  BY <1>3 DEF IInv, TypeOK, Locks, Users
<1> QED
  BY <1>2, <1>3, <1>4 DEF Pinned

\* The buffer that bget() recycles.
LEMMA VictimIs ==
  ASSUME IInv, NEW n \in Victims
  PROVE  list[n] \in Buf /\ Unused(list[n])
BY DEF IInv, TypeOK, Victims

(***************************************************************************)
(* The invariant holds initially.                                          *)
(***************************************************************************)
LEMMA IInvInit == Init => IInv
<1> SUFFICES ASSUME Init PROVE IInv
  OBVIOUS
<1>1. TypeOK
  <2>1. list \in [1 .. Cardinality(Buf) -> Buf]
    BY DEF Init
  <2> QED
    BY <2>1, Zenon DEF Init, TypeOK, PC
<1>2. Places /\ Locks /\ Distinct /\ Pins /\ Clean
  BY NoneIsNew DEF Init, Places, Locks, Distinct, Pins, Clean, HasLock
<1>3. RefcntExact
  <2> SUFFICES ASSUME NEW i \in Buf PROVE refcnt[i] = Cardinality(Users(i)) + Pinned(i)
    BY Counts
  <2>1. Users(i) = {}
    BY NoneIsNew DEF Init, Users
  <2>2. refcnt[i] = 0 /\ Pinned(i) = 0
    BY DEF Init, Pinned
  <2> QED
    BY <2>1, <2>2, FS_EmptySet
<1> QED
  BY <1>1, <1>2, <1>3 DEF IInv

(***************************************************************************)
(* Every step preserves it, one conjunct at a time.                        *)
(***************************************************************************)
LEMMA TypeStep == IInv /\ [Next]_vars => TypeOK'
<1> SUFFICES ASSUME IInv, [Next]_vars PROVE TypeOK'
  OBVIOUS
<1> USE DEF Goto, PC
<1>t. TypeOK
  BY DEF IInv
<1>1. ASSUME NEW p \in Proc, NEW k \in Block, bget_cached(p, k) PROVE TypeOK'
  BY <1>t, <1>1 DEF bget_cached, Cached, TypeOK
<1>2. ASSUME NEW p \in Proc, NEW k \in Block, bget_recycle(p, k) PROVE TypeOK'
  <2>1. PICK n \in Victims : /\ blockno' = [blockno EXCEPT ![list[n]] = k]
                             /\ valid' = [valid EXCEPT ![list[n]] = FALSE]
                             /\ refcnt' = [refcnt EXCEPT ![list[n]] = 1]
                             /\ b' = [b EXCEPT ![p] = list[n]]
    BY <1>2, Zenon DEF bget_recycle
  <2> QED
    BY <1>t, <1>2, <2>1, VictimIs DEF bget_recycle, TypeOK
<1>3. ASSUME NEW p \in Proc, NEW k \in Block, bget_panic(p, k) PROVE TypeOK'
  BY <1>t, <1>3 DEF bget_panic, bufvars, TypeOK
<1>4. ASSUME NEW p \in Proc, acquiresleep(p) PROVE TypeOK'
  BY <1>t, <1>4, Zenon DEF acquiresleep, bufvars, TypeOK
<1>5. ASSUME NEW p \in Proc, kill(p) PROVE TypeOK'
  BY <1>t, <1>5 DEF kill, bufvars, TypeOK
<1>6. ASSUME NEW p \in Proc, bread(p) PROVE TypeOK'
  <2>1. FillFrom(p) \in Data
    BY <1>t, <1>6 DEF bread, FillFrom, IInv, Places, TypeOK
  <2> QED
    BY <1>t, <1>6, <2>1, Zenon DEF bread, TypeOK
<1>7. ASSUME NEW p \in Proc, bwrite(p) PROVE TypeOK'
  <2>1. data[b[p]] \in Data
    BY <1>7 DEF bwrite, IInv, Places, Locks, Clean
  <2> QED
    BY <1>t, <1>7, <2>1, Zenon DEF bwrite, bufvars, TypeOK
<1>8. ASSUME NEW p \in Proc, bpin(p) PROVE TypeOK'
  <2>1. ask[p] \in Block /\ b[p] \in Buf
    BY <1>8 DEF bpin, IInv, Places
  <2>2. refcnt' \in [Buf -> Nat] /\ pinned' \subseteq Block
    BY <1>t, <1>8, <2>1 DEF bpin, Pin, TypeOK
  <2> QED
    BY <1>t, <1>8, <2>2 DEF bpin, TypeOK
<1>9. ASSUME NEW p \in Proc, bunpin(p) PROVE TypeOK'
  <2>1. b[p] \in Buf
    BY <1>9 DEF bunpin, IInv, Places
  <2>2. refcnt[b[p]] - 1 \in Nat
    BY <1>t, <2>1, UsedIsCounted DEF TypeOK
  <2> QED
    BY <1>t, <1>9, <2>2, Zenon DEF bunpin, TypeOK
<1>10. ASSUME NEW p \in Proc, brelse(p) PROVE TypeOK'
  BY <1>t, <1>10, Zenon DEF brelse, Wakeup, bufvars, TypeOK
<1>11. ASSUME NEW p \in Proc, brelse_ref(p) PROVE TypeOK'
  <2>1. b[p] \in Buf
    BY <1>11 DEF brelse_ref, IInv, Places
  <2>2. refcnt[b[p]] - 1 \in Nat
    BY <1>t, <2>1, UsedIsCounted DEF TypeOK
  <2>3. ToFront(b[p]) \in [1 .. Cardinality(Buf) -> Buf]
    <3>1. Cardinality(Buf) \in Nat
      BY FS_CardinalityType, BcacheAssumption DEF BcacheAssumption
    <3> DEFINE n == CHOOSE n \in DOMAIN list : list[n] = b[p]
    <3>2. ASSUME NEW m \in 1 .. Cardinality(Buf)
          PROVE  (IF m = 1 THEN b[p] ELSE IF m <= n THEN list[m - 1] ELSE list[m]) \in Buf
      <4>1. m # 1 => m - 1 \in 1 .. Cardinality(Buf)
        BY <3>1
      <4> HIDE DEF n
      <4> QED
        BY <1>t, <2>1, <4>1, Zenon DEF TypeOK
    <3> HIDE DEF n
    <3>3. ToFront(b[p]) = [m \in 1 .. Cardinality(Buf) |->
                            IF m = 1 THEN b[p] ELSE IF m <= n THEN list[m - 1] ELSE list[m]]
      BY <1>t DEF ToFront, TypeOK, n
    <3> QED
      BY <3>2, <3>3
  <2>4. list' \in [1 .. Cardinality(Buf) -> Buf]
    BY <1>t, <1>11, <2>3 DEF brelse_ref, TypeOK
  <2> QED
    BY <1>t, <1>11, <2>2, <2>4, Zenon DEF brelse_ref, Dropped, TypeOK
<1>12. ASSUME NEW p \in Proc, NEW d \in Data, Modify(p, d) PROVE TypeOK'
  BY <1>t, <1>12, Zenon DEF Modify, bufvars, TypeOK
<1>13. CASE UNCHANGED vars
  BY <1>t, <1>13 DEF vars, bufvars, TypeOK
<1> QED
  BY <1>1, <1>2, <1>3, <1>4, <1>5, <1>6, <1>7, <1>8, <1>9, <1>10, <1>11, <1>12, <1>13 DEF Next, panic

LEMMA PlacesStep == IInv /\ [Next]_vars => Places'
<1> SUFFICES ASSUME IInv, [Next]_vars PROVE Places'
  OBVIOUS
<1> USE DEF Goto, Places
<1>t. /\ pc \in [Proc -> PC] /\ b \in [Proc -> Buf \cup {None}] /\ ask \in [Proc -> Block \cup {None}]
      /\ blockno \in [Buf -> Block \cup {None}]
  BY DEF IInv, TypeOK
<1>i. Places
  BY DEF IInv
<1>1. ASSUME NEW p \in Proc, NEW k \in Block, bget_cached(p, k) PROVE Places'
  BY <1>t, <1>i, <1>1 DEF bget_cached, Cached
<1>2. ASSUME NEW p \in Proc, NEW k \in Block, bget_recycle(p, k) PROVE Places'
  <2>1. PICK n \in Victims : /\ blockno' = [blockno EXCEPT ![list[n]] = k]
                             /\ b' = [b EXCEPT ![p] = list[n]]
    BY <1>2, Zenon DEF bget_recycle
  <2>2. list[n] \in Buf /\ \A q \in Proc : b[q] # list[n]
    BY VictimIs, UnusedIsFree DEF Users
  <2> QED
    BY <1>t, <1>i, <1>2, <2>1, <2>2 DEF bget_recycle
<1>3. ASSUME NEW p \in Proc, acquiresleep(p) \/ kill(p) PROVE Places'
  BY <1>t, <1>i, <1>3 DEF acquiresleep, kill, bufvars
<1>4. ASSUME NEW p \in Proc, bread(p) PROVE Places'
  BY <1>t, <1>i, <1>4 DEF bread
<1>5. ASSUME NEW p \in Proc, bpin(p) \/ bunpin(p) \/ bwrite(p) PROVE Places'
  BY <1>t, <1>i, <1>5 DEF bpin, bunpin, bwrite, bufvars
<1>6. ASSUME NEW p \in Proc, brelse(p) PROVE Places'
  BY <1>t, <1>i, <1>6 DEF brelse, Wakeup, bufvars
<1>7. ASSUME NEW p \in Proc, brelse_ref(p) PROVE Places'
  BY <1>t, <1>i, <1>7 DEF brelse_ref
<1>8. ASSUME NEW p \in Proc, NEW x, bget_panic(p, x) \/ Modify(p, x) PROVE Places'
  BY <1>t, <1>i, <1>8 DEF bget_panic, Modify, bufvars
<1>9. CASE UNCHANGED vars
  BY <1>i, <1>9 DEF vars, bufvars
<1> QED
  BY <1>1, <1>2, <1>3, <1>4, <1>5, <1>6, <1>7, <1>8, <1>9 DEF Next, panic

LEMMA LocksStep == IInv /\ [Next]_vars => Locks'
<1> SUFFICES ASSUME IInv, [Next]_vars PROVE Locks'
  OBVIOUS
<1> USE DEF Goto, Locks, HasLock
<1>t. /\ pc \in [Proc -> PC] /\ b \in [Proc -> Buf \cup {None}] /\ valid \in [Buf -> BOOLEAN]
      /\ locked \in [Buf -> Proc \cup {None}]
  BY DEF IInv, TypeOK
<1>i. Locks /\ \A p \in Proc : pc[p] # "idle" => b[p] \in Buf
  BY DEF IInv, Places
<1>1. ASSUME NEW p \in Proc, NEW k \in Block, bget_cached(p, k) PROVE Locks'
  BY <1>t, <1>i, <1>1 DEF bget_cached, Cached
<1>2. ASSUME NEW p \in Proc, NEW k \in Block, bget_recycle(p, k) PROVE Locks'
  <2>1. PICK n \in Victims : /\ valid' = [valid EXCEPT ![list[n]] = FALSE]
                             /\ b' = [b EXCEPT ![p] = list[n]]
    BY <1>2, Zenon DEF bget_recycle
  <2>2. list[n] \in Buf /\ \A q \in Proc : b[q] # list[n]
    BY VictimIs, UnusedIsFree DEF Users
  <2> QED
    BY <1>t, <1>i, <1>2, <2>1, <2>2 DEF bget_recycle
<1>3. ASSUME NEW p \in Proc, acquiresleep(p) PROVE Locks'
  <2>1. b[p] \in Buf /\ p # None
    BY <1>i, <1>3, NoneIsNew DEF acquiresleep
  <2>2. CASE locked[b[p]] # None
    BY <1>t, <1>i, <1>3, <2>1, <2>2 DEF acquiresleep, bufvars
  <2>3. CASE locked[b[p]] = None
    <3>1. UNCHANGED <<b, valid>> /\ \A i \in Buf : locked'[i] = IF i = b[p] THEN p ELSE locked[i]
      BY <1>t, <1>3, <2>3 DEF acquiresleep, bufvars
    <3>2. \/ pc'[p] = "hold" /\ valid[b[p]]
          \/ pc'[p] = "filling" /\ ~valid[b[p]]
      BY <1>t, <1>3, <2>1, <2>3 DEF acquiresleep
    <3>3. \A q \in Proc : q # p => pc'[q] = pc[q]
      BY <1>t, <1>3, <2>3 DEF acquiresleep
    <3>4. pc[p] \notin HasLock /\ \A i \in Buf : locked[i] # p
      BY <1>i, <1>3, <2>1 DEF acquiresleep
    <3> QED
      BY <1>t, <1>i, <2>1, <2>3, <3>1, <3>2, <3>3, <3>4, NoneIsNew
  <2> QED
    BY <2>2, <2>3
<1>4. ASSUME NEW p \in Proc, kill(p) PROVE Locks'
  BY <1>t, <1>i, <1>4 DEF kill, bufvars
<1>5. ASSUME NEW p \in Proc, bread(p) PROVE Locks'
  BY <1>t, <1>i, <1>5 DEF bread
<1>6. ASSUME NEW p \in Proc, bpin(p) \/ bunpin(p) \/ bwrite(p) PROVE Locks'
  BY <1>t, <1>i, <1>6 DEF bpin, bunpin, bwrite, bufvars
\* releasesleep() wakes everybody who sleeps for this buffer.
<1>7. ASSUME NEW p \in Proc, brelse(p) PROVE Locks'
  <2>1. b[p] \in Buf /\ locked[b[p]] = p /\ p # None
    BY <1>i, <1>7, NoneIsNew DEF brelse
  <2>2. \A q \in Proc : pc'[q] = IF q = p THEN "released"
                                 ELSE IF pc[q] = "asleep" /\ b[q] = b[p] THEN "lock" ELSE pc[q]
    BY <1>t, <1>7 DEF brelse, Wakeup
  <2>3. \A i \in Buf : locked'[i] = IF i = b[p] THEN None ELSE locked[i]
    BY <1>t, <1>7 DEF brelse
  <2>4. UNCHANGED <<b, valid>>
    BY <1>7 DEF brelse, bufvars
  <2> QED
    BY <1>t, <1>i, <2>1, <2>2, <2>3, <2>4
<1>8. ASSUME NEW p \in Proc, brelse_ref(p) PROVE Locks'
  BY <1>t, <1>i, <1>8 DEF brelse_ref
<1>9. ASSUME NEW p \in Proc, NEW x, bget_panic(p, x) \/ Modify(p, x) PROVE Locks'
  BY <1>t, <1>i, <1>9 DEF bget_panic, Modify, bufvars
<1>10. CASE UNCHANGED vars
  BY <1>i, <1>10 DEF vars, bufvars
<1> QED
  BY <1>1, <1>2, <1>3, <1>4, <1>5, <1>6, <1>7, <1>8, <1>9, <1>10 DEF Next, panic

\* Counting: a change of one process's b moves it from one set of users to another.
LEMMA UsersGrow ==
  ASSUME IInv, NEW p \in Proc, b[p] = None, NEW i \in Buf, b' = [b EXCEPT ![p] = i]
  PROVE  /\ Cardinality(Users(i)') = Cardinality(Users(i)) + 1
         /\ \A j \in Buf : j # i => Users(j)' = Users(j)
<1>1. Users(i)' = Users(i) \cup {p} /\ p \notin Users(i)
  BY NoneIsNew DEF IInv, TypeOK, Users
<1>2. Cardinality(Users(i)') = Cardinality(Users(i)) + 1
  BY <1>1, UsersFinite, FS_AddElement
<1>3. \A j \in Buf : j # i => Users(j)' = Users(j)
  BY NoneIsNew DEF IInv, TypeOK, Users
<1> QED
  BY <1>2, <1>3

LEMMA UsersShrink ==
  ASSUME IInv, NEW p \in Proc, b[p] \in Buf, b' = [b EXCEPT ![p] = None]
  PROVE  /\ Cardinality(Users(b[p]))  = Cardinality({q \in Proc : b'[q] = b[p]}) + 1
         /\ \A j \in Buf : j # b[p] => Users(j)' = Users(j)
<1> DEFINE R == {q \in Proc : b'[q] = b[p]}
<1>1. Users(b[p]) = R \cup {p} /\ p \notin R
  BY NoneIsNew DEF IInv, TypeOK, Users
<1>2. R = Users(b[p]) \ {p} /\ p \in Users(b[p])
  BY <1>1 DEF Users
<1>3. Cardinality(R) = Cardinality(Users(b[p])) - 1
  BY <1>2, UsersFinite, FS_RemoveElement, Zenon
<1>4. \A j \in Buf : j # b[p] => Users(j)' = Users(j)
  BY NoneIsNew DEF IInv, TypeOK, Users
<1> QED
  BY <1>3, <1>4, UsersFinite

LEMMA CachingStep == IInv /\ [Next]_vars => Distinct' /\ Pins'
<1> SUFFICES ASSUME IInv, [Next]_vars PROVE Distinct' /\ Pins'
  OBVIOUS
<1> USE DEF Distinct, Pins, Cached
<1>t. blockno \in [Buf -> Block \cup {None}] /\ Distinct /\ Pins
  BY DEF IInv, TypeOK
<1>1. ASSUME NEW p \in Proc, NEW k \in Block, bget_recycle(p, k) PROVE Distinct' /\ Pins'
  <2>1. PICK n \in Victims : blockno' = [blockno EXCEPT ![list[n]] = k]
    BY <1>1, Zenon DEF bget_recycle
  <2>2. /\ list[n] \in Buf /\ blockno[list[n]] \notin pinned /\ pinned' = pinned
        /\ \A i \in Buf : blockno[i] # k
    BY <1>1, VictimIs, UnusedIsFree DEF bget_recycle
  <2>3. \A i \in Buf : blockno'[i] = IF i = list[n] THEN k ELSE blockno[i]
    BY <1>t, <2>1
  <2>4. Distinct'
    BY <1>t, <2>2, <2>3
  <2>5. Pins'
    BY <1>t, <2>2, <2>3
  <2> QED
    BY <2>4, <2>5
<1>2. ASSUME NEW p \in Proc, bpin(p) PROVE Distinct' /\ Pins'
  <2>1. b[p] \in Buf /\ blockno[b[p]] = ask[p]
    BY <1>2 DEF bpin, IInv, Places
  <2> QED
    BY <1>t, <1>2, <2>1 DEF bpin
<1>3. ASSUME NEW p \in Proc, bunpin(p) PROVE Distinct' /\ Pins'
  BY <1>t, <1>3 DEF bunpin
<1>4. CASE UNCHANGED <<blockno, pinned>>
  BY <1>t, <1>4
<1>5. ASSUME NEW p \in Proc, NEW k \in Block, bget_cached(p, k) \/ bget_panic(p, k)
      PROVE  UNCHANGED <<blockno, pinned>>
  BY <1>5 DEF bget_cached, bget_panic, bufvars
<1>6. ASSUME NEW p \in Proc, acquiresleep(p) \/ kill(p) \/ bread(p) \/ bwrite(p) \/ brelse(p) \/ brelse_ref(p)
      PROVE  UNCHANGED <<blockno, pinned>>
  BY <1>6 DEF acquiresleep, kill, bread, bwrite, brelse, brelse_ref, bufvars
<1>7. ASSUME NEW p \in Proc, NEW d \in Data, Modify(p, d) PROVE UNCHANGED <<blockno, pinned>>
  BY <1>7 DEF Modify, bufvars
<1>8. CASE UNCHANGED vars
  BY <1>4, <1>8 DEF vars, bufvars
<1> QED
  BY <1>1, <1>2, <1>3, <1>4, <1>5, <1>6, <1>7, <1>8 DEF Next, panic

LEMMA RefcntStep == IInv /\ [Next]_vars => RefcntExact'
<1> SUFFICES ASSUME IInv, [Next]_vars,
                    NEW i \in Buf
             PROVE  (refcnt[i] = Cardinality(Users(i)) + Pinned(i))'
  BY DEF RefcntExact, Users, Pinned
<1>t. /\ refcnt \in [Buf -> Nat] /\ b \in [Proc -> Buf \cup {None}]
      /\ blockno \in [Buf -> Block \cup {None}]
  BY DEF IInv, TypeOK
<1>i. refcnt[i] = Cardinality(Users(i)) + Pinned(i)
  BY Counts DEF IInv
<1>c. Cardinality(Users(i)) \in Nat /\ Pinned(i) \in Nat
  BY UsersFinite DEF Pinned
<1>1. ASSUME NEW p \in Proc, NEW k \in Block, bget_cached(p, k)
      PROVE  (refcnt[i] = Cardinality(Users(i)) + Pinned(i))'
  <2>1. PICK j \in Buf : refcnt' = [refcnt EXCEPT ![j] = @ + 1] /\ b' = [b EXCEPT ![p] = j]
    BY <1>1, Zenon DEF bget_cached, Cached
  <2>2. b[p] = None /\ Pinned(i)' = Pinned(i)
    BY <1>1 DEF bget_cached, IInv, Places, Pinned
  <2>3. CASE i = j
    <3>1. Cardinality(Users(i)') = Cardinality(Users(i)) + 1
      BY <2>1, <2>2, <2>3, UsersGrow, Zenon
    <3>2. refcnt'[i] = refcnt[i] + 1
      BY <1>t, <2>1, <2>3
    <3> QED
      BY <1>i, <1>c, <2>2, <3>1, <3>2
  <2>4. CASE i # j
    <3>1. Users(i)' = Users(i)
      BY <2>1, <2>2, <2>4, UsersGrow, Zenon
    <3>2. refcnt'[i] = refcnt[i]
      BY <1>t, <2>1, <2>4
    <3> QED
      BY <1>i, <2>2, <3>1, <3>2
  <2> QED
    BY <2>3, <2>4
<1>2. ASSUME NEW p \in Proc, NEW k \in Block, bget_recycle(p, k)
      PROVE  (refcnt[i] = Cardinality(Users(i)) + Pinned(i))'
  <2>1. PICK n \in Victims : /\ blockno' = [blockno EXCEPT ![list[n]] = k]
                             /\ refcnt' = [refcnt EXCEPT ![list[n]] = 1]
                             /\ b' = [b EXCEPT ![p] = list[n]]
    BY <1>2, Zenon DEF bget_recycle
  <2>2. /\ list[n] \in Buf /\ Users(list[n]) = {} /\ b[p] = None
        /\ pinned' = pinned /\ k \notin pinned
    BY <1>2, VictimIs, UnusedIsFree DEF bget_recycle, IInv, Places, Pins
  <2>3. CASE i = list[n]
    <3>0. Cardinality(Users(i)') = Cardinality(Users(i)) + 1 /\ Users(i) = {}
      BY <2>1, <2>2, <2>3, UsersGrow, Zenon
    <3>1. Cardinality(Users(i)') = 1
      BY <3>0, FS_EmptySet
    <3>2. refcnt'[i] = 1 /\ Pinned(i)' = 0
      BY <1>t, <2>1, <2>2, <2>3 DEF Pinned
    <3> QED
      BY <3>1, <3>2
  <2>4. CASE i # list[n]
    <3>1. Users(i)' = Users(i)
      BY <2>1, <2>2, <2>4, UsersGrow, Zenon
    <3>2. refcnt'[i] = refcnt[i] /\ Pinned(i)' = Pinned(i)
      BY <1>t, <2>1, <2>2, <2>4 DEF Pinned
    <3> QED
      BY <1>i, <3>1, <3>2
  <2> QED
    BY <2>3, <2>4
<1>3. ASSUME NEW p \in Proc, bpin(p) PROVE (refcnt[i] = Cardinality(Users(i)) + Pinned(i))'
  <2>1. /\ b[p] \in Buf /\ blockno[b[p]] = ask[p] /\ ask[p] # None /\ ask[p] \notin pinned
        /\ pinned' = pinned \cup {ask[p]} /\ refcnt' = [refcnt EXCEPT ![b[p]] = @ + 1]
    BY <1>3, NoneIsNew DEF bpin, Pin, IInv, Places
  <2>2. Users(i)' = Users(i) /\ blockno' = blockno
    BY <1>3 DEF bpin, Users
  <2>3. CASE i = b[p]
    <3>1. Pinned(i) = 0 /\ Pinned(i)' = 1
      BY <2>1, <2>2, <2>3 DEF Pinned
    <3>2. refcnt'[i] = refcnt[i] + 1
      BY <1>t, <2>1, <2>3
    <3> QED
      BY <1>i, <1>c, <2>2, <3>1, <3>2
  <2>4. CASE i # b[p]
    <3>1. blockno[i] # ask[p]
      BY <2>1, <2>4 DEF IInv, Distinct
    <3>2. Pinned(i)' = Pinned(i) /\ refcnt'[i] = refcnt[i]
      BY <1>t, <2>1, <2>2, <2>4, <3>1 DEF Pinned
    <3> QED
      BY <1>i, <2>2, <3>2
  <2> QED
    BY <2>3, <2>4
<1>4. ASSUME NEW p \in Proc, bunpin(p) PROVE (refcnt[i] = Cardinality(Users(i)) + Pinned(i))'
  <2>1. /\ b[p] \in Buf /\ blockno[b[p]] = ask[p] /\ ask[p] # None /\ ask[p] \in pinned
        /\ pinned' = pinned \ {ask[p]} /\ refcnt' = [refcnt EXCEPT ![b[p]] = @ - 1]
    BY <1>4, NoneIsNew DEF bunpin, IInv, Places
  <2>2. Users(i)' = Users(i) /\ blockno' = blockno
    BY <1>4 DEF bunpin, Users
  <2>3. CASE i = b[p]
    <3>1. Pinned(i) = 1 /\ Pinned(i)' = 0
      BY <2>1, <2>2, <2>3 DEF Pinned
    <3>2. refcnt'[i] = refcnt[i] - 1
      BY <1>t, <2>1, <2>3
    <3> QED
      BY <1>i, <1>c, <2>2, <3>1, <3>2
  <2>4. CASE i # b[p]
    <3>1. blockno[i] # ask[p]
      BY <2>1, <2>4 DEF IInv, Distinct
    <3>2. Pinned(i)' = Pinned(i) /\ refcnt'[i] = refcnt[i]
      BY <1>t, <2>1, <2>2, <2>4, <3>1 DEF Pinned
    <3> QED
      BY <1>i, <2>2, <3>2
  <2> QED
    BY <2>3, <2>4
<1>5. ASSUME NEW p \in Proc, brelse_ref(p) PROVE (refcnt[i] = Cardinality(Users(i)) + Pinned(i))'
  <2>1. /\ b[p] \in Buf /\ b' = [b EXCEPT ![p] = None] /\ Pinned(i)' = Pinned(i)
        /\ refcnt' = [refcnt EXCEPT ![b[p]] = @ - 1]
    BY <1>5 DEF brelse_ref, Dropped, IInv, Places, Pinned
  <2>2. CASE i = b[p]
    <3>1. Users(i)' = {q \in Proc : b'[q] = b[p]}
      BY <2>2 DEF Users
    <3>2. Cardinality(Users(i)) = Cardinality(Users(i)') + 1
      BY <2>1, <2>2, <3>1, UsersShrink, Zenon
    <3>3. refcnt'[i] = refcnt[i] - 1
      BY <1>t, <2>1, <2>2
    <3>4. Cardinality(Users(i)') \in Nat
      <4>1. Users(i)' \subseteq Proc /\ IsFiniteSet(Proc)
        BY BcacheAssumption DEF Users, BcacheAssumption
      <4> QED
        BY <4>1, FS_Subset, FS_CardinalityType
    <3> QED
      BY <1>i, <1>c, <2>1, <3>2, <3>3, <3>4
  <2>3. CASE i # b[p]
    <3>1. Users(i)' = Users(i)
      BY <2>1, <2>3, UsersShrink, Zenon
    <3>2. refcnt'[i] = refcnt[i]
      BY <1>t, <2>1, <2>3
    <3> QED
      BY <1>i, <2>1, <3>1, <3>2
  <2> QED
    BY <2>2, <2>3
<1>6. CASE UNCHANGED <<refcnt, b, blockno, pinned>>
  BY <1>i, <1>6 DEF Users, Pinned
<1>7. ASSUME NEW p \in Proc, NEW x, bget_panic(p, x) \/ Modify(p, x)
      PROVE  UNCHANGED <<refcnt, b, blockno, pinned>>
  BY <1>7 DEF bget_panic, Modify, bufvars
<1>8. ASSUME NEW p \in Proc, acquiresleep(p) \/ kill(p) \/ bread(p) \/ bwrite(p) \/ brelse(p)
      PROVE  UNCHANGED <<refcnt, b, blockno, pinned>>
  BY <1>8 DEF acquiresleep, kill, bread, bwrite, brelse, bufvars
<1>9. CASE UNCHANGED vars
  BY <1>6, <1>9 DEF vars, bufvars
<1> QED
  BY <1>1, <1>2, <1>3, <1>4, <1>5, <1>6, <1>7, <1>8, <1>9 DEF Next, panic

LEMMA CleanStep == IInv /\ [Next]_vars => Clean'
<1> SUFFICES ASSUME IInv, [Next]_vars PROVE Clean'
  OBVIOUS
<1> USE DEF Clean
<1>t. /\ blockno \in [Buf -> Block \cup {None}] /\ valid \in [Buf -> BOOLEAN]
      /\ data \in [Buf -> Data \cup {None}] /\ locked \in [Buf -> Proc \cup {None}]
      /\ platter \in [Block -> Data]
  BY DEF IInv, TypeOK
<1>i. Clean
  BY DEF IInv
\* Whoever has the lock of a buffer.
<1>l. \A p \in Proc : pc[p] \in HasLock => /\ b[p] \in Buf /\ locked[b[p]] = p /\ p # None
                                          /\ ask[p] \in Block /\ blockno[b[p]] = ask[p]
  BY NoneIsNew DEF IInv, Places, Locks, HasLock
<1>1. ASSUME NEW p \in Proc, NEW k \in Block, bget_recycle(p, k) PROVE Clean'
  <2>1. PICK n \in Victims : /\ blockno' = [blockno EXCEPT ![list[n]] = k]
                             /\ valid' = [valid EXCEPT ![list[n]] = FALSE]
    BY <1>1, Zenon DEF bget_recycle
  <2> QED
    BY <1>t, <1>i, <1>1, <2>1 DEF bget_recycle
<1>2. ASSUME NEW p \in Proc, acquiresleep(p) PROVE Clean'
  <2>1. \A i \in Buf : locked'[i] = None => locked[i] = None
    BY <1>t, <1>2, NoneIsNew DEF acquiresleep
  <2>2. UNCHANGED <<blockno, valid, data, platter, pinned>>
    BY <1>2 DEF acquiresleep, bufvars
  <2> QED
    BY <1>i, <2>1, <2>2
<1>3. ASSUME NEW p \in Proc, bread(p) PROVE Clean'
  <2>1. pc[p] \in HasLock
    BY <1>3 DEF bread, HasLock
  <2>2. b[p] \in Buf /\ blockno[b[p]] \in Block
    BY <1>l, <2>1
  <2>3. /\ data'[b[p]] = platter[blockno[b[p]]]
        /\ \A i \in Buf : i # b[p] => data'[i] = data[i] /\ valid'[i] = valid[i]
    BY <1>t, <1>3, <2>2 DEF bread, FillFrom
  <2>4. UNCHANGED <<blockno, locked, platter, pinned>>
    BY <1>3 DEF bread
  <2>5. data'[b[p]] \in Data
    BY <1>t, <2>2, <2>3
  <2> QED
    BY <1>i, <2>2, <2>3, <2>4, <2>5
<1>4. ASSUME NEW p \in Proc, NEW d \in Data, Modify(p, d) PROVE Clean'
  <2>1. b[p] \in Buf /\ locked[b[p]] # None
    BY <1>l, <1>4 DEF Modify, HasLock
  <2>2. \A i \in Buf : data'[i] = IF i = b[p] THEN d ELSE data[i]
    BY <1>t, <1>4 DEF Modify
  <2>3. UNCHANGED <<blockno, valid, locked, platter, pinned>>
    BY <1>4 DEF Modify, bufvars
  <2> QED
    BY <1>i, <2>1, <2>2, <2>3
<1>5. ASSUME NEW p \in Proc, bwrite(p) PROVE Clean'
  <2>1. b[p] \in Buf /\ ask[p] \in Block /\ blockno[b[p]] = ask[p] /\ ask[p] # None
    BY <1>l, <1>5, NoneIsNew DEF bwrite, HasLock
  <2>2. \A i \in Buf : i # b[p] => blockno[i] # ask[p]
    BY <2>1 DEF IInv, Distinct
  <2>3. \A k \in Block : platter'[k] = IF k = ask[p] THEN data[b[p]] ELSE platter[k]
    BY <1>t, <1>5, <2>1 DEF bwrite
  <2>4. UNCHANGED <<blockno, valid, data, locked, pinned>>
    BY <1>5 DEF bwrite, bufvars
  <2> QED
    BY <1>i, <2>1, <2>2, <2>3, <2>4
<1>6. ASSUME NEW p \in Proc, bpin(p) PROVE Clean'
  BY <1>i, <1>6 DEF bpin
\* install_trans() unpins what it has written.
<1>7. ASSUME NEW p \in Proc, bunpin(p) PROVE Clean'
  <2>1. /\ b[p] \in Buf /\ blockno[b[p]] = ask[p] /\ ask[p] # None
        /\ data[b[p]] = platter[blockno[b[p]]]
    BY <1>l, <1>7, NoneIsNew DEF bunpin, Same, HasLock
  <2>2. \A i \in Buf : i # b[p] => blockno[i] # ask[p]
    BY <2>1 DEF IInv, Distinct
  <2>3. UNCHANGED <<blockno, valid, data, locked, platter>> /\ pinned' = pinned \ {ask[p]}
    BY <1>7 DEF bunpin
  <2> QED
    BY <1>i, <2>1, <2>2, <2>3
\* A buffer is released equal to its block, or pinned.
<1>8. ASSUME NEW p \in Proc, brelse(p) PROVE Clean'
  <2>1. /\ b[p] \in Buf /\ blockno[b[p]] = ask[p]
        /\ data[b[p]] = platter[blockno[b[p]]] \/ ask[p] \in pinned
    BY <1>l, <1>8 DEF brelse, Same, HasLock
  <2>2. \A i \in Buf : locked'[i] = IF i = b[p] THEN None ELSE locked[i]
    BY <1>t, <1>8 DEF brelse
  <2>3. UNCHANGED <<blockno, valid, data, platter, pinned>>
    BY <1>8 DEF brelse, bufvars
  <2> QED
    BY <1>i, <2>1, <2>2, <2>3
<1>9. CASE UNCHANGED <<blockno, valid, data, locked, platter, pinned>>
  BY <1>i, <1>9
<1>10. ASSUME NEW p \in Proc, NEW k \in Block, bget_cached(p, k) \/ bget_panic(p, k) PROVE Clean'
  BY <1>9, <1>10 DEF bget_cached, bget_panic, bufvars
<1>11. ASSUME NEW p \in Proc, kill(p) \/ brelse_ref(p) PROVE Clean'
  BY <1>9, <1>11 DEF kill, brelse_ref, bufvars
<1>12. CASE UNCHANGED vars
  BY <1>9, <1>12 DEF vars, bufvars
<1> QED
  BY <1>1, <1>2, <1>3, <1>4, <1>5, <1>6, <1>7, <1>8, <1>10, <1>11, <1>12 DEF Next, panic

LEMMA IInvStep == IInv /\ [Next]_vars => IInv'
BY TypeStep, PlacesStep, LocksStep, CachingStep, RefcntStep, CleanStep DEF IInv

\* IInv is an invariant of the buffer cache.
THEOREM Invariant == Spec => []IInv
BY IInvInit, IInvStep, PTL DEF Spec

\* bio.c: a block has at most one buffer, refcnt is the number of its users and its pin,
\* and nobody sleeps for a free lock; for any number of processes, buffers and blocks.
THEOREM CacheInOrder == Spec => []BuffersInOrder
<1>1. IInv => OneBufferPerBlock
  <2> SUFFICES ASSUME IInv, NEW k \in Block PROVE Cardinality(Cached(k)) <= 1
    BY DEF OneBufferPerBlock
  <2>1. CASE Cached(k) = {}
    BY <2>1, FS_EmptySet
  <2>2. CASE Cached(k) # {}
    <3>1. PICK i \in Buf : blockno[i] = k
      BY <2>2 DEF Cached
    <3>2. Cached(k) = {i}
      BY <3>1, NoneIsNew DEF IInv, Distinct, Cached
    <3>3. Cardinality({i}) = 1
      BY FS_Singleton
    <3> QED
      BY <3>2, <3>3
  <2> QED
    BY <2>1, <2>2
<1>2. IInv => RefcntExact /\ SleeperHasHolder
  BY DEF IInv, Locks, SleeperHasHolder
<1>3. IInv => BuffersInOrder
  BY <1>1, <1>2 DEF BuffersInOrder
<1> QED
  BY <1>3, Invariant, PTL

(***************************************************************************)
(* The refinement.                                                         *)
(***************************************************************************)
\* What Contents and Holder are, block by block.
ContentsIs ==
    Distinct => \A k \in Block :
        /\ \A i \in Buf : blockno[i] = k => Contents[k] = IF valid[i] THEN data[i] ELSE platter[k]
        /\ (\A i \in Buf : blockno[i] # k) => Contents[k] = platter[k]

LEMMA ContentsAt == ContentsIs
<1> SUFFICES ASSUME Distinct, NEW k \in Block
             PROVE  /\ \A i \in Buf : blockno[i] = k => Contents[k] = IF valid[i] THEN data[i] ELSE platter[k]
                    /\ (\A i \in Buf : blockno[i] # k) => Contents[k] = platter[k]
  BY DEF ContentsIs
<1>1. ASSUME NEW i \in Buf, blockno[i] = k
      PROVE  Contents[k] = IF valid[i] THEN data[i] ELSE platter[k]
  <2>1. Cached(k) = {i}
    BY <1>1, NoneIsNew DEF Distinct, Cached
  <2>2. valid[i] => (CHOOSE j \in Cached(k) : valid[j]) = i
    BY <2>1
  <2> QED
    BY <2>1, <2>2 DEF Contents
<1>2. (\A i \in Buf : blockno[i] # k) => Contents[k] = platter[k]
  BY DEF Contents, Cached
<1> QED
  BY <1>1, <1>2

\* A block whose buffer, if there is one, does not change.
LEMMA SameBlock ==
  ASSUME Distinct, Distinct', NEW k \in Block, platter'[k] = platter[k],
         \A i \in Buf : (blockno'[i] = k <=> blockno[i] = k)
                        /\ (blockno[i] = k => valid'[i] = valid[i] /\ data'[i] = data[i])
  PROVE  Contents'[k] = Contents[k]
<1>1. ContentsIs /\ ContentsIs'
  BY ContentsAt, PTL
<1>2. CASE \A i \in Buf : blockno[i] # k
  <2>1. Contents[k] = platter[k]
    BY <1>1, <1>2 DEF ContentsIs
  <2>2. Contents'[k] = platter'[k]
    BY <1>1, <1>2 DEF ContentsIs
  <2> QED
    BY <2>1, <2>2
<1>3. ASSUME NEW i \in Buf, blockno[i] = k PROVE Contents'[k] = Contents[k]
  <2>1. Contents[k] = IF valid[i] THEN data[i] ELSE platter[k]
    BY <1>1, <1>3 DEF ContentsIs
  <2>2. Contents'[k] = IF valid'[i] THEN data'[i] ELSE platter'[k]
    BY <1>1, <1>3 DEF ContentsIs
  <2> QED
    BY <1>3, <2>1, <2>2
<1> QED
  BY <1>2, <1>3

HolderIs ==
    IInv => \A k \in Block :
        /\ \A p \in Proc : pc[p] = "hold" /\ ask[p] = k => Holder[k] = p
        /\ (\A p \in Proc : pc[p] = "hold" => ask[p] # k) => Holder[k] = None

LEMMA HolderAt == HolderIs
<1> SUFFICES ASSUME IInv, NEW k \in Block
             PROVE  /\ \A p \in Proc : pc[p] = "hold" /\ ask[p] = k => Holder[k] = p
                    /\ (\A p \in Proc : pc[p] = "hold" => ask[p] # k) => Holder[k] = None
  BY DEF HolderIs
<1>1. ASSUME NEW p \in Proc, NEW q \in Proc, pc[p] = "hold", ask[p] = k, pc[q] = "hold", ask[q] = k
      PROVE  p = q
  <2>1. b[p] \in Buf /\ b[q] \in Buf /\ blockno[b[p]] = k /\ blockno[b[q]] = k /\ k # None
    BY <1>1, NoneIsNew DEF IInv, Places
  <2>2. b[p] = b[q]
    BY <2>1 DEF IInv, Distinct
  <2> QED
    BY <1>1, <2>2 DEF IInv, Locks, HasLock
<1>2. ASSUME NEW p \in Proc, pc[p] = "hold", ask[p] = k PROVE Holder[k] = p
  <2>1. (CHOOSE q \in Proc : pc[q] = "hold" /\ ask[q] = k) = p
    BY <1>1, <1>2
  <2> QED
    BY <1>2, <2>1 DEF Holder
<1>3. (\A p \in Proc : pc[p] = "hold" => ask[p] # k) => Holder[k] = None
  BY DEF Holder
<1> QED
  BY <1>2, <1>3

\* The actions that leave the abstract state alone.
Stutters == UNCHANGED <<Contents, platter, Holder>>

LEMMA StutterIs == Stutters => UNCHANGED BL!blvars
BY DEF Stutters, BL!blvars

LEMMA SameContents ==
  ASSUME \A k \in Block : Contents'[k] = Contents[k]
  PROVE  Contents' = Contents
<1>1. Contents = [k \in Block |-> Contents[k]]
  BY DEF Contents
<1>2. Contents' = [k \in Block |-> Contents'[k]]
  BY DEF Contents
<1> QED
  BY <1>1, <1>2

LEMMA SameHolder ==
  ASSUME \A p \in Proc : (pc'[p] = "hold" <=> pc[p] = "hold") /\ (pc[p] = "hold" => ask'[p] = ask[p])
  PROVE  Holder' = Holder
BY Zenon DEF Holder

LEMMA StepRefines == IInv /\ [Next]_vars => [BL!Next]_(BL!blvars)
<1> SUFFICES ASSUME IInv, [Next]_vars PROVE [BL!Next]_(BL!blvars)
  OBVIOUS
<1> USE DEF Goto
<1>t. /\ pc \in [Proc -> PC] /\ ask \in [Proc -> Block \cup {None}]
      /\ blockno \in [Buf -> Block \cup {None}] /\ valid \in [Buf -> BOOLEAN]
      /\ data \in [Buf -> Data \cup {None}] /\ platter \in [Block -> Data]
  BY DEF IInv, TypeOK
<1>d. Distinct /\ Distinct' /\ IInv'
  BY IInvStep DEF IInv
<1>c. ContentsIs /\ ContentsIs'
  BY ContentsAt, PTL
<1>h. HolderIs /\ HolderIs'
  BY HolderAt, PTL
<1>s. Stutters => [BL!Next]_(BL!blvars)
  BY StutterIs
<1>f. UNCHANGED <<blockno, valid, data, platter>> => Contents' = Contents
  BY DEF Contents, Cached
<1>g. Contents = [k \in Block |-> Contents[k]] /\ Contents' = [k \in Block |-> Contents'[k]]
  BY DEF Contents
<1>k. Holder = [k \in Block |-> Holder[k]] /\ Holder' = [k \in Block |-> Holder'[k]]
  BY DEF Holder
\* A process that has a buffer locked.
<1>l. \A p \in Proc : pc[p] # "idle" => /\ b[p] \in Buf /\ ask[p] \in Block
                                         /\ blockno[b[p]] = ask[p] /\ ask[p] # None
  BY NoneIsNew DEF IInv, Places
<1>v. \A p \in Proc : pc[p] = "hold" => /\ locked[b[p]] = p /\ valid[b[p]]
                                         /\ Holder[ask[p]] = p /\ Contents[ask[p]] = data[b[p]]
  <2> SUFFICES ASSUME NEW p \in Proc, pc[p] = "hold"
               PROVE  /\ locked[b[p]] = p /\ valid[b[p]]
                      /\ Holder[ask[p]] = p /\ Contents[ask[p]] = data[b[p]]
    OBVIOUS
  <2>1. locked[b[p]] = p /\ valid[b[p]]
    BY DEF IInv, Locks, HasLock
  <2>2. b[p] \in Buf /\ ask[p] \in Block /\ blockno[b[p]] = ask[p]
    BY <1>l
  <2>3. Contents[ask[p]] = data[b[p]]
    BY <1>c, <1>d, <2>1, <2>2 DEF ContentsIs
  <2>4. Holder[ask[p]] = p
    BY <1>h, <2>2 DEF HolderIs
  <2> QED
    BY <2>1, <2>3, <2>4
\* Other blocks are not in its buffer.
<1>o. \A p \in Proc, i \in Buf : pc[p] # "idle" /\ blockno[i] = ask[p] => i = b[p]
  BY <1>d, <1>l DEF Distinct
\* Taking the lock of a buffer that nobody holds.
<1>a. ASSUME NEW p \in Proc, pc[p] # "idle", pc[p] # "hold", pc' = [pc EXCEPT ![p] = "hold"],
             \A q \in Proc : pc[q] = "hold" => b[q] # b[p], ask' = ask,
             Contents' = Contents, platter' = platter
      PROVE  [BL!Next]_(BL!blvars)
  <2>1. \A q \in Proc : pc[q] = "hold" => ask[q] # ask[p]
    BY <1>a, <1>l, <1>o
  <2>2. ask[p] \in Block /\ Holder[ask[p]] = None
    BY <1>a, <1>h, <1>l, <2>1 DEF HolderIs
  <2>3. Holder'[ask[p]] = p
    BY <1>a, <1>d, <1>h, <1>t, <2>2 DEF HolderIs
  <2>4. \A k \in Block : k # ask[p] => Holder'[k] = Holder[k]
    BY <1>a, <1>t, Zenon DEF Holder
  <2>5. Holder' = [Holder EXCEPT ![ask[p]] = p]
    BY <1>k, <2>2, <2>3, <2>4
  <2>6. BL!Lock(p, ask[p])
    BY <1>a, <2>2, <2>5 DEF BL!Lock
  <2> QED
    BY <2>2, <2>6 DEF BL!Next
<1>1. ASSUME NEW p \in Proc, NEW k \in Block, bget_cached(p, k) PROVE [BL!Next]_(BL!blvars)
  <2>1. Holder' = Holder
    BY <1>1, <1>t, SameHolder DEF bget_cached
  <2> QED
    BY <1>1, <1>f, <1>s, <2>1 DEF bget_cached, Stutters
\* The recycled buffer has what is on the disk.
<1>2. ASSUME NEW p \in Proc, NEW k \in Block, bget_recycle(p, k) PROVE [BL!Next]_(BL!blvars)
  <2>1. PICK n \in Victims : /\ blockno' = [blockno EXCEPT ![list[n]] = k]
                             /\ valid' = [valid EXCEPT ![list[n]] = FALSE]
    BY <1>2, Zenon DEF bget_recycle
  <2> DEFINE v == list[n]
  <2>2. v \in Buf /\ locked[v] = None /\ blockno[v] \notin pinned
    BY VictimIs, UnusedIsFree
  <2>3. \A i \in Buf : /\ blockno'[i] = IF i = v THEN k ELSE blockno[i]
                       /\ i # v => valid'[i] = valid[i]
    BY <1>t, <2>1, Zenon
  <2>4. ~valid'[v] /\ UNCHANGED <<data, platter>> /\ \A i \in Buf : blockno[i] # k
    BY <1>2, <1>t, <2>1, <2>2 DEF bget_recycle, Cached
  <2> HIDE DEF v
  <2>5. ASSUME NEW c \in Block PROVE Contents'[c] = Contents[c]
    <3>1. CASE c = k
      <4>1. Contents[c] = platter[c]
        BY <1>c, <1>d, <2>4, <3>1 DEF ContentsIs
      <4>2. Contents'[c] = platter'[c]
        BY <1>c, <1>d, <2>2, <2>3, <2>4, <3>1 DEF ContentsIs
      <4> QED
        BY <2>4, <4>1, <4>2
    <3>2. CASE c = blockno[v]
      <4>1. Contents[c] = platter[c]
        BY <1>c, <1>d, <2>2, <3>2 DEF ContentsIs, IInv, Clean
      <4>2. \A i \in Buf : blockno'[i] # c
        BY <1>d, <2>2, <2>3, <2>4, <3>2, NoneIsNew DEF Distinct
      <4>3. Contents'[c] = platter'[c]
        BY <1>c, <1>d, <4>2 DEF ContentsIs
      <4> QED
        BY <2>4, <4>1, <4>3
    <3>3. CASE c # k /\ c # blockno[v]
      BY <1>d, <2>3, <2>4, <3>3, SameBlock
    <3> QED
      BY <3>1, <3>2, <3>3
  <2>6. Holder' = Holder
    BY <1>2, <1>t, SameHolder DEF bget_recycle
  <2> QED
    BY <1>s, <2>4, <2>5, <2>6, SameContents DEF Stutters
<1>3. ASSUME NEW p \in Proc, acquiresleep(p) PROVE [BL!Next]_(BL!blvars)
  <2>1. UNCHANGED <<ask, platter, Contents>> /\ pc[p] = "lock"
    BY <1>3, <1>f DEF acquiresleep, bufvars
  <2>2. CASE pc' = [pc EXCEPT ![p] = "hold"] /\ locked[b[p]] = None
    <3>1. \A q \in Proc : pc[q] = "hold" => b[q] # b[p]
      BY <1>v, <2>2, NoneIsNew
    <3> QED
      BY <1>a, <2>1, <2>2, <3>1, Zenon
  <2>3. CASE pc' = [pc EXCEPT ![p] = "asleep"] \/ pc' = [pc EXCEPT ![p] = "filling"]
    <3>1. Holder' = Holder
      BY <1>t, <2>1, <2>3, SameHolder
    <3> QED
      BY <1>s, <2>1, <3>1 DEF Stutters
  <2> QED
    BY <1>3, <2>2, <2>3 DEF acquiresleep
<1>4. ASSUME NEW p \in Proc, bread(p) PROVE [BL!Next]_(BL!blvars)
  <2>1. /\ pc[p] = "filling" /\ b[p] \in Buf /\ ask[p] \in Block /\ blockno[b[p]] = ask[p]
        /\ locked[b[p]] = p /\ ~valid[b[p]] /\ UNCHANGED <<blockno, platter, ask>>
    BY <1>4, <1>l DEF bread, IInv, Locks, HasLock
  <2>2. /\ data'[b[p]] = platter[ask[p]] /\ valid'[b[p]]
        /\ \A i \in Buf : i # b[p] => data'[i] = data[i] /\ valid'[i] = valid[i]
    BY <1>4, <1>t, <2>1 DEF bread, FillFrom
  <2>3. ASSUME NEW c \in Block PROVE Contents'[c] = Contents[c]
    <3>1. CASE c = ask[p]
      BY <1>c, <1>d, <2>1, <2>2, <3>1 DEF ContentsIs
    <3>2. CASE c # ask[p]
      BY <1>d, <2>1, <2>2, <3>2, SameBlock
    <3> QED
      BY <3>1, <3>2
  <2>4. \A q \in Proc : pc[q] = "hold" => b[q] # b[p]
    BY <1>v, <2>1
  <2>5. pc' = [pc EXCEPT ![p] = "hold"]
    BY <1>4 DEF bread
  <2> QED
    BY <1>a, <2>1, <2>3, <2>4, <2>5, SameContents, Zenon
<1>5. ASSUME NEW p \in Proc, NEW d \in Data, Modify(p, d) PROVE [BL!Next]_(BL!blvars)
  <2>1. pc[p] = "hold" /\ UNCHANGED <<blockno, valid, platter, pc, ask>> /\ data' = [data EXCEPT ![b[p]] = d]
    BY <1>5 DEF Modify, bufvars
  <2>2. \A i \in Buf : data'[i] = IF i = b[p] THEN d ELSE data[i]
    BY <1>t, <2>1
  <2>0. ask[p] \in Block /\ b[p] \in Buf /\ blockno[b[p]] = ask[p] /\ valid[b[p]]
    BY <1>l, <1>v, <2>1
  <2>3. Contents'[ask[p]] = d
    BY <1>c, <1>d, <2>0, <2>1, <2>2 DEF ContentsIs
  <2>4. ASSUME NEW c \in Block, c # ask[p] PROVE Contents'[c] = Contents[c]
    BY <1>d, <2>0, <2>1, <2>2, <2>4, SameBlock
  <2>5. Contents' = [Contents EXCEPT ![ask[p]] = d]
    BY <1>g, <2>0, <2>3, <2>4
  <2>6. Holder' = Holder
    BY <2>1, SameHolder
  <2>7. BL!Modify(p, ask[p], d)
    BY <1>v, <2>1, <2>5, <2>6 DEF BL!Modify
  <2> QED
    BY <2>0, <2>7 DEF BL!Next
<1>6. ASSUME NEW p \in Proc, bwrite(p) PROVE [BL!Next]_(BL!blvars)
  <2>1. pc[p] = "hold" /\ UNCHANGED <<blockno, valid, data, pc, ask>>
        /\ platter' = [platter EXCEPT ![ask[p]] = data[b[p]]]
    BY <1>6, <1>l, Zenon DEF bwrite, bufvars
  <2>2. ask[p] \in Block /\ platter' = [platter EXCEPT ![ask[p]] = Contents[ask[p]]]
    BY <1>l, <1>v, <2>1, Zenon
  <2>3. ASSUME NEW c \in Block PROVE Contents'[c] = Contents[c]
    <3>1. CASE c = ask[p]
      <4>1. b[p] \in Buf /\ blockno[b[p]] = ask[p] /\ valid[b[p]] /\ Contents[c] = data[b[p]]
        BY <1>l, <1>v, <2>1, <3>1
      <4> QED
        BY <1>c, <1>d, <2>1, <3>1, <4>1 DEF ContentsIs
    <3>2. CASE c # ask[p]
      <4>1. platter'[c] = platter[c]
        BY <1>t, <2>1, <3>2
      <4> QED
        BY <1>d, <2>1, <4>1, SameBlock
    <3> QED
      BY <3>1, <3>2
  <2>4. Holder' = Holder
    BY <2>1, SameHolder
  <2>5. Contents' = Contents
    BY <2>3, SameContents
  <2>6. BL!Write(p, ask[p])
    BY <1>v, <2>1, <2>2, <2>4, <2>5, Zenon DEF BL!Write
  <2> QED
    BY <2>2, <2>6 DEF BL!Next
<1>7. ASSUME NEW p \in Proc, brelse(p) PROVE [BL!Next]_(BL!blvars)
  <2>1. pc[p] = "hold" /\ UNCHANGED <<ask, platter, Contents>>
    BY <1>7, <1>f DEF brelse, bufvars
  <2>2. \A q \in Proc : pc'[q] = "hold" <=> pc[q] = "hold" /\ q # p
    BY <1>7, <1>t DEF brelse, Wakeup
  <2>3. ask[p] \in Block /\ Holder[ask[p]] = p
    BY <1>l, <1>v, <2>1
  <2>4. \A q \in Proc : pc[q] = "hold" /\ ask[q] = ask[p] => q = p
    BY <1>v, <2>1, <2>3
  <2>5. Holder'[ask[p]] = None
    BY <1>d, <1>h, <2>1, <2>2, <2>3, <2>4 DEF HolderIs
  <2>6. \A k \in Block : k # ask[p] => Holder'[k] = Holder[k]
    BY <2>1, <2>2, Zenon DEF Holder
  <2>7. Holder' = [Holder EXCEPT ![ask[p]] = None]
    BY <1>k, <2>3, <2>5, <2>6
  <2>8. BL!Unlock(p, ask[p])
    BY <2>1, <2>3, <2>7 DEF BL!Unlock
  <2> QED
    BY <2>3, <2>8 DEF BL!Next
<1>8. ASSUME NEW p \in Proc, kill(p) \/ brelse_ref(p) PROVE [BL!Next]_(BL!blvars)
  <2>1. Holder' = Holder
    BY <1>8, <1>t, SameHolder DEF kill, brelse_ref
  <2> QED
    BY <1>8, <1>f, <1>s, <2>1 DEF kill, brelse_ref, bufvars, Stutters
<1>9. ASSUME NEW p \in Proc, NEW k, bpin(p) \/ bunpin(p) \/ bget_panic(p, k) PROVE [BL!Next]_(BL!blvars)
  <2>1. Holder' = Holder
    BY <1>9, SameHolder DEF bpin, bunpin, bget_panic
  <2> QED
    BY <1>9, <1>f, <1>s, <2>1 DEF bpin, bunpin, bget_panic, bufvars, Stutters
<1>10. CASE UNCHANGED vars
  <2>1. Holder' = Holder
    BY <1>10, SameHolder DEF vars
  <2> QED
    BY <1>10, <1>f, <1>s, <2>1 DEF vars, bufvars, Stutters
<1> QED
  BY <1>1, <1>2, <1>3, <1>4, <1>5, <1>6, <1>7, <1>8, <1>9, <1>10 DEF Next, panic

LEMMA InitRefines == Init => BL!Init
<1> SUFFICES ASSUME Init PROVE BL!Init
  OBVIOUS
<1>1. \A k \in Block : Cached(k) = {}
  BY NoneIsNew DEF Init, Cached
<1>2. Contents = [k \in Block |-> platter[k]]
  BY <1>1 DEF Contents
<1>3. Contents = platter
  BY <1>2 DEF Init
<1>4. Holder = [k \in Block |-> None]
  BY DEF Init, Holder
<1> QED
  BY <1>3, <1>4 DEF Init, BL!Init

\* bio.c: the cache is transparent, for any number of processes, buffers and blocks. Whoever
\* locks a block finds what was last written to it, and is alone.
THEOREM CacheIsTransparent == Spec => Transparent
<1>1. IInv /\ [Next]_vars => [BL!Next]_(BL!blvars)
  BY StepRefines
<1> QED
  BY <1>1, InitRefines, Invariant, PTL DEF Spec, Transparent, BL!Spec
=============================================================================
