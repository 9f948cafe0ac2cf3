-------------------------- MODULE VirtioDiskProofs --------------------------
(***************************************************************************)
(* What holds of VirtioDisk for every number of callers, of descriptors    *)
(* and every range of the ring indices that is a multiple of it: the       *)
(* descriptors are neither shared nor lost, no caller is forgotten, and    *)
(* each returns only after its own request (it implements BlockDevice).    *)
(*                                                                         *)
(* The argument: a chain of descriptors belongs to one caller from         *)
(* alloc3_desc() to free_chain(), so the number of its first descriptor    *)
(* names the request: it is in exactly one of the avail ring, the device   *)
(* and the used ring until the handler has seen it.  There are as many     *)
(* descriptors as cells, so that neither ring overflows.                   *)
(***************************************************************************)
EXTENDS VirtioDisk, Rings

(***************************************************************************)
(* The entries of a ring from index x up to index y.                       *)
(***************************************************************************)
Ahead(x, y) == (y - x) % WRAP
Item(ring, x, n) == ring[(x + n) % NUM]
Items(ring, x, y) == {Item(ring, x, n) : n \in 0 .. Ahead(x, y) - 1}
Distinct(ring, x, y) ==
    \A m, n \in 0 .. Ahead(x, y) - 1 : Item(ring, x, m) = Item(ring, x, n) => m = n

Coming == Items(avail, seen, avail_idx)
Going  == Items(used, used_idx, used_ridx)
Pending == {b \in Submitted : bdisk[b] = 1}

(***************************************************************************)
(* The inductive invariant.                                                *)
(***************************************************************************)
Callers ==
    \A b \in Buf :
        /\ pc[b] = "idle" <=> want[b] = "none"
        /\ b \notin Submitted => bdisk[b] = 0
        /\ pc[b] = "wait" => bdisk[b] = 1
        /\ want[b] = "write" => buf[b] \in Data

\* The chain of a request that has been submitted.
Next1(b) == desc[idx[b]].next
Next2(b) == desc[Next1(b)].next
Three(b) == {idx[b], Next1(b), Next2(b)}

Linked ==
    \A b \in Submitted :
        /\ desc[idx[b]].more /\ desc[Next1(b)].more
        /\ idx[b] # Next1(b) /\ idx[b] # Next2(b) /\ Next1(b) # Next2(b)
        /\ desc[Next1(b)].addr = b /\ desc[Next2(b)].addr = idx[b]
Disjoint == \A b, q \in Submitted : b # q => Three(b) \cap Three(q) = {}
FreeIsRest == \A d \in Desc : d \in free <=> \A b \in Submitted : d \notin Three(b)

\* What the device and the handler find at the first descriptor of a chain.
Requests ==
    \A b \in Submitted :
        /\ infob[idx[b]] = b /\ ops[idx[b]] = [op |-> want[b], sector |-> b]
        /\ bdisk[b] = 0 => status[idx[b]] = 0

\* A request is in one place from its submission until the handler has seen it.
InOnePlace ==
    /\ Coming \cup working \cup Going = {idx[b] : b \in Pending}
    /\ Coming \cap working = {} /\ Coming \cap Going = {} /\ working \cap Going = {}
    /\ \A h \in Coming \cup working : status[h] = 255
    /\ \A h \in Going : status[h] = 0
OnceInRing == Distinct(avail, seen, avail_idx) /\ Distinct(used, used_idx, used_ridx)

\* There are as many descriptors as cells, so that neither ring overflows.
RingsFit ==
    \A v \in Desc :
        /\ Ahead(seen, avail_idx) <= NUM /\ (v \notin Coming => Ahead(seen, avail_idx) < NUM)
        /\ Ahead(used_idx, used_ridx) <= NUM /\ (v \notin Going => Ahead(used_idx, used_ridx) < NUM)

IInv ==
    /\ TypeOK /\ Callers /\ Linked /\ Disjoint /\ FreeIsRest /\ Requests
    /\ InOnePlace /\ OnceInRing /\ RingsFit /\ UsedIsSeen /\ NoDescIsShort /\ NeverPanics

(***************************************************************************)
(* Rings.                                                                  *)
(***************************************************************************)
LEMMA Constants ==
  /\ IsRing(NUM, WRAP) /\ NUM \in Nat \ {0} /\ WRAP \in Nat \ {0} /\ NUM < WRAP
  /\ Idx = 0 .. WRAP - 1 /\ 0 \in Desc /\ 0 \in Idx /\ Garbage \notin Data
<1>1. NUM \in Nat \ {0} /\ WRAP \in Nat \ {0} /\ NUM < WRAP /\ WRAP % NUM = 0
  BY DiskAssumption DEF DiskAssumption
<1>2. 0 \in Desc /\ 0 \in Idx
  BY <1>1 DEF Desc, Idx
<1> QED
  BY <1>1, <1>2, DiskAssumption DEF DiskAssumption, IsRing, Idx

LEMMA IncrType == \A x \in Idx : Incr(x) \in Idx
BY Constants DEF Incr

LEMMA AheadIs ==
  ASSUME NEW x \in Idx, NEW y \in Idx
  PROVE  Ahead(x, y) \in 0 .. WRAP - 1 /\ (Ahead(x, y) = 0 <=> x = y)
<1>1. x \in 0 .. WRAP - 1 /\ y \in 0 .. WRAP - 1
  BY Constants
<1>2. Ahead(x, y) = IF y >= x THEN y - x ELSE y - x + WRAP
  BY <1>1, Constants, DistanceIs DEF Ahead
<1> QED
  BY <1>1, <1>2, Constants

LEMMA CellType == \A x \in Nat : x % NUM \in Desc
BY Constants DEF Desc

\* What SleeperAwaited says of a ring.
LEMMA EntriesAreItems ==
  ASSUME NEW ring, NEW x \in Idx, NEW y \in Idx
  PROVE  Entries(ring, x, y) = Items(ring, x, y)
<1>1. \A n \in 0 .. Ahead(x, y) - 1 : ((x + n) % WRAP) % NUM = (x + n) % NUM
  <2> SUFFICES ASSUME NEW n \in 0 .. Ahead(x, y) - 1 PROVE ((x + n) % WRAP) % NUM = (x + n) % NUM
    OBVIOUS
  <2>0. Ahead(x, y) \in 0 .. WRAP - 1
    BY AheadIs
  <2>1. n \in 0 .. WRAP /\ x \in 0 .. WRAP - 1
    BY <2>0, Constants
  <2> QED
    BY <2>1, Constants, CellFurther, Zenon
<1>2. Entries(ring, x, y) = {ring[((x + n) % WRAP) % NUM] : n \in 0 .. Ahead(x, y) - 1}
  BY DEF Entries, Ahead
<1> QED
  BY <1>1, <1>2 DEF Items, Item

\* The producer writes the next cell.
IsLonger(ring2, ring, x, y, v) ==
    /\ Items(ring2, x, Incr(y)) = Items(ring, x, y) \cup {v}
    /\ Distinct(ring, x, y) /\ v \notin Items(ring, x, y) => Distinct(ring2, x, Incr(y))

LEMMA PutItem ==
  ASSUME NEW ring \in [Desc -> Desc \cup {None}], NEW x \in Idx, NEW y \in Idx, NEW v \in Desc,
         Ahead(x, y) < NUM, NEW ring2, ring2 = [ring EXCEPT ![y % NUM] = v]
  PROVE  IsLonger(ring2, ring, x, y, v)
<1> DEFINE c == Ahead(x, y)
<1>1. c \in Nat /\ c < NUM /\ x \in 0 .. WRAP - 1 /\ y \in 0 .. WRAP - 1 /\ x \in Nat
  BY AheadIs, Constants
<1>2. Ahead(x, Incr(y)) = c + 1
  <2>1. (y - x) % WRAP < WRAP - 1
    BY <1>1, Constants DEF Ahead
  <2> QED
    BY <1>1, <2>1, Grows, Constants, Zenon DEF Ahead, Incr
<1>3. y % NUM = (x + c) % NUM
  BY <1>1, Constants, EndCell, Zenon DEF Ahead
<1> HIDE DEF c
<1>4. \A n \in 0 .. c : (x + n) % NUM \in Desc
  <2>1. \A n \in 0 .. c : x + n \in Nat
    BY <1>1
  <2> QED
    BY <2>1, CellType
<1>5. Item(ring2, x, c) = v
  BY <1>1, <1>3, <1>4 DEF Item
<1>6. \A n \in 0 .. c - 1 : Item(ring2, x, n) = Item(ring, x, n)
  <2> SUFFICES ASSUME NEW n \in 0 .. c - 1 PROVE Item(ring2, x, n) = Item(ring, x, n)
    BY Zenon
  <2>2. n \in Nat /\ n < c /\ c - n < NUM
    BY <1>1, Constants
  <2>3. (x + n) % NUM # (x + c) % NUM
    BY <1>1, <2>2, Constants, CellsDiffer, Zenon
  <2>4. (x + n) % NUM \in Desc
    BY <1>1, <1>4, <2>2
  <2> QED
    BY <1>3, <2>3, <2>4 DEF Item
<1>7. 0 .. (c + 1) - 1 = (0 .. c - 1) \cup {c}
  BY <1>1
<1>8. Items(ring2, x, Incr(y)) = Items(ring, x, y) \cup {v}
  <2>1. Items(ring2, x, Incr(y)) = {Item(ring2, x, n) : n \in (0 .. c - 1) \cup {c}}
    BY <1>2, <1>7, Zenon DEF Items
  <2>2. Items(ring, x, y) = {Item(ring, x, n) : n \in 0 .. c - 1}
    BY DEF Items, c
  <2> QED
    BY <1>5, <1>6, <2>1, <2>2, Zenon
<1>9. ASSUME Distinct(ring, x, y), v \notin Items(ring, x, y) PROVE Distinct(ring2, x, Incr(y))
  <2>1. \A m, n \in 0 .. c - 1 : Item(ring, x, m) = Item(ring, x, n) => m = n
    BY <1>9 DEF Distinct, c
  <2>2. \A n \in 0 .. c - 1 : Item(ring, x, n) # v
    BY <1>9 DEF Items, c
  <2>3. \A m, n \in (0 .. c - 1) \cup {c} : Item(ring2, x, m) = Item(ring2, x, n) => m = n
    BY <1>5, <1>6, <2>1, <2>2, Zenon
  <2> QED
    BY <1>2, <1>7, <2>3 DEF Distinct
<1> QED
  BY <1>8, <1>9, Zenon DEF IsLonger

\* The consumer takes the first entry; the model clears its cell.
LEMMA TakeItem ==
  ASSUME NEW ring \in [Desc -> Desc \cup {None}], NEW x \in Idx, NEW y \in Idx, x # y, Ahead(x, y) <= NUM,
         Distinct(ring, x, y), NEW w, NEW ring2, ring2 = [ring EXCEPT ![x % NUM] = w]
  PROVE  /\ ring[x % NUM] \in Items(ring, x, y)
         /\ Items(ring2, Incr(x), y) = Items(ring, x, y) \ {ring[x % NUM]}
         /\ Distinct(ring2, Incr(x), y)
<1> DEFINE c == Ahead(x, y)  z == Incr(x)
<1>1. c \in Nat \ {0} /\ c <= NUM /\ x \in 0 .. WRAP - 1 /\ y \in 0 .. WRAP - 1 /\ x \in Nat
  BY AheadIs, Constants
<1>2. Ahead(z, y) = c - 1
  BY <1>1, Shrinks, Constants DEF Ahead, Incr
<1>3. \A n \in Nat : (z + n) % NUM = (x + (n + 1)) % NUM
  BY <1>1, Constants, NextCells, Zenon DEF Incr
<1> HIDE DEF c, z
<1>4. \A n \in 0 .. c - 1 : (x + n) % NUM \in Desc
  <2>1. \A n \in 0 .. c - 1 : x + n \in Nat
    BY <1>1
  <2> QED
    BY <2>1, CellType
<1>5. Item(ring, x, 0) = ring[x % NUM]
  BY <1>1 DEF Item
<1>6. \A n \in 0 .. c - 2 : Item(ring2, z, n) = Item(ring, x, n + 1)
  <2> SUFFICES ASSUME NEW n \in 0 .. c - 2 PROVE Item(ring2, z, n) = Item(ring, x, n + 1)
    BY Zenon
  <2>1. n \in Nat /\ n + 1 \in Nat /\ n + 1 \in 0 .. c - 1 /\ 0 < n + 1 /\ (n + 1) - 0 < NUM
    BY <1>1, Constants
  <2>2. (x + 0) % NUM # (x + (n + 1)) % NUM
    BY <1>1, <2>1, Constants, CellsDiffer, Zenon
  <2>3. x + 0 = x
    BY <1>1
  <2>4. (x + (n + 1)) % NUM \in Desc
    BY <1>4, <2>1
  <2>5. ring2[(x + (n + 1)) % NUM] = ring[(x + (n + 1)) % NUM]
    BY <2>2, <2>3, <2>4
  <2> QED
    BY <1>3, <2>1, <2>5 DEF Item
<1>7. 0 \in 0 .. c - 1 /\ \A n \in 0 .. c - 1 : n = 0 \/ n - 1 \in 0 .. c - 2
  BY <1>1
<1>8. \A n \in 0 .. c - 2 : n + 1 \in 0 .. c - 1 /\ n + 1 # 0
  BY <1>1
<1>9. (c - 1) - 1 = c - 2
  BY <1>1
<1>10. Items(ring, x, y) = {Item(ring, x, n) : n \in 0 .. c - 1}
  BY DEF Items, c
<1>11. Items(ring2, z, y) = {Item(ring2, z, n) : n \in 0 .. c - 2}
  BY <1>2, <1>9, Zenon DEF Items
<1>12. \A m, n \in 0 .. c - 1 : Item(ring, x, m) = Item(ring, x, n) => m = n
  BY DEF Distinct, c
<1>13. ring[x % NUM] \in Items(ring, x, y)
  BY <1>5, <1>7, <1>10
<1>14. Items(ring2, z, y) = Items(ring, x, y) \ {ring[x % NUM]}
  <2>1. ASSUME NEW v \in Items(ring2, z, y) PROVE v \in Items(ring, x, y) \ {ring[x % NUM]}
    <3>1. PICK n \in 0 .. c - 2 : v = Item(ring2, z, n)
      BY <1>11, Zenon
    <3>2. v = Item(ring, x, n + 1) /\ n + 1 \in 0 .. c - 1 /\ n + 1 # 0
      BY <1>6, <1>8, <3>1, Zenon
    <3> QED
      BY <1>5, <1>7, <1>10, <1>12, <3>2
  <2>2. ASSUME NEW v \in Items(ring, x, y) \ {ring[x % NUM]} PROVE v \in Items(ring2, z, y)
    <3>1. PICK n \in 0 .. c - 1 : v = Item(ring, x, n)
      BY <1>10
    <3>2. n # 0
      BY <1>5, <2>2, <3>1
    <3>3. n - 1 \in 0 .. c - 2 /\ (n - 1) + 1 = n
      BY <1>1, <1>7, <3>2
    <3>4. Item(ring2, z, n - 1) = v
      BY <1>6, <3>1, <3>3, Zenon
    <3> QED
      BY <1>11, <3>3, <3>4, Zenon
  <2> QED
    BY <2>1, <2>2, Zenon
<1>15. Distinct(ring2, z, y)
  <2> SUFFICES ASSUME NEW m \in 0 .. c - 2, NEW n \in 0 .. c - 2, Item(ring2, z, m) = Item(ring2, z, n)
               PROVE  m = n
    BY <1>2, <1>9 DEF Distinct
  <2>1. m + 1 = n + 1
    BY <1>6, <1>8, <1>12, Zenon
  <2> QED
    BY <1>1, <2>1
<1> QED
  BY <1>13, <1>14, <1>15, Zenon DEF z

(***************************************************************************)
(* Chains.                                                                 *)
(***************************************************************************)
LEMMA ChainIs ==
  ASSUME TypeOK, Linked, NEW b \in Submitted
  PROVE  Chain(idx[b]) = Three(b) /\ Three(b) \subseteq Desc /\ b \in Buf /\ idx[b] \in Desc
<1>1. b \in Buf /\ idx[b] \in Desc
  BY DEF TypeOK, Submitted
<1>2. Next1(b) \in Desc
  BY <1>1 DEF TypeOK, Next1
<1>3. Next2(b) \in Desc
  BY <1>2 DEF TypeOK, Next2
<1>4. desc[idx[b]].more /\ desc[desc[idx[b]].next].more
  BY DEF Linked, Next1
<1>5. Chain(idx[b]) = Three(b)
  BY <1>4 DEF Chain, Three, Next1, Next2
<1> QED
  BY <1>1, <1>2, <1>3, <1>5 DEF Three

LEMMA HeadIsOwn ==
  ASSUME Disjoint, NEW b \in Submitted, NEW q \in Submitted, idx[b] \in Three(q)
  PROVE  b = q
BY Zenon DEF Disjoint, Three

(***************************************************************************)
(* What virtio_disk_rw() does when it has three descriptors, and when it   *)
(* has the answer.                                                         *)
(***************************************************************************)
Submits(b, w, i, j, k) ==
    /\ {i, j, k} \subseteq free /\ i # j /\ j # k /\ i # k
    /\ b \in Buf \ Submitted /\ Submitted' = Submitted \cup {b} /\ pc'[b] = "wait" /\ bdisk'[b] = 1
    /\ \A q \in Buf \ {b} : pc'[q] = pc[q] /\ bdisk'[q] = bdisk[q] /\ idx'[q] = idx[q]
    /\ free' = free \ {i, j, k} /\ idx'[b] = i
    /\ desc'[i] = [addr |-> i, next |-> j, more |-> TRUE]
    /\ desc'[j] = [addr |-> b, next |-> k, more |-> TRUE]
    /\ desc'[k] = [addr |-> i, next |-> 0, more |-> FALSE]
    /\ \A d \in Desc \ {i, j, k} : desc'[d] = desc[d]
    /\ ops'[i] = [op |-> w, sector |-> b] /\ infob'[i] = b /\ status'[i] = 255
    /\ \A d \in Desc \ {i} : ops'[d] = ops[d] /\ infob'[d] = infob[d] /\ status'[d] = status[d]
    /\ avail' = [avail EXCEPT ![avail_idx % NUM] = i] /\ avail_idx' = Incr(avail_idx)

LEMMA SubmitIs ==
  ASSUME TypeOK, NEW b \in Buf, NEW w, pc[b] \in {"idle", "retry"}, Submit(b, w)
  PROVE  \E i, j, k \in Desc : Submits(b, w, i, j, k)
<1>1. PICK i \in free, j \in free, k \in free :
        /\ alloc3_desc(i, j, k)
        /\ free' = free \ {i, j, k}
        /\ ops' = [ops EXCEPT ![i] = [op |-> w, sector |-> b]]
        /\ desc' = [desc EXCEPT ![i] = [addr |-> i, next |-> j, more |-> TRUE],
                                ![j] = [addr |-> b, next |-> k, more |-> TRUE],
                                ![k] = [addr |-> i, next |-> 0, more |-> FALSE]]
        /\ status' = [status EXCEPT ![i] = 255]
        /\ infob' = [infob EXCEPT ![i] = b]
        /\ bdisk' = [bdisk EXCEPT ![b] = 1]
        /\ avail' = [avail EXCEPT ![avail_idx % NUM] = i]
        /\ avail_idx' = Incr(avail_idx)
        /\ idx' = [idx EXCEPT ![b] = i]
        /\ pc' = [pc EXCEPT ![b] = "wait"]
  BY Zenon DEF Submit
<1>2. i \in Desc /\ j \in Desc /\ k \in Desc
  BY DEF TypeOK
<1>3. i # j /\ j # k /\ i # k
  BY <1>1, <1>2, Constants DEF alloc3_desc, Desc
<1>4. Submitted' = Submitted \cup {b} /\ b \notin Submitted
  BY <1>1 DEF Submitted, TypeOK
<1>5. /\ pc'[b] = "wait" /\ bdisk'[b] = 1 /\ idx'[b] = i
      /\ \A q \in Buf \ {b} : pc'[q] = pc[q] /\ bdisk'[q] = bdisk[q] /\ idx'[q] = idx[q]
  BY <1>1 DEF TypeOK
<1>6. /\ desc'[i] = [addr |-> i, next |-> j, more |-> TRUE]
      /\ desc'[j] = [addr |-> b, next |-> k, more |-> TRUE]
      /\ desc'[k] = [addr |-> i, next |-> 0, more |-> FALSE]
      /\ \A d \in Desc \ {i, j, k} : desc'[d] = desc[d]
  <2>1. DOMAIN desc = Desc
    BY DEF TypeOK
  <2> QED
    BY <1>1, <1>2, <1>3, <2>1, Zenon
<1>7. /\ ops'[i] = [op |-> w, sector |-> b] /\ infob'[i] = b /\ status'[i] = 255
      /\ \A d \in Desc \ {i} : ops'[d] = ops[d] /\ infob'[d] = infob[d] /\ status'[d] = status[d]
  BY <1>1, <1>2 DEF TypeOK
<1>8. Submits(b, w, i, j, k)
  BY <1>1, <1>3, <1>4, <1>5, <1>6, <1>7, Zenon DEF Submits
<1> QED
  BY <1>2, <1>8

Finishes(b) ==
    /\ b \in Submitted /\ pc[b] = "woken" /\ bdisk[b] # 1
    /\ Submitted' = Submitted \ {b} /\ pc'[b] = "idle" /\ UNCHANGED <<bdisk, status>>
    /\ \A q \in Buf \ {b} : /\ idx'[q] = idx[q] /\ want'[q] = want[q] /\ buf'[q] = buf[q]
                            /\ pc'[q] = IF pc[q] = "nodesc" THEN "retry" ELSE pc[q]
    /\ want'[b] = "none"
    /\ free' = free \cup Three(b)
    /\ \A d \in Desc \ Three(b) : desc'[d] = desc[d]
    /\ \A d \in Desc \ {idx[b]} : ops'[d] = ops[d] /\ infob'[d] = infob[d]
    /\ panicked' = (Three(b) \cap free # {})

LEMMA FinishIs ==
  ASSUME TypeOK, Linked, NEW b \in Buf, finish(b)
  PROVE  Finishes(b)
<1>1. b \in Submitted /\ pc[b] = "woken" /\ bdisk[b] # 1
  BY DEF finish, Submitted, InFlight
<1>2. Chain(idx[b]) = Three(b) /\ Three(b) \subseteq Desc /\ idx[b] \in Desc
  BY <1>1, ChainIs
<1>3. /\ pc'[b] = "idle" /\ want'[b] = "none"
      /\ \A q \in Buf \ {b} : /\ idx'[q] = idx[q] /\ want'[q] = want[q] /\ buf'[q] = buf[q]
                              /\ pc'[q] = IF pc[q] = "nodesc" THEN "retry" ELSE pc[q]
  BY DEF finish, WakeFree, TypeOK
<1>4. Submitted' = Submitted \ {b}
  BY <1>3 DEF Submitted
<1>5. \A d \in Desc \ {idx[b]} : ops'[d] = ops[d] /\ infob'[d] = infob[d]
  BY DEF finish, TypeOK
<1>6. \A d \in Desc \ Three(b) : desc'[d] = desc[d]
  BY <1>2 DEF finish
<1> QED
  BY <1>1, <1>2, <1>3, <1>4, <1>5, <1>6, Zenon DEF finish, Finishes

(***************************************************************************)
(* The steps, by what they do to the descriptors.                          *)
(***************************************************************************)
Starts(b, w) ==
    /\ b \in Buf /\ w \in {"read", "write"} /\ pc[b] \in {"idle", "retry"}
    /\ want' = [want EXCEPT ![b] = w]
    /\ buf' \in [Buf -> Data \cup {Garbage}] /\ \A q \in Buf \ {b} : buf'[q] = buf[q]
    /\ w = "write" => buf'[b] \in Data
    /\ UNCHANGED <<used, used_ridx, used_idx, devvars, platter, intr, panicked>>

LEMMA StartIs ==
  ASSUME IInv, NEW b \in Buf,
         \/ virtio_disk_rw(b, "read", Garbage)
         \/ \E d \in Data : virtio_disk_rw(b, "write", d)
         \/ retry(b)
  PROVE  \E w \in {"read", "write"} :
            Starts(b, w) /\ IF CanAlloc3 THEN Submit(b, w) ELSE NoDescriptors(b)
<1>t. TypeOK /\ Callers
  BY DEF IInv
<1>1. CASE virtio_disk_rw(b, "read", Garbage)
  <2>1. Start(b, "read") /\ buf' = [buf EXCEPT ![b] = Garbage] /\ pc[b] = "idle"
    BY <1>1 DEF virtio_disk_rw
  <2>2. Starts(b, "read")
    BY <1>t, <2>1 DEF Starts, Start, TypeOK
  <2> QED
    BY <2>1, <2>2 DEF Start
<1>2. CASE \E d \in Data : virtio_disk_rw(b, "write", d)
  <2>1. PICK d \in Data : Start(b, "write") /\ buf' = [buf EXCEPT ![b] = d] /\ pc[b] = "idle"
    BY <1>2, Zenon DEF virtio_disk_rw
  <2>2. Starts(b, "write")
    BY <1>t, <2>1 DEF Starts, Start, TypeOK
  <2> QED
    BY <2>1, <2>2 DEF Start
<1>3. CASE retry(b)
  <2>1. Start(b, want[b]) /\ buf' = buf /\ pc[b] = "retry"
    BY <1>3 DEF retry
  <2>2. want[b] \in {"read", "write"} /\ (want[b] = "write" => buf[b] \in Data)
    BY <1>t, <2>1 DEF TypeOK, Callers, Op
  <2>3. Starts(b, want[b])
    BY <1>t, <2>1, <2>2 DEF Starts, Start, TypeOK
  <2> QED
    BY <2>1, <2>2, <2>3 DEF Start
<1> QED
  BY <1>1, <1>2, <1>3

LEMMA StartSubmits ==
  ASSUME TypeOK, NEW b \in Buf, NEW w, Starts(b, w), Submit(b, w)
  PROVE  \E i, j, k \in Desc : Submits(b, w, i, j, k)
<1>1. pc[b] \in {"idle", "retry"}
  BY DEF Starts
<1> QED
  BY <1>1, SubmitIs

\* The interrupt handler between the parts of its loop, and what does not concern the driver.
Quiet == intr_ack \/ intr_end \/ DevInterrupt

LEMMA StepCases ==
  ASSUME IInv, [Next]_vars
  PROVE  \/ \E b \in Buf, w \in {"read", "write"} : Starts(b, w) /\ Submit(b, w)
         \/ \E b \in Buf, w \in {"read", "write"} : Starts(b, w) /\ ~CanAlloc3 /\ NoDescriptors(b)
         \/ \E b \in Buf : finish(b)
         \/ \E b \in Buf : rewait(b) \/ kill(b)
         \/ Quiet \/ intr_loop \/ DevTake
         \/ \E h \in Desc : DevDone(h)
         \/ UNCHANGED vars
<1>1. ASSUME NEW b \in Buf,
             \/ virtio_disk_rw(b, "read", Garbage)
             \/ \E d \in Data : virtio_disk_rw(b, "write", d)
             \/ retry(b)
      PROVE  \E w \in {"read", "write"} :
                Starts(b, w) /\ (Submit(b, w) \/ (~CanAlloc3 /\ NoDescriptors(b)))
  BY <1>1, StartIs
<1> QED
  BY <1>1 DEF Next, Caller, Handler, Device, Quiet

\* Every number in the rings is that of a request.
LEMMA HeadsAre ==
  ASSUME IInv, NEW h \in Coming \cup working \cup Going
  PROVE  \E b \in Pending : h = idx[b] /\ h \in Desc /\ infob[h] = b /\ b \in Submitted /\ b \in Buf
<1>1. PICK b \in Pending : h = idx[b]
  BY DEF IInv, InOnePlace
<1>2. b \in Submitted /\ b \in Buf
  BY DEF Pending, Submitted
<1>3. idx[b] \in Desc
  BY <1>2 DEF IInv, TypeOK
<1>4. infob[idx[b]] = b
  BY <1>2, Zenon DEF IInv, Requests
<1> QED
  BY <1>1, <1>2, <1>3, <1>4

\* One turn of the handler's loop: the request of a caller is finished.
Answers(b) ==
    /\ b \in Pending /\ b \in Buf /\ idx[b] \in Going
    /\ bdisk' = [bdisk EXCEPT ![b] = 0] /\ pc' = [pc EXCEPT ![b] = IF @ = "wait" THEN "woken" ELSE @]
    /\ panicked' = FALSE /\ Going' = Going \ {idx[b]} /\ Distinct(used, used_idx, used_ridx)'

LEMMA LoopIs ==
  ASSUME IInv, intr_loop
  PROVE  \E b \in Buf : Answers(b)
<1> DEFINE id == used[used_idx % NUM]
<1>1. /\ panicked' = (status[id] # 0)
      /\ bdisk' = [bdisk EXCEPT ![infob[id]] = 0]
      /\ pc' = [pc EXCEPT ![infob[id]] = IF @ = "wait" THEN "woken" ELSE @]
      /\ used' = [used EXCEPT ![used_idx % NUM] = None] /\ used_idx' = Incr(used_idx)
      /\ used_ridx' = used_ridx /\ used_idx # used_ridx
  BY DEF intr_loop, UsedNext
<1>2. used \in [Desc -> Desc \cup {None}] /\ used_idx \in Idx /\ used_ridx \in Idx
  BY DEF IInv, TypeOK
<1>3. Ahead(used_idx, used_ridx) <= NUM
  BY Constants DEF IInv, RingsFit
<1>4. Distinct(used, used_idx, used_ridx)
  BY DEF IInv, OnceInRing
<1>5. /\ id \in Items(used, used_idx, used_ridx)
      /\ Items(used', Incr(used_idx), used_ridx) = Items(used, used_idx, used_ridx) \ {id}
      /\ Distinct(used', Incr(used_idx), used_ridx)
  BY <1>1, <1>2, <1>3, <1>4, TakeItem, Zenon
<1>6. id \in Going /\ Going' = Going \ {id}
  BY <1>1, <1>5, Zenon DEF Going
<1>7. Distinct(used, used_idx, used_ridx)' = Distinct(used', Incr(used_idx), used_ridx)
  BY <1>1 DEF Distinct, Ahead, Item
<1>8. status[id] = 0
  BY <1>6 DEF IInv, InOnePlace
<1> HIDE DEF id
<1>9. PICK b \in Pending : id = idx[b] /\ infob[id] = b /\ b \in Buf
  BY <1>6, HeadsAre
<1> QED
  BY <1>1, <1>5, <1>6, <1>7, <1>8, <1>9, Zenon DEF Answers

\* The device takes a request off the avail ring ...
LEMMA TakeIs ==
  ASSUME IInv, DevTake
  PROVE  \E h \in Desc : /\ h \in Coming /\ working' = working \cup {h}
                         /\ Coming' = Coming \ {h} /\ Distinct(avail, seen, avail_idx)'
<1> DEFINE h == avail[seen % NUM]
<1>1. /\ working' = working \cup {h} /\ avail' = [avail EXCEPT ![seen % NUM] = None]
      /\ seen' = Incr(seen) /\ avail_idx' = avail_idx /\ seen # avail_idx
  BY DEF DevTake
<1>2. avail \in [Desc -> Desc \cup {None}] /\ seen \in Idx /\ avail_idx \in Idx
  BY DEF IInv, TypeOK
<1>3. Ahead(seen, avail_idx) <= NUM
  BY Constants DEF IInv, RingsFit
<1>4. Distinct(avail, seen, avail_idx)
  BY DEF IInv, OnceInRing
<1>5. /\ h \in Items(avail, seen, avail_idx)
      /\ Items(avail', Incr(seen), avail_idx) = Items(avail, seen, avail_idx) \ {h}
      /\ Distinct(avail', Incr(seen), avail_idx)
  BY <1>1, <1>2, <1>3, <1>4, TakeItem, Zenon
<1>6. h \in Coming /\ Coming' = Coming \ {h}
  BY <1>1, <1>5, Zenon DEF Coming
<1>7. Distinct(avail, seen, avail_idx)' = Distinct(avail', Incr(seen), avail_idx)
  BY <1>1 DEF Distinct, Ahead, Item
<1> HIDE DEF h
<1>8. h \in Desc
  BY <1>6, HeadsAre
<1> QED
  BY <1>1, <1>5, <1>6, <1>7, <1>8

\* ... and performs one.
Performs(b) ==
    /\ b \in Pending /\ b \in Buf /\ idx[b] \in Desc /\ idx[b] \in working
    /\ status[idx[b]] = 255 /\ status' = [status EXCEPT ![idx[b]] = 0]
    /\ want[b] \in {"read", "write"}
    /\ IF want[b] = "write" THEN platter' = [platter EXCEPT ![b] = buf[b]] /\ UNCHANGED buf
                            ELSE buf' = [buf EXCEPT ![b] = platter[b]] /\ UNCHANGED platter
    /\ working' = working \ {idx[b]}
    /\ Going' = Going \cup {idx[b]} /\ Distinct(used, used_idx, used_ridx)'

LEMMA DoneIs ==
  ASSUME IInv, NEW h \in Desc, DevDone(h)
  PROVE  \E b \in Buf : Performs(b)
<1>1. PICK b \in Pending : h = idx[b] /\ infob[h] = b /\ b \in Submitted /\ b \in Buf
  BY HeadsAre DEF DevDone
<1>2. desc[desc[h].next].addr = b /\ desc[desc[desc[h].next].next].addr = h
  BY <1>1 DEF IInv, Linked, Next1, Next2
<1>3. ops[h].op = want[b] /\ ops[h].sector = b /\ want[b] \in {"read", "write"}
  <2>1. ops[h] = [op |-> want[b], sector |-> b]
    BY <1>1 DEF IInv, Requests
  <2>2. want[b] \in Op /\ want[b] # "none"
    BY <1>1 DEF IInv, TypeOK, Callers, Submitted
  <2> QED
    BY <2>1, <2>2 DEF Op
<1>4. h \in working /\ status[h] = 255 /\ h \notin Going
  <2>1. h \in working
    BY DEF DevDone
  <2>2. working \cap Going = {} /\ \A g \in Coming \cup working : status[g] = 255
    BY DEF IInv, InOnePlace
  <2> QED
    BY <2>1, <2>2
<1>5. used \in [Desc -> Desc \cup {None}] /\ used_idx \in Idx /\ used_ridx \in Idx
  BY DEF IInv, TypeOK
<1>6. Ahead(used_idx, used_ridx) < NUM
  BY <1>4 DEF IInv, RingsFit
<1>7. used' = [used EXCEPT ![used_ridx % NUM] = h] /\ used_ridx' = Incr(used_ridx) /\ used_idx' = used_idx
  BY DEF DevDone
<1>8. Distinct(used, used_idx, used_ridx) /\ h \notin Items(used, used_idx, used_ridx)
  BY <1>4 DEF IInv, OnceInRing, Going
<1>9. IsLonger(used', used, used_idx, used_ridx, h)
  BY <1>5, <1>6, <1>7, PutItem, Zenon
<1>10. Going' = Going \cup {h}
  BY <1>7, <1>9, Zenon DEF Going, IsLonger
<1>11. Distinct(used, used_idx, used_ridx)'
  <2>1. Distinct(used', used_idx, Incr(used_ridx))
    BY <1>8, <1>9 DEF IsLonger
  <2> QED
    BY <1>7, <2>1 DEF Distinct, Ahead, Item
<1>12. Performs(b)
  BY <1>1, <1>2, <1>3, <1>4, <1>10, <1>11 DEF DevDone, Performs
<1> QED
  BY <1>1, <1>12

(***************************************************************************)
(* Every step preserves the invariant, one conjunct at a time.             *)
(***************************************************************************)
LEMMA TypeStep == IInv /\ [Next]_vars => TypeOK'
<1> SUFFICES ASSUME IInv, [Next]_vars PROVE TypeOK'
  OBVIOUS
<1>t. TypeOK /\ Callers
  BY DEF IInv
<1>c. \A x \in Idx : Incr(x) \in Idx /\ x % NUM \in Desc
  <2>1. \A x \in Idx : x \in Nat
    BY Constants
  <2> QED
    BY <2>1, IncrType, CellType
<1>1. ASSUME NEW b \in Buf, NEW w \in {"read", "write"}, Starts(b, w), Submit(b, w) PROVE TypeOK'
  <2>1. PICK i \in free, j \in free, k \in free :
          /\ alloc3_desc(i, j, k)
          /\ free' = free \ {i, j, k}
          /\ ops' = [ops EXCEPT ![i] = [op |-> w, sector |-> b]]
          /\ desc' = [desc EXCEPT ![i] = [addr |-> i, next |-> j, more |-> TRUE],
                                  ![j] = [addr |-> b, next |-> k, more |-> TRUE],
                                  ![k] = [addr |-> i, next |-> 0, more |-> FALSE]]
          /\ status' = [status EXCEPT ![i] = 255]
          /\ infob' = [infob EXCEPT ![i] = b]
          /\ bdisk' = [bdisk EXCEPT ![b] = 1]
          /\ avail' = [avail EXCEPT ![avail_idx % NUM] = i]
          /\ avail_idx' = Incr(avail_idx)
          /\ idx' = [idx EXCEPT ![b] = i]
          /\ pc' = [pc EXCEPT ![b] = "wait"]
    BY <1>1, Zenon DEF Submit
  <2>2. i \in Desc /\ j \in Desc /\ k \in Desc /\ 0 \in Desc
    BY <1>t, Constants DEF TypeOK
  <2>3. desc' \in [Desc -> [addr : Desc \cup Buf \cup {None}, next : Desc, more : BOOLEAN]]
    BY <1>t, <2>1, <2>2, Zenon DEF TypeOK
  <2>4. ops' \in [Desc -> [op : Op, sector : Buf \cup {None}]] /\ infob' \in [Desc -> Buf \cup {None}]
    BY <1>t, <2>1, <2>2 DEF TypeOK, Op
  <2>5. status' \in [Desc -> {0, 255}] /\ bdisk' \in [Buf -> {0, 1}] /\ free' \subseteq Desc
    BY <1>t, <2>1, <2>2 DEF TypeOK
  <2>6. avail' \in [Desc -> Desc \cup {None}] /\ avail_idx' \in Idx
    BY <1>t, <1>c, <2>1, <2>2 DEF TypeOK
  <2>7. idx' \in [Buf -> Desc] /\ pc' \in [Buf -> {"idle", "nodesc", "retry", "wait", "woken"}]
    BY <1>t, <2>1, <2>2 DEF TypeOK
  <2>8. want' \in [Buf -> Op]
    BY <1>t, <1>1 DEF TypeOK, Starts, Op
  <2> QED
    BY <1>t, <1>1, <2>3, <2>4, <2>5, <2>6, <2>7, <2>8 DEF TypeOK, Starts, devvars
<1>2. ASSUME NEW b \in Buf, NEW w \in {"read", "write"}, Starts(b, w), NoDescriptors(b) PROVE TypeOK'
  <2>1. pc' \in [Buf -> {"idle", "nodesc", "retry", "wait", "woken"}]
    BY <1>t, <1>2 DEF TypeOK, NoDescriptors, WakeFree
  <2>2. want' \in [Buf -> Op]
    BY <1>t, <1>2 DEF TypeOK, Starts, Op
  <2> QED
    BY <1>t, <1>2, <2>1, <2>2, Zenon DEF TypeOK, Starts, NoDescriptors, devvars, descvars
<1>3. ASSUME NEW b \in Buf, finish(b) PROVE TypeOK'
  <2>1. Chain(idx[b]) \subseteq Desc /\ idx[b] \in Desc
    <3>1. b \in Submitted
      BY <1>3 DEF finish, Submitted
    <3> QED
      BY <1>t, <3>1, ChainIs DEF IInv
  <2>2. pc' \in [Buf -> {"idle", "nodesc", "retry", "wait", "woken"}]
    BY <1>t, <1>3 DEF TypeOK, finish, WakeFree
  <2>3. desc' \in [Desc -> [addr : Desc \cup Buf \cup {None}, next : Desc, more : BOOLEAN]]
    BY <1>t, <1>3, Constants DEF TypeOK, finish, NoDesc
  <2>4. ops' \in [Desc -> [op : Op, sector : Buf \cup {None}]] /\ infob' \in [Desc -> Buf \cup {None}]
    BY <1>t, <1>3, <2>1 DEF TypeOK, finish, NoReq, Op
  <2>5. want' \in [Buf -> Op] /\ idx' \in [Buf -> Desc] /\ buf' \in [Buf -> Data \cup {Garbage}]
    BY <1>t, <1>3, Constants DEF TypeOK, finish, Op
  <2>6. free' \subseteq Desc /\ panicked' \in BOOLEAN
    BY <1>t, <1>3, <2>1 DEF TypeOK, finish
  <2> QED
    BY <1>t, <1>3, <2>2, <2>3, <2>4, <2>5, <2>6, Zenon DEF TypeOK, finish, ringvars, devvars
<1>4. ASSUME NEW b \in Buf, rewait(b) \/ kill(b) PROVE TypeOK'
  <2>1. pc' \in [Buf -> {"idle", "nodesc", "retry", "wait", "woken"}]
    BY <1>t, <1>4 DEF TypeOK, rewait, kill
  <2> QED
    BY <1>t, <1>4, <2>1, SMTT(30) DEF TypeOK, rewait, kill, descvars, ringvars, devvars, datavars
<1>5. CASE Quiet
  <2>1. intr' \in {"off", "loop"} /\ late' \in BOOLEAN /\ irq' \in BOOLEAN
    BY <1>t, <1>5, Zenon DEF TypeOK, Quiet, intr_ack, intr_end, DevInterrupt, devvars
  <2>2. UNCHANGED <<descvars, ringvars, seen, working, callvars, datavars, panicked>>
    BY <1>5 DEF Quiet, intr_ack, intr_end, DevInterrupt, devvars
  <2> QED
    BY <1>t, <2>1, <2>2 DEF TypeOK, descvars, ringvars, callvars, datavars
<1>6. CASE intr_loop
  <2>1. PICK b \in Buf : Answers(b)
    BY <1>6, LoopIs
  <2>2. bdisk' \in [Buf -> {0, 1}] /\ pc' \in [Buf -> {"idle", "nodesc", "retry", "wait", "woken"}]
    BY <1>t, <2>1 DEF TypeOK, Answers
  <2>3. used' \in [Desc -> Desc \cup {None}] /\ used_idx' \in Idx /\ panicked' \in BOOLEAN
    BY <1>t, <1>c, <1>6 DEF TypeOK, intr_loop, UsedNext
  <2> QED
    BY <1>t, <1>6, <2>2, <2>3 DEF TypeOK, intr_loop, descvars, devvars, datavars
<1>7. CASE DevTake
  <2>1. working' \subseteq Desc
    BY <1>t, <1>7, TakeIs DEF TypeOK
  <2>2. avail' \in [Desc -> Desc \cup {None}] /\ seen' \in Idx
    BY <1>t, <1>c, <1>7 DEF TypeOK, DevTake
  <2> QED
    BY <1>t, <1>7, <2>1, <2>2 DEF TypeOK, DevTake, descvars, callvars, datavars
<1>8. ASSUME NEW h \in Desc, DevDone(h) PROVE TypeOK'
  <2>1. PICK b \in Buf : Performs(b)
    BY <1>8, DoneIs
  <2>2. platter' \in [Buf -> Data] /\ buf' \in [Buf -> Data \cup {Garbage}]
    <3>1. CASE want[b] = "write"
      <4>1. platter' = [platter EXCEPT ![b] = buf[b]] /\ buf' = buf /\ buf[b] \in Data
        BY <1>t, <2>1, <3>1 DEF Performs, Callers
      <4> QED
        BY <1>t, <4>1 DEF TypeOK
    <3>2. CASE want[b] # "write"
      <4>1. buf' = [buf EXCEPT ![b] = platter[b]] /\ platter' = platter
        BY <2>1, <3>2 DEF Performs
      <4> QED
        BY <1>t, <4>1 DEF TypeOK
    <3> QED
      BY <3>1, <3>2
  <2>3. status' \in [Desc -> {0, 255}] /\ working' \subseteq Desc
    BY <1>t, <2>1 DEF TypeOK, Performs
  <2>4. used' \in [Desc -> Desc \cup {None}] /\ used_ridx' \in Idx /\ late' \in BOOLEAN
    BY <1>t, <1>c, <1>8 DEF TypeOK, DevDone
  <2> QED
    BY <1>t, <1>8, <2>2, <2>3, <2>4 DEF TypeOK, DevDone, callvars
<1>9. CASE UNCHANGED vars
  BY <1>t, <1>9 DEF TypeOK, vars, descvars, ringvars, devvars, callvars, datavars
<1> QED
  BY <1>1, <1>2, <1>3, <1>4, <1>5, <1>6, <1>7, <1>8, <1>9, StepCases

LEMMA CallersStep == IInv /\ [Next]_vars => Callers'
<1> SUFFICES ASSUME IInv, [Next]_vars PROVE Callers'
  OBVIOUS
<1>t. TypeOK /\ Callers
  BY DEF IInv
\* The steps that change the location of sleepers only.
<1>1. ASSUME UNCHANGED <<want, bdisk, buf>>,
             \A q \in Buf : \/ pc'[q] = pc[q]
                            \/ pc[q] \in {"wait", "woken"} /\ pc'[q] = "woken"
                            \/ pc[q] = "woken" /\ pc'[q] = "wait" /\ bdisk[q] = 1
                            \/ pc[q] = "nodesc" /\ pc'[q] = "retry"
      PROVE  Callers'
  BY <1>t, <1>1 DEF Callers, Submitted
<1>2. ASSUME NEW b \in Buf, NEW w \in {"read", "write"}, Starts(b, w), Submit(b, w) PROVE Callers'
  <2>1. PICK i \in Desc, j \in Desc, k \in Desc : Submits(b, w, i, j, k)
    BY <1>t, <1>2, StartSubmits
  <2>2. want'[b] = w /\ \A q \in Buf \ {b} : want'[q] = want[q] /\ buf'[q] = buf[q]
    BY <1>t, <1>2 DEF TypeOK, Starts
  <2>3. /\ pc'[b] = "wait" /\ bdisk'[b] = 1 /\ b \notin Submitted /\ Submitted' = Submitted \cup {b}
        /\ \A q \in Buf \ {b} : pc'[q] = pc[q] /\ bdisk'[q] = bdisk[q]
    BY <2>1 DEF Submits
  <2>4. w = "write" => buf'[b] \in Data
    BY <1>2 DEF Starts
  <2>5. ASSUME NEW q \in Buf \ {b}
        PROVE  /\ pc'[q] = "idle" <=> want'[q] = "none"
               /\ q \notin Submitted' => bdisk'[q] = 0
               /\ pc'[q] = "wait" => bdisk'[q] = 1
               /\ want'[q] = "write" => buf'[q] \in Data
    BY <1>t, <2>2, <2>3 DEF Callers
  <2> QED
    BY <1>2, <2>2, <2>3, <2>4, <2>5 DEF Callers
<1>3. ASSUME NEW b \in Buf, NEW w \in {"read", "write"}, Starts(b, w), NoDescriptors(b) PROVE Callers'
  <2>1. want'[b] = w /\ \A q \in Buf \ {b} : want'[q] = want[q] /\ buf'[q] = buf[q]
    BY <1>t, <1>3 DEF TypeOK, Starts
  <2>2. /\ pc'[b] = "nodesc" /\ bdisk' = bdisk /\ b \notin Submitted
        /\ \A q \in Buf \ {b} : pc'[q] = pc[q] \/ (pc[q] = "nodesc" /\ pc'[q] = "retry")
    BY <1>t, <1>3 DEF TypeOK, NoDescriptors, WakeFree, Starts, Submitted
  <2> QED
    BY <1>t, <1>3, <2>1, <2>2 DEF Callers, Submitted, Starts
<1>4. ASSUME NEW b \in Buf, finish(b) PROVE Callers'
  <2>1. Finishes(b)
    BY <1>t, <1>4, FinishIs DEF IInv
  <2>2. bdisk[b] = 0
    BY <1>t, <2>1 DEF TypeOK, Finishes
  <2> QED
    BY <1>t, <2>1, <2>2 DEF Callers, Submitted, Finishes
<1>5. ASSUME NEW b \in Buf, rewait(b) \/ kill(b) PROVE Callers'
  <2>1. UNCHANGED <<want, bdisk, buf>>
    BY <1>5 DEF rewait, kill, datavars
  <2>2. \A q \in Buf : \/ pc'[q] = pc[q]
                       \/ pc[q] \in {"wait", "woken"} /\ pc'[q] = "woken"
                       \/ pc[q] = "woken" /\ pc'[q] = "wait" /\ bdisk[q] = 1
                       \/ pc[q] = "nodesc" /\ pc'[q] = "retry"
    BY <1>t, <1>5 DEF rewait, kill, InFlight, TypeOK
  <2> QED
    BY <1>1, <2>1, <2>2
<1>6. CASE Quiet \/ DevTake \/ UNCHANGED vars
  <2>1. UNCHANGED <<want, bdisk, buf, pc>>
    BY <1>6 DEF Quiet, intr_ack, intr_end, DevInterrupt, DevTake, vars, callvars, datavars
  <2> QED
    BY <1>1, <2>1
<1>7. CASE intr_loop
  <2>1. PICK b \in Buf : Answers(b)
    BY <1>7, LoopIs
  <2>2. UNCHANGED <<want, buf>>
    BY <1>7 DEF intr_loop, datavars
  <2>3. /\ pc[b] \in {"wait", "woken"} /\ pc'[b] = "woken" /\ bdisk'[b] = 0
        /\ \A q \in Buf \ {b} : pc'[q] = pc[q] /\ bdisk'[q] = bdisk[q]
    BY <1>t, <2>1 DEF TypeOK, Answers, Pending, Submitted
  <2> QED
    BY <1>t, <2>2, <2>3 DEF Callers, Submitted
<1>8. ASSUME NEW h \in Desc, DevDone(h) PROVE Callers'
  <2>1. PICK b \in Buf : Performs(b)
    BY <1>8, DoneIs
  <2>2. UNCHANGED <<want, bdisk, pc>>
    BY <1>8 DEF DevDone, callvars
  <2>3. \A q \in Buf : want[q] = "write" => buf'[q] = buf[q]
    BY <1>t, <2>1 DEF TypeOK, Performs
  <2> QED
    BY <1>t, <2>2, <2>3 DEF Callers, Submitted
<1> QED
  BY <1>2, <1>3, <1>4, <1>5, <1>6, <1>7, <1>8, StepCases

\* Chains: only alloc3_desc() and free_chain() change them.
LEMMA ChainsStep == IInv /\ [Next]_vars => Linked' /\ Disjoint' /\ FreeIsRest'
<1> SUFFICES ASSUME IInv, [Next]_vars PROVE Linked' /\ Disjoint' /\ FreeIsRest'
  OBVIOUS
<1>t. TypeOK /\ Linked /\ Disjoint /\ FreeIsRest
  BY DEF IInv
<1>c. \A q \in Submitted : /\ Three(q) \subseteq Desc /\ q \in Buf /\ idx[q] \in Desc
                           /\ Three(q) \cap free = {}
  <2>1. \A q \in Submitted : Three(q) \subseteq Desc /\ q \in Buf /\ idx[q] \in Desc
    BY <1>t, ChainIs
  <2> QED
    BY <1>t, <2>1 DEF FreeIsRest
\* A chain whose descriptors are left alone.
<1>k. ASSUME NEW q, idx'[q] = idx[q], \A d \in Three(q) : desc'[d] = desc[d]
      PROVE  /\ Next1(q)' = Next1(q) /\ Next2(q)' = Next2(q) /\ Three(q)' = Three(q)
             /\ desc'[idx[q]] = desc[idx[q]] /\ desc'[Next1(q)] = desc[Next1(q)]
             /\ desc'[Next2(q)] = desc[Next2(q)]
  <2>1. /\ desc'[idx[q]] = desc[idx[q]] /\ desc'[Next1(q)] = desc[Next1(q)]
        /\ desc'[Next2(q)] = desc[Next2(q)]
    BY <1>k DEF Three
  <2>2. Next1(q)' = Next1(q)
    BY <1>k, <2>1 DEF Next1
  <2>3. Next2(q)' = Next2(q)
    BY <2>1, <2>2 DEF Next2
  <2> QED
    BY <1>k, <2>1, <2>2, <2>3 DEF Three
<1> DEFINE Kept(q) == idx'[q] = idx[q] /\ \A d \in Three(q) : desc'[d] = desc[d]
<1>l. ASSUME NEW q \in Submitted, Kept(q)
      PROVE  /\ Three(q)' = Three(q)
             /\ desc'[idx'[q]].more /\ desc'[Next1(q)'].more
             /\ idx'[q] # Next1(q)' /\ idx'[q] # Next2(q)' /\ Next1(q)' # Next2(q)'
             /\ desc'[Next1(q)'].addr = q /\ desc'[Next2(q)'].addr = idx'[q]
  <2>1. /\ Next1(q)' = Next1(q) /\ Next2(q)' = Next2(q) /\ Three(q)' = Three(q) /\ idx'[q] = idx[q]
        /\ desc'[idx[q]] = desc[idx[q]] /\ desc'[Next1(q)] = desc[Next1(q)]
        /\ desc'[Next2(q)] = desc[Next2(q)]
    BY <1>k, <1>l, Zenon
  <2>2. /\ desc[idx[q]].more /\ desc[Next1(q)].more
        /\ idx[q] # Next1(q) /\ idx[q] # Next2(q) /\ Next1(q) # Next2(q)
        /\ desc[Next1(q)].addr = q /\ desc[Next2(q)].addr = idx[q]
    BY <1>t, Zenon DEF Linked
  <2> QED
    BY <2>1, <2>2, SMTT(30)
<1>1. ASSUME UNCHANGED <<free, desc, idx>>, Submitted' = Submitted
      PROVE  Linked' /\ Disjoint' /\ FreeIsRest'
  <2>1. \A q \in Submitted : Kept(q)
    BY <1>1
  <2>2. \A q \in Submitted : Three(q)' = Three(q)
    BY <1>l, <2>1
  <2>3. Linked'
    BY <1>1, <1>l, <2>1 DEF Linked
  <2> QED
    BY <1>1, <1>t, <2>2, <2>3 DEF Disjoint, FreeIsRest
<1>2. ASSUME NEW b \in Buf, NEW w \in {"read", "write"}, Starts(b, w), Submit(b, w)
      PROVE  Linked' /\ Disjoint' /\ FreeIsRest'
  <2>1. PICK i \in Desc, j \in Desc, k \in Desc : Submits(b, w, i, j, k)
    BY <1>t, <1>2, StartSubmits
  <2>2. \A q \in Submitted : Kept(q)
    <3> SUFFICES ASSUME NEW q \in Submitted PROVE Kept(q)
      OBVIOUS
    <3>1. {i, j, k} \subseteq free /\ b \notin Submitted
      BY <2>1, Zenon DEF Submits
    <3>2. (\A p \in Buf \ {b} : idx'[p] = idx[p]) /\ \A d \in Desc \ {i, j, k} : desc'[d] = desc[d]
      BY <2>1, Zenon DEF Submits
    <3>3. q \in Buf \ {b} /\ Three(q) \subseteq Desc \ {i, j, k}
      BY <1>c, <3>1
    <3> QED
      BY <3>2, <3>3, Zenon
  <2>3. \A q \in Submitted : Three(q)' = Three(q)
    BY <1>l, <2>2
  <2>d. /\ idx'[b] = i /\ i # j /\ j # k /\ i # k
        /\ desc'[i] = [addr |-> i, next |-> j, more |-> TRUE]
        /\ desc'[j] = [addr |-> b, next |-> k, more |-> TRUE]
        /\ desc'[k] = [addr |-> i, next |-> 0, more |-> FALSE]
    BY <2>1, Zenon DEF Submits
  <2>4. idx'[b] = i /\ Next1(b)' = j /\ Next2(b)' = k
    BY <2>d DEF Next1, Next2
  <2>5. Three(b)' = {i, j, k}
    BY <2>4 DEF Three
  <2>6. Submitted' = Submitted \cup {b} /\ b \notin Submitted /\ free' = free \ {i, j, k} /\ {i, j, k} \subseteq free
    BY <2>1, Zenon DEF Submits
  <2>7. Linked'
    <3>1. /\ desc'[idx'[b]].more /\ desc'[Next1(b)'].more
          /\ idx'[b] # Next1(b)' /\ idx'[b] # Next2(b)' /\ Next1(b)' # Next2(b)'
          /\ desc'[Next1(b)'].addr = b /\ desc'[Next2(b)'].addr = idx'[b]
      BY <2>d, <2>4
    <3> QED
      BY <1>l, <2>2, <2>6, <3>1 DEF Linked
  <2>8. Disjoint'
    BY <1>t, <1>c, <2>3, <2>5, <2>6, SMTT(30) DEF Disjoint
  <2>9. FreeIsRest'
    BY <1>t, <2>3, <2>5, <2>6 DEF FreeIsRest
  <2> QED
    BY <2>7, <2>8, <2>9
<1>3. ASSUME NEW b \in Buf, finish(b) PROVE Linked' /\ Disjoint' /\ FreeIsRest'
  <2>1. Finishes(b)
    BY <1>t, <1>3, FinishIs
  <2>2. b \in Submitted /\ Submitted' = Submitted \ {b} /\ free' = free \cup Three(b)
    BY <2>1 DEF Finishes
  <2>3. \A q \in Submitted' : Kept(q)
    <3> SUFFICES ASSUME NEW q \in Submitted \ {b} PROVE Kept(q)
      BY <2>2
    <3>1. q \in Buf \ {b} /\ Three(q) \cap Three(b) = {}
      BY <1>t, <1>c, <2>2 DEF Disjoint
    <3> QED
      BY <1>c, <2>1, <3>1 DEF Finishes
  <2>4. \A q \in Submitted' : Three(q)' = Three(q)
    BY <1>l, <2>2, <2>3
  <2>5. Linked'
    BY <1>l, <2>2, <2>3 DEF Linked
  <2>6. Disjoint'
    BY <1>t, <2>2, <2>4 DEF Disjoint
  <2>7. FreeIsRest'
    <3> SUFFICES ASSUME NEW d \in Desc
                 PROVE  d \in free' <=> \A q \in Submitted' : d \notin Three(q)
      BY <2>4 DEF FreeIsRest
    <3>1. d \in free <=> \A q \in Submitted : d \notin Three(q)
      BY <1>t DEF FreeIsRest
    <3>2. ASSUME d \in Three(b) PROVE \A q \in Submitted \ {b} : d \notin Three(q)
      BY <1>t, <2>2, <3>2 DEF Disjoint
    <3> QED
      BY <2>2, <3>1, <3>2
  <2> QED
    BY <2>5, <2>6, <2>7
<1>4. ASSUME NEW b \in Buf, NEW w, Starts(b, w), NoDescriptors(b)
      PROVE  Linked' /\ Disjoint' /\ FreeIsRest'
  <2>1. UNCHANGED <<free, desc, idx>>
    BY <1>4 DEF NoDescriptors, descvars
  <2>2. Submitted' = Submitted
    BY <1>t, <1>4 DEF NoDescriptors, WakeFree, Starts, Submitted, TypeOK
  <2> QED
    BY <1>1, <2>1, <2>2
<1>5. ASSUME NEW b \in Buf, rewait(b) \/ kill(b) PROVE Linked' /\ Disjoint' /\ FreeIsRest'
  <2>1. UNCHANGED <<free, desc, idx>>
    BY <1>5 DEF rewait, kill, descvars
  <2>2. Submitted' = Submitted
    BY <1>t, <1>5 DEF rewait, kill, Submitted, TypeOK
  <2> QED
    BY <1>1, <2>1, <2>2
<1>6. CASE Quiet \/ DevTake \/ UNCHANGED vars \/ \E h \in Desc : DevDone(h)
  <2>1. UNCHANGED <<free, desc, idx, pc>>
    BY <1>6, Zenon DEF Quiet, intr_ack, intr_end, DevInterrupt, DevTake, DevDone, vars, callvars, descvars
  <2> QED
    BY <1>1, <2>1 DEF Submitted
<1>7. CASE intr_loop
  <2>1. UNCHANGED <<free, desc, idx>>
    BY <1>7 DEF intr_loop, descvars
  <2>2. Submitted' = Submitted
    <3>1. PICK b \in Buf : Answers(b)
      BY <1>7, LoopIs
    <3> QED
      BY <1>t, <3>1 DEF Answers, Submitted, TypeOK
  <2> QED
    BY <1>1, <2>1, <2>2
<1> QED
  BY <1>2, <1>3, <1>4, <1>5, <1>6, <1>7, StepCases

LEMMA RequestsStep == IInv /\ [Next]_vars => Requests'
<1> SUFFICES ASSUME IInv, [Next]_vars PROVE Requests'
  OBVIOUS
<1>t. TypeOK /\ Linked /\ Disjoint /\ FreeIsRest /\ Requests
  BY DEF IInv
<1>c. \A q \in Submitted : q \in Buf /\ idx[q] \in Desc /\ idx[q] \notin free
  <2>1. \A q \in Submitted : q \in Buf /\ idx[q] \in Desc
    BY <1>t, ChainIs
  <2> QED
    BY <1>t, <2>1 DEF FreeIsRest, Three
<1>1. ASSUME UNCHANGED <<infob, ops, idx>>, Submitted' = Submitted,
             \A q \in Submitted : want'[q] = want[q] /\ (bdisk'[q] = 0 => status'[idx[q]] = 0)
      PROVE  Requests'
  BY <1>t, <1>1 DEF Requests
<1>2. ASSUME NEW b \in Buf, NEW w \in {"read", "write"}, Starts(b, w), Submit(b, w) PROVE Requests'
  <2>1. PICK i \in Desc, j \in Desc, k \in Desc : Submits(b, w, i, j, k)
    BY <1>t, <1>2, StartSubmits
  <2>2. want'[b] = w /\ \A q \in Buf \ {b} : want'[q] = want[q]
    BY <1>t, <1>2 DEF TypeOK, Starts
  <2>3. ASSUME NEW q \in Submitted
        PROVE  /\ idx'[q] = idx[q] /\ bdisk'[q] = bdisk[q] /\ want'[q] = want[q]
               /\ infob'[idx[q]] = infob[idx[q]] /\ ops'[idx[q]] = ops[idx[q]]
               /\ status'[idx[q]] = status[idx[q]]
    <3>1. /\ {i, j, k} \subseteq free /\ b \notin Submitted
          /\ (\A p \in Buf \ {b} : bdisk'[p] = bdisk[p] /\ idx'[p] = idx[p])
          /\ \A d \in Desc \ {i} : ops'[d] = ops[d] /\ infob'[d] = infob[d] /\ status'[d] = status[d]
      BY <2>1, Zenon DEF Submits
    <3>2. q \in Buf \ {b} /\ idx[q] \in Desc \ {i}
      BY <1>c, <3>1
    <3> QED
      BY <2>2, <3>1, <3>2, Zenon
  <2>4. Submitted' = Submitted \cup {b} /\ idx'[b] = i /\ infob'[i] = b /\ bdisk'[b] = 1
        /\ ops'[i] = [op |-> w, sector |-> b]
    BY <2>1, Zenon DEF Submits
  <2>5. ASSUME NEW q \in Submitted
        PROVE  /\ infob'[idx'[q]] = q /\ ops'[idx'[q]] = [op |-> want'[q], sector |-> q]
               /\ bdisk'[q] = 0 => status'[idx'[q]] = 0
    <3>1. /\ infob[idx[q]] = q /\ ops[idx[q]] = [op |-> want[q], sector |-> q]
          /\ bdisk[q] = 0 => status[idx[q]] = 0
      BY <1>t, Zenon DEF Requests
    <3> QED
      BY <2>3, <3>1
  <2>6. infob'[idx'[b]] = b /\ ops'[idx'[b]] = [op |-> want'[b], sector |-> b] /\ bdisk'[b] # 0
    BY <2>2, <2>4
  <2> QED
    BY <2>4, <2>5, <2>6 DEF Requests
<1>3. ASSUME NEW b \in Buf, NEW w, Starts(b, w), NoDescriptors(b) PROVE Requests'
  <2>1. UNCHANGED <<infob, ops, idx, bdisk, status>>
    BY <1>3 DEF NoDescriptors, descvars
  <2>2. Submitted' = Submitted /\ b \notin Submitted
    BY <1>t, <1>3 DEF NoDescriptors, WakeFree, Starts, Submitted, TypeOK
  <2>3. \A q \in Submitted : want'[q] = want[q]
    BY <1>t, <1>c, <1>3, <2>2 DEF Starts, TypeOK
  <2> QED
    BY <1>1, <1>t, <2>1, <2>2, <2>3, Zenon DEF Requests
<1>4. ASSUME NEW b \in Buf, finish(b) PROVE Requests'
  <2>1. Finishes(b)
    BY <1>t, <1>4, FinishIs
  <2>2. b \in Submitted /\ Submitted' = Submitted \ {b} /\ UNCHANGED <<bdisk, status>>
    BY <2>1 DEF Finishes
  <2>3. ASSUME NEW q \in Submitted \ {b}
        PROVE  /\ idx'[q] = idx[q] /\ want'[q] = want[q]
               /\ infob'[idx[q]] = infob[idx[q]] /\ ops'[idx[q]] = ops[idx[q]]
    <3>1. idx[q] # idx[b]
      BY <1>t, <2>2, HeadIsOwn DEF Three
    <3>2. q \in Buf \ {b} /\ idx[q] \in Desc \ {idx[b]}
      BY <1>c, <3>1
    <3> QED
      BY <2>1, <3>2 DEF Finishes
  <2>4. ASSUME NEW q \in Submitted \ {b}
        PROVE  /\ infob'[idx'[q]] = q /\ ops'[idx'[q]] = [op |-> want'[q], sector |-> q]
               /\ bdisk'[q] = 0 => status'[idx'[q]] = 0
    <3>1. /\ infob[idx[q]] = q /\ ops[idx[q]] = [op |-> want[q], sector |-> q]
          /\ bdisk[q] = 0 => status[idx[q]] = 0
      BY <1>t, Zenon DEF Requests
    <3> QED
      BY <2>2, <2>3, <3>1
  <2> QED
    BY <2>2, <2>4 DEF Requests
<1>5. ASSUME NEW b \in Buf, rewait(b) \/ kill(b) PROVE Requests'
  <2>1. UNCHANGED <<infob, ops, idx, want, bdisk, status>>
    BY <1>5 DEF rewait, kill, descvars
  <2>2. Submitted' = Submitted
    BY <1>t, <1>5 DEF rewait, kill, Submitted, TypeOK
  <2> QED
    BY <1>1, <1>t, <2>1, <2>2 DEF Requests
<1>6. CASE Quiet \/ DevTake \/ UNCHANGED vars
  <2>1. UNCHANGED <<infob, ops, idx, pc, want, bdisk, status>>
    BY <1>6 DEF Quiet, intr_ack, intr_end, DevInterrupt, DevTake, vars, callvars, descvars
  <2>2. Submitted' = Submitted
    BY <2>1 DEF Submitted
  <2> QED
    BY <1>1, <1>t, <2>1, <2>2 DEF Requests
<1>7. CASE intr_loop
  <2>1. UNCHANGED <<infob, ops, idx, want, status>>
    BY <1>7 DEF intr_loop, descvars
  <2>2. PICK b \in Buf : Answers(b)
    BY <1>7, LoopIs
  <2>3. Submitted' = Submitted
    BY <1>t, <2>2 DEF Answers, Submitted, TypeOK
  <2>4. status[idx[b]] = 0
    BY <2>2 DEF Answers, IInv, InOnePlace
  <2>5. \A q \in Submitted : q # b => bdisk'[q] = bdisk[q]
    BY <1>t, <1>c, <2>2 DEF Answers, TypeOK
  <2> QED
    BY <1>1, <1>t, <2>1, <2>3, <2>4, <2>5 DEF Requests
<1>8. ASSUME NEW h \in Desc, DevDone(h) PROVE Requests'
  <2>1. UNCHANGED <<infob, ops, idx, pc, want, bdisk>>
    BY <1>8 DEF DevDone, callvars
  <2>2. PICK b \in Buf : Performs(b)
    BY <1>8, DoneIs
  <2>s. status' = [status EXCEPT ![idx[b]] = 0] /\ idx[b] \in Desc /\ status \in [Desc -> {0, 255}]
    BY <1>t, <2>2, Zenon DEF Performs, TypeOK
  <2>3. \A d \in Desc : status[d] = 0 => status'[d] = 0
    BY <2>s
  <2>4. Submitted' = Submitted
    BY <2>1 DEF Submitted
  <2> QED
    BY <1>1, <1>t, <1>c, <2>1, <2>3, <2>4 DEF Requests
<1> QED
  BY <1>2, <1>3, <1>4, <1>5, <1>6, <1>7, <1>8, StepCases

Heads == {idx[b] : b \in Pending}

LEMMA PlacesStep == IInv /\ [Next]_vars => InOnePlace' /\ OnceInRing'
<1> SUFFICES ASSUME IInv, [Next]_vars PROVE InOnePlace' /\ OnceInRing'
  OBVIOUS
<1>t. TypeOK /\ Linked /\ Disjoint /\ FreeIsRest /\ OnceInRing
  BY DEF IInv
<1>p. /\ Coming \cup working \cup Going = Heads
      /\ Coming \cap working = {} /\ Coming \cap Going = {} /\ working \cap Going = {}
      /\ \A h \in Coming \cup working : status[h] = 255
      /\ \A h \in Going : status[h] = 0
  BY DEF IInv, InOnePlace, Heads
<1>g. ASSUME Coming' \cup working' \cup Going' = Heads',
             Coming' \cap working' = {}, Coming' \cap Going' = {}, working' \cap Going' = {},
             \A h \in Coming' \cup working' : status'[h] = 255, \A h \in Going' : status'[h] = 0
      PROVE  InOnePlace'
  BY <1>g DEF InOnePlace, Heads
<1>c. \A q \in Submitted : q \in Buf /\ idx[q] \in Desc /\ idx[q] \notin free
  <2>1. \A q \in Submitted : q \in Buf /\ idx[q] \in Desc
    BY <1>t, ChainIs
  <2> QED
    BY <1>t, <2>1 DEF FreeIsRest, Three
<1>h. \A h \in Heads : h \in Desc /\ h \notin free
  BY <1>c DEF Heads, Pending
\* The rings that are left alone.
<1>a. ASSUME UNCHANGED <<avail, seen, avail_idx>>
      PROVE  Coming' = Coming /\ Distinct(avail, seen, avail_idx)'
  BY <1>t, <1>a DEF Coming, OnceInRing, Distinct, Items, Item, Ahead
<1>u. ASSUME UNCHANGED <<used, used_idx, used_ridx>>
      PROVE  Going' = Going /\ Distinct(used, used_idx, used_ridx)'
  BY <1>t, <1>u DEF Going, OnceInRing, Distinct, Items, Item, Ahead
<1>1. ASSUME UNCHANGED <<ringvars, seen, working, status>>, Heads' = Heads
      PROVE  InOnePlace' /\ OnceInRing'
  <2>1. /\ Coming' = Coming /\ Distinct(avail, seen, avail_idx)'
        /\ Going' = Going /\ Distinct(used, used_idx, used_ridx)'
    BY <1>a, <1>u, <1>1 DEF ringvars
  <2>2. InOnePlace'
    BY <1>g, <1>p, <1>1, <2>1
  <2> QED
    BY <2>1, <2>2 DEF OnceInRing
<1>2. ASSUME NEW b \in Buf, NEW w \in {"read", "write"}, Starts(b, w), Submit(b, w)
      PROVE  InOnePlace' /\ OnceInRing'
  <2>1. PICK i \in Desc, j \in Desc, k \in Desc : Submits(b, w, i, j, k)
    BY <1>t, <1>2, StartSubmits
  <2>2. UNCHANGED <<used, used_idx, used_ridx, seen, working>>
    BY <1>2 DEF Starts, devvars
  <2>3. i \notin Heads
    BY <1>h, <2>1 DEF Submits
  <2>4. Heads' = Heads \cup {i}
    <3>3. /\ b \notin Submitted /\ Submitted' = Submitted \cup {b} /\ bdisk'[b] = 1 /\ idx'[b] = i
          /\ \A q \in Buf \ {b} : bdisk'[q] = bdisk[q]
      BY <2>1 DEF Submits
    <3>1. Pending' = Pending \cup {b} /\ b \notin Pending /\ idx'[b] = i
      BY <1>c, <3>3 DEF Pending
    <3>2. \A q \in Pending : idx'[q] = idx[q]
      BY <1>c, <2>1 DEF Pending, Submits
    <3> QED
      BY <3>1, <3>2 DEF Heads
  <2>5. avail' = [avail EXCEPT ![avail_idx % NUM] = i] /\ avail_idx' = Incr(avail_idx)
    BY <2>1 DEF Submits
  <2>6. avail \in [Desc -> Desc \cup {None}] /\ seen \in Idx /\ avail_idx \in Idx
    BY <1>t DEF TypeOK
  <2>7. Ahead(seen, avail_idx) < NUM
    BY <1>p, <2>3 DEF IInv, RingsFit
  <2>8. IsLonger(avail', avail, seen, avail_idx, i)
    BY <2>5, <2>6, <2>7, PutItem, Zenon
  <2>9. Coming' = Coming \cup {i}
    BY <2>2, <2>5, <2>8, Zenon DEF Coming, IsLonger
  <2>10. Distinct(avail, seen, avail_idx)'
    <3>1. Distinct(avail', seen, Incr(avail_idx))
      BY <1>p, <1>t, <2>3, <2>8 DEF IsLonger, OnceInRing, Coming
    <3> QED
      BY <2>2, <2>5, <3>1 DEF Distinct, Ahead, Item
  <2>11. Going' = Going /\ Distinct(used, used_idx, used_ridx)'
    BY <1>u, <2>2
  <2>12. status'[i] = 255 /\ \A h \in Heads : status'[h] = status[h]
    BY <1>h, <2>1, <2>3 DEF Submits
  <2>13. InOnePlace'
    <3>1. Coming' \cup working' \cup Going' = Heads'
      BY <1>p, <2>2, <2>4, <2>9, <2>11
    <3>2. Coming' \cap working' = {} /\ Coming' \cap Going' = {} /\ working' \cap Going' = {}
      BY <1>p, <2>2, <2>3, <2>9, <2>11
    <3>3. (\A h \in Coming' \cup working' : status'[h] = 255) /\ \A h \in Going' : status'[h] = 0
      <4>1. \A h \in Coming \cup working \cup Going : status'[h] = status[h]
        BY <1>p, <2>12
      <4>2. \A h \in Coming' \cup working' : status'[h] = 255
        BY <1>p, <2>2, <2>9, <2>12, <4>1
      <4> QED
        BY <1>p, <2>11, <4>1, <4>2
    <3> QED
      BY <1>g, <3>1, <3>2, <3>3
  <2> QED
    BY <2>10, <2>11, <2>13 DEF OnceInRing
<1>3. ASSUME NEW b \in Buf, NEW w, Starts(b, w), NoDescriptors(b) PROVE InOnePlace' /\ OnceInRing'
  <2>1. UNCHANGED <<idx, bdisk, status, ringvars, seen, working>>
    BY <1>3 DEF NoDescriptors, Starts, descvars, devvars, ringvars
  <2>2. Submitted' = Submitted
    BY <1>t, <1>3 DEF NoDescriptors, WakeFree, Starts, Submitted, TypeOK
  <2>3. Heads' = Heads
    BY <2>1, <2>2 DEF Heads, Pending
  <2> QED
    BY <1>1, <2>1, <2>3
<1>4. ASSUME NEW b \in Buf, finish(b) PROVE InOnePlace' /\ OnceInRing'
  <2>1. Finishes(b)
    BY <1>t, <1>4, FinishIs
  <2>2. UNCHANGED <<status, ringvars, seen, working>>
    BY <1>4 DEF finish, devvars
  <2>3. Pending' = Pending /\ \A q \in Pending : idx'[q] = idx[q]
    BY <1>c, <2>1 DEF Pending, Finishes
  <2>4. Heads' = Heads
    BY <2>3 DEF Heads
  <2> QED
    BY <1>1, <2>2, <2>4
<1>5. ASSUME NEW b \in Buf, rewait(b) \/ kill(b) PROVE InOnePlace' /\ OnceInRing'
  <2>1. UNCHANGED <<idx, bdisk, status, ringvars, seen, working>>
    BY <1>5 DEF rewait, kill, descvars, devvars
  <2>2. Submitted' = Submitted
    BY <1>t, <1>5 DEF rewait, kill, Submitted, TypeOK
  <2>3. Heads' = Heads
    BY <2>1, <2>2 DEF Heads, Pending
  <2> QED
    BY <1>1, <2>1, <2>3
<1>6. CASE Quiet \/ UNCHANGED vars
  <2>1. UNCHANGED <<idx, bdisk, pc, status, ringvars, seen, working>>
    BY <1>6 DEF Quiet, intr_ack, intr_end, DevInterrupt, vars, callvars, descvars, devvars
  <2>2. Heads' = Heads
    BY <2>1 DEF Heads, Pending, Submitted
  <2> QED
    BY <1>1, <2>1, <2>2
<1>7. CASE intr_loop
  <2>1. UNCHANGED <<idx, status, avail, avail_idx, seen, working>>
    BY <1>7 DEF intr_loop, descvars, devvars
  <2>2. PICK b \in Buf : Answers(b)
    BY <1>7, LoopIs
  <2>3. Submitted' = Submitted
    BY <1>t, <2>2 DEF Answers, Submitted, TypeOK
  <2>4. Pending' = Pending \ {b} /\ b \in Pending
    BY <1>t, <1>c, <2>2, <2>3 DEF Answers, Pending, TypeOK
  <2>5. Heads' = Heads \ {idx[b]}
    <3>1. \A q \in Pending : idx[q] = idx[b] => q = b
      BY <1>t, <2>4, HeadIsOwn DEF Pending, Three
    <3> QED
      BY <2>1, <2>4, <3>1 DEF Heads
  <2>6. Coming' = Coming /\ Distinct(avail, seen, avail_idx)'
    BY <1>a, <2>1
  <2>7. Going' = Going \ {idx[b]} /\ Distinct(used, used_idx, used_ridx)' /\ idx[b] \in Going
    BY <2>2 DEF Answers
  <2>8. InOnePlace'
    <3>1. Coming' \cup working' \cup Going' = Heads'
      <4>1. idx[b] \notin Coming /\ idx[b] \notin working
        BY <1>p, <2>7
      <4> QED
        BY <1>p, <2>1, <2>5, <2>6, <2>7, <4>1
    <3>2. Coming' \cap working' = {} /\ Coming' \cap Going' = {} /\ working' \cap Going' = {}
      BY <1>p, <2>1, <2>6, <2>7, SMTT(30)
    <3>3. (\A h \in Coming' \cup working' : status'[h] = 255) /\ \A h \in Going' : status'[h] = 0
      BY <1>p, <2>1, <2>6, <2>7
    <3> QED
      BY <1>g, <3>1, <3>2, <3>3
  <2> QED
    BY <2>6, <2>7, <2>8 DEF OnceInRing
<1>8. CASE DevTake
  <2>1. UNCHANGED <<idx, bdisk, pc, status, used, used_idx, used_ridx>>
    BY <1>8 DEF DevTake, descvars, callvars
  <2>2. PICK h \in Desc : /\ h \in Coming /\ working' = working \cup {h}
                          /\ Coming' = Coming \ {h} /\ Distinct(avail, seen, avail_idx)'
    BY <1>8, TakeIs
  <2>3. Heads' = Heads
    BY <2>1 DEF Heads, Pending, Submitted
  <2>4. Going' = Going /\ Distinct(used, used_idx, used_ridx)'
    BY <1>u, <2>1
  <2>5. InOnePlace'
    <3>1. Coming' \cup working' \cup Going' = Heads'
      BY <1>p, <2>2, <2>3, <2>4
    <3>2. Coming' \cap working' = {}
      BY <1>p, <2>2
    <3>3. Coming' \cap Going' = {} /\ working' \cap Going' = {}
      BY <1>p, <2>2, <2>4
    <3>4. (\A d \in Coming' \cup working' : status'[d] = 255) /\ \A d \in Going' : status'[d] = 0
      BY <1>p, <2>1, <2>2, <2>4
    <3> QED
      BY <1>g, <3>1, <3>2, <3>3, <3>4, Zenon
  <2> QED
    BY <2>2, <2>4, <2>5 DEF OnceInRing
<1>9. ASSUME NEW h \in Desc, DevDone(h) PROVE InOnePlace' /\ OnceInRing'
  <2>1. UNCHANGED <<idx, bdisk, pc, avail, avail_idx, seen>>
    BY <1>9 DEF DevDone, callvars
  <2>2. PICK b \in Buf : Performs(b)
    BY <1>9, DoneIs
  <2>3. Heads' = Heads
    BY <2>1 DEF Heads, Pending, Submitted
  <2>4. Coming' = Coming /\ Distinct(avail, seen, avail_idx)'
    BY <1>a, <2>1
  <2>5. /\ working' = working \ {idx[b]} /\ idx[b] \in working
        /\ Going' = Going \cup {idx[b]} /\ Distinct(used, used_idx, used_ridx)'
    BY <2>2 DEF Performs
  <2>s. status' = [status EXCEPT ![idx[b]] = 0] /\ idx[b] \in Desc /\ status \in [Desc -> {0, 255}]
    BY <1>t, <2>2, Zenon DEF Performs, TypeOK
  <2>6. status'[idx[b]] = 0 /\ \A d \in Heads : d # idx[b] => status'[d] = status[d]
    BY <1>h, <2>s
  <2>7. InOnePlace'
    <3>1. Coming' \cup working' \cup Going' = Heads'
      BY <1>p, <2>3, <2>4, <2>5
    <3>2. Coming' \cap working' = {} /\ Coming' \cap Going' = {} /\ working' \cap Going' = {}
      <4>1. Coming' \cap working' = {}
        BY <1>p, <2>4, <2>5
      <4>2. Coming' \cap Going' = {}
        BY <1>p, <2>4, <2>5
      <4>3. working' \cap Going' = {}
        BY <1>p, <2>5
      <4> QED
        BY <4>1, <4>2, <4>3
    <3>3. \A d \in Coming' \cup working' : d \in Heads /\ d # idx[b]
      BY <1>p, <2>4, <2>5
    <3>4. (\A d \in Coming' \cup working' : status'[d] = 255) /\ \A d \in Going' : status'[d] = 0
      <4>1. \A d \in Coming' \cup working' : status'[d] = status[d] /\ d \in Coming \cup working
        BY <2>4, <2>5, <2>6, <3>3
      <4>2. \A d \in Going' : status'[d] = 0
        BY <1>p, <2>5, <2>6
      <4> QED
        BY <1>p, <4>1, <4>2
    <3> QED
      BY <1>g, <3>1, <3>2, <3>4
  <2> QED
    BY <2>4, <2>5, <2>7 DEF OnceInRing
<1> QED
  BY <1>2, <1>3, <1>4, <1>5, <1>6, <1>7, <1>8, <1>9, StepCases

LEMMA SeenStep == IInv /\ [Next]_vars => UsedIsSeen'
<1> SUFFICES ASSUME IInv, [Next]_vars PROVE UsedIsSeen'
  OBVIOUS
<1>1. UsedIsSeen
  BY DEF IInv
<1>2. ASSUME UNCHANGED <<used_idx, used_ridx, intr, irq, late>> PROVE UsedIsSeen'
  BY <1>1, <1>2 DEF UsedIsSeen
<1>3. ASSUME NEW b \in Buf, NEW w, Starts(b, w) PROVE UsedIsSeen'
  BY <1>2, <1>3 DEF Starts, devvars
<1>4. ASSUME NEW b \in Buf, finish(b) \/ rewait(b) \/ kill(b) PROVE UsedIsSeen'
  BY <1>2, <1>4 DEF finish, rewait, kill, devvars, ringvars
<1>5. CASE Quiet
  BY <1>1, <1>5 DEF Quiet, intr_ack, intr_end, Drained, DevInterrupt, UsedIsSeen, ringvars, devvars
<1>6. CASE intr_loop
  BY <1>6 DEF intr_loop, UsedIsSeen
<1>7. CASE DevTake \/ UNCHANGED vars
  BY <1>2, <1>7 DEF DevTake, vars, ringvars, devvars
<1>8. ASSUME NEW h \in Desc, DevDone(h) PROVE UsedIsSeen'
  BY <1>8 DEF DevDone, UsedIsSeen
<1> QED
  BY <1>3, <1>4, <1>5, <1>6, <1>7, <1>8, StepCases

LEMMA PanicStep == IInv /\ [Next]_vars => NeverPanics'
<1> SUFFICES ASSUME IInv, [Next]_vars PROVE NeverPanics'
  OBVIOUS
<1>t. TypeOK /\ Linked /\ FreeIsRest /\ NeverPanics
  BY DEF IInv
<1>1. ASSUME UNCHANGED panicked PROVE NeverPanics'
  BY <1>t, <1>1 DEF NeverPanics
<1>2. ASSUME NEW b \in Buf, NEW w, Starts(b, w) PROVE NeverPanics'
  BY <1>1, <1>2 DEF Starts
<1>3. ASSUME NEW b \in Buf, finish(b) PROVE NeverPanics'
  <2>1. b \in Submitted /\ panicked' = (Three(b) \cap free # {})
    BY <1>t, <1>3, FinishIs DEF Finishes
  <2>2. Three(b) \subseteq Desc
    BY <1>t, <2>1, ChainIs
  <2>3. Three(b) \cap free = {}
    BY <1>t, <2>1, <2>2 DEF FreeIsRest
  <2> QED
    BY <2>1, <2>3, Zenon DEF NeverPanics
<1>4. ASSUME NEW b \in Buf, rewait(b) \/ kill(b) PROVE NeverPanics'
  BY <1>1, <1>4 DEF rewait, kill
<1>5. CASE Quiet \/ DevTake \/ UNCHANGED vars
  BY <1>1, <1>5 DEF Quiet, intr_ack, intr_end, DevInterrupt, DevTake, vars
<1>6. CASE intr_loop
  BY <1>6, LoopIs, Zenon DEF Answers, NeverPanics
<1>7. ASSUME NEW h \in Desc, DevDone(h) PROVE NeverPanics'
  BY <1>1, <1>7 DEF DevDone
<1> QED
  BY <1>2, <1>3, <1>4, <1>5, <1>6, <1>7, StepCases

(***************************************************************************)
(* The driver implements BlockDevice.                                      *)
(***************************************************************************)
Done == {b \in Submitted : status[idx[b]] = 0}

\* A request that has just been submitted has not been performed, and no other is disturbed.
LEMMA DoneStarts ==
  ASSUME IInv, NEW b \in Buf, NEW w \in {"read", "write"}, pc[b] \in {"idle", "retry"}, Start(b, w)
  PROVE  Done' = Done
<1>t. TypeOK /\ Linked /\ FreeIsRest
  BY DEF IInv
<1>c. \A q \in Submitted : q \in Buf \ {b} /\ idx[q] \in Desc /\ idx[q] \notin free
  <2>1. \A q \in Submitted : q \in Buf \ {b} /\ idx[q] \in Desc
    BY <1>t, ChainIs DEF Submitted
  <2> QED
    BY <1>t, <2>1 DEF FreeIsRest, Three
<1>1. CASE Submit(b, w)
  <2>1. PICK i \in Desc, j \in Desc, k \in Desc : Submits(b, w, i, j, k)
    BY <1>t, <1>1, SubmitIs
  <2>2. Submitted' = Submitted \cup {b} /\ status'[idx'[b]] = 255
    BY <2>1 DEF Submits
  <2>3. \A q \in Submitted : idx'[q] = idx[q] /\ status'[idx[q]] = status[idx[q]]
    BY <1>c, <2>1 DEF Submits
  <2>4. \A q \in Submitted : status'[idx'[q]] = status[idx[q]]
    BY <2>3
  <2>5. \A q : q \in Done' <=> q \in Submitted \cup {b} /\ status'[idx'[q]] = 0
    BY <2>2 DEF Done
  <2>6. ASSUME NEW q PROVE q \in Done' <=> q \in Done
    <3>1. q \in Done <=> q \in Submitted /\ status[idx[q]] = 0
      BY DEF Done
    <3>2. q \in Done' <=> q \in Submitted \cup {b} /\ status'[idx'[q]] = 0
      BY <2>5
    <3>3. CASE q = b
      <4>1. b \notin Submitted
        BY <1>c
      <4>2. status'[idx'[q]] # 0
        BY <2>2, <3>3
      <4> QED
        BY <3>1, <3>2, <3>3, <4>1, <4>2, Zenon
    <3>4. CASE q # b
      <4>1. q \in Submitted => status'[idx'[q]] = status[idx[q]]
        BY <2>4
      <4> QED
        BY <3>1, <3>2, <3>4, <4>1, Zenon
    <3> QED
      BY <3>3, <3>4
  <2> QED
    BY <2>6, Zenon
<1>2. CASE NoDescriptors(b)
  <2>1. UNCHANGED <<idx, status>>
    BY <1>2 DEF NoDescriptors, descvars
  <2>2. Submitted' = Submitted
    BY <1>t, <1>2 DEF NoDescriptors, WakeFree, Submitted, TypeOK
  <2> QED
    BY <2>1, <2>2 DEF Done
<1> QED
  BY <1>1, <1>2 DEF Start

LEMMA BlockStep == IInv /\ [Next]_vars => [BD!Next]_(BD!bdvars)
<1> SUFFICES ASSUME IInv, [Next]_vars PROVE [BD!Next]_(BD!bdvars)
  OBVIOUS
<1>t. TypeOK /\ Callers /\ Linked /\ Disjoint /\ Requests
  BY DEF IInv
<1>s. ASSUME UNCHANGED <<platter, buf, want>>, Done' = Done PROVE UNCHANGED BD!bdvars
  BY <1>s DEF BD!bdvars, Done
<1>n. ASSUME NEW b \in Buf,
             \/ BD!Transfer(b) \/ BD!Return(b)
             \/ \E o \in {"read", "write"} : BD!Call(b, o)
      PROVE  BD!Next
  BY <1>n DEF BD!Next
<1>1. ASSUME NEW b \in Buf, NEW w \in {"read", "write"}, NEW d, virtio_disk_rw(b, w, d),
             w = "write" => d \in Data
      PROVE  BD!Next
  <2>1. Done' = Done
    BY <1>1, DoneStarts DEF virtio_disk_rw
  <2>2. want[b] = "none" /\ want' = [want EXCEPT ![b] = w] /\ platter' = platter
    BY <1>t, <1>1 DEF virtio_disk_rw, Start, Callers
  <2>3. \E x \in Data : buf' = [buf EXCEPT ![b] = IF w = "write" THEN x ELSE Garbage]
    <3>1. platter[b] \in Data
      BY <1>t DEF TypeOK
    <3> QED
      BY <1>1, <3>1, Zenon DEF virtio_disk_rw
  <2>4. BD!Call(b, w)
    BY <2>1, <2>2, <2>3, Zenon DEF BD!Call, Done
  <2> QED
    BY <1>n, <2>4
<1>2. ASSUME NEW b \in Buf, retry(b) PROVE UNCHANGED BD!bdvars
  <2>1. want[b] \in {"read", "write"}
    BY <1>t, <1>2 DEF retry, TypeOK, Callers, Op
  <2>2. Done' = Done
    BY <1>2, <2>1, DoneStarts DEF retry
  <2>3. UNCHANGED <<platter, buf, want>>
    BY <1>t, <1>2 DEF retry, Start, TypeOK
  <2> QED
    BY <1>s, <2>2, <2>3
<1>3. ASSUME NEW b \in Buf, finish(b) PROVE BD!Next
  <2>1. Finishes(b)
    BY <1>t, <1>3, FinishIs
  <2>2. b \in Submitted /\ status[idx[b]] = 0
    BY <1>t, <2>1, Zenon DEF Finishes, Requests, TypeOK
  <2>3. Done' = Done \ {b} /\ b \in Done
    <3>1. Submitted' = Submitted \ {b} /\ status' = status
      BY <2>1 DEF Finishes
    <3>2. \A q \in Submitted \ {b} : idx'[q] = idx[q]
      BY <2>1 DEF Finishes, Submitted
    <3> QED
      BY <2>2, <3>1, <3>2 DEF Done
  <2>4. /\ want' = [want EXCEPT ![b] = "none"] /\ buf' = [buf EXCEPT ![b] = Garbage]
        /\ platter' = platter
    BY <1>3 DEF finish
  <2>5. BD!Return(b)
    BY <2>3, <2>4 DEF BD!Return, Done
  <2> QED
    BY <1>n, <2>5
<1>4. ASSUME NEW b \in Buf, rewait(b) \/ kill(b) PROVE UNCHANGED BD!bdvars
  <2>1. UNCHANGED <<platter, buf, want, idx, status>>
    BY <1>4 DEF rewait, kill, datavars, descvars
  <2>2. Submitted' = Submitted
    BY <1>t, <1>4 DEF rewait, kill, Submitted, TypeOK
  <2> QED
    BY <1>s, <2>1, <2>2 DEF Done
<1>5. CASE Quiet \/ DevTake \/ UNCHANGED vars
  <2>1. UNCHANGED <<platter, buf, want, idx, status, pc>>
    BY <1>5 DEF Quiet, intr_ack, intr_end, DevInterrupt, DevTake, vars, datavars, descvars, callvars
  <2> QED
    BY <1>s, <2>1 DEF Done, Submitted
<1>6. CASE intr_loop
  <2>1. UNCHANGED <<platter, buf, want, idx, status>>
    BY <1>6 DEF intr_loop, datavars, descvars
  <2>2. Submitted' = Submitted
    <3>1. PICK c \in Buf : Answers(c)
      BY <1>t, <1>6, LoopIs
    <3>2. pc' = [pc EXCEPT ![c] = IF @ = "wait" THEN "woken" ELSE @] /\ DOMAIN pc = Buf
      BY <1>t, <3>1 DEF Answers, TypeOK
    <3> QED
      BY <3>2 DEF Submitted
  <2> QED
    BY <1>s, <2>1, <2>2 DEF Done
<1>7. ASSUME NEW h \in Desc, DevDone(h) PROVE BD!Next
  <2>1. UNCHANGED <<pc, want, idx>>
    BY <1>7 DEF DevDone, callvars
  <2>2. PICK b \in Buf : Performs(b)
    BY <1>7, DoneIs
  <2>p. b \in Submitted /\ status[idx[b]] = 255 /\ status' = [status EXCEPT ![idx[b]] = 0]
    BY <2>2, Zenon DEF Performs, Pending
  <2>s. status \in [Desc -> {0, 255}] /\ idx[b] \in Desc
    BY <1>t, <2>2, Zenon DEF Performs, TypeOK
  <2>3. b \in Submitted /\ b \notin Done
    BY <2>p DEF Done
  <2>4. Done' = Done \cup {b}
    <3>1. Submitted' = Submitted
      BY <2>1 DEF Submitted
    <3>2. status'[idx[b]] = 0
      BY <2>p, <2>s
    <3>3. \A q \in Submitted : q # b => idx[q] \in Desc /\ idx[q] # idx[b]
      BY <1>t, <2>3, HeadIsOwn, ChainIs DEF Three
    <3>4. \A q \in Submitted : q # b => status'[idx[q]] = status[idx[q]]
      BY <2>p, <2>s, <3>3
    <3> QED
      BY <2>1, <2>3, <3>1, <3>2, <3>4 DEF Done
  <2>5. BD!Transfer(b)
    <3>1. want[b] # "none" /\ want' = want
      BY <2>1, <2>2 DEF Performs
    <3>2. IF want[b] = "write" THEN platter' = [platter EXCEPT ![b] = buf[b]] /\ UNCHANGED buf
                               ELSE buf' = [buf EXCEPT ![b] = platter[b]] /\ UNCHANGED platter
      BY <2>2 DEF Performs
    <3> QED
      BY <2>3, <2>4, <3>1, <3>2 DEF BD!Transfer, Done
  <2> QED
    BY <1>n, <2>5
<1>8. \/ \E b \in Buf : virtio_disk_rw(b, "read", Garbage)
      \/ \E b \in Buf, d \in Data : virtio_disk_rw(b, "write", d)
      \/ \E b \in Buf : retry(b) \/ finish(b) \/ rewait(b) \/ kill(b)
      \/ Quiet \/ DevTake \/ intr_loop \/ UNCHANGED vars
      \/ \E h \in Desc : DevDone(h)
  BY DEF Next, Caller, Handler, Device, Quiet
<1> QED
  BY <1>1, <1>2, <1>3, <1>4, <1>5, <1>6, <1>7, <1>8

(***************************************************************************)
(* Counting.                                                               *)
(***************************************************************************)
INSTANCE FiniteSetTheorems

\* There are as many descriptors as cells.
LEMMA ItemsFit ==
  ASSUME NEW ring, NEW x \in Idx, NEW y \in Idx, Distinct(ring, x, y),
         NEW v \in Desc, Items(ring, x, y) \subseteq Desc
  PROVE  Ahead(x, y) <= NUM /\ (v \notin Items(ring, x, y) => Ahead(x, y) < NUM)
<1> DEFINE c == Ahead(x, y)
<1> DEFINE f == [n \in 1 .. c |-> Item(ring, x, n - 1)]
<1>1. c \in Nat
  BY AheadIs, Constants
<1>2. IsFiniteSet(Desc) /\ Cardinality(Desc) = NUM
  <2>1. 0 \in Int /\ NUM - 1 \in Int /\ ~(0 > NUM - 1) /\ (NUM - 1) - 0 + 1 = NUM
    BY Constants
  <2> QED
    BY <2>1, FS_Interval DEF Desc
<1>3. IsFiniteSet(1 .. c) /\ Cardinality(1 .. c) = c
  BY <1>1, FS_Interval
<1>4. \A m, n \in 1 .. c : f[m] = f[n] => m = n
  <2> SUFFICES ASSUME NEW m \in 1 .. c, NEW n \in 1 .. c, f[m] = f[n] PROVE m = n
    OBVIOUS
  <2>1. m - 1 \in 0 .. c - 1 /\ n - 1 \in 0 .. c - 1
    BY <1>1
  <2>2. m - 1 = n - 1
    BY <2>1 DEF Distinct
  <2> QED
    BY <1>1, <2>2
<1>5. \A n \in 1 .. c : f[n] \in Items(ring, x, y)
  <2> SUFFICES ASSUME NEW n \in 1 .. c PROVE f[n] \in Items(ring, x, y)
    OBVIOUS
  <2>1. n - 1 \in 0 .. c - 1
    BY <1>1
  <2> QED
    BY <2>1 DEF Items
<1> HIDE DEF f, c
<1>6. ASSUME NEW T, T \subseteq Desc, Items(ring, x, y) \subseteq T
      PROVE  c <= Cardinality(T)
  <2>1. IsFiniteSet(T)
    BY <1>2, <1>6, FS_Subset
  <2>2. f \in Injection(1 .. c, T)
    BY <1>4, <1>5, <1>6 DEF Injection, f, IsInjective
  <2>3. Cardinality(1 .. c) <= Cardinality(T)
    BY <2>1, <2>2, FS_Injection
  <2> QED
    BY <1>3, <2>3
<1>7. c <= NUM
  BY <1>2, <1>6
<1>8. Cardinality(Desc \ {v}) = NUM - 1
  BY <1>2, FS_RemoveElement, Zenon
<1>9. v \notin Items(ring, x, y) => c <= NUM - 1
  BY <1>6, <1>8
<1> QED
  BY <1>1, <1>7, <1>9, Constants DEF c

\* Neither ring overflows, for want of numbers that are not in it.
LEMMA FitIs == TypeOK /\ InOnePlace /\ OnceInRing => RingsFit
<1> SUFFICES ASSUME TypeOK, InOnePlace, OnceInRing, NEW v \in Desc
             PROVE  /\ Ahead(seen, avail_idx) <= NUM /\ (v \notin Coming => Ahead(seen, avail_idx) < NUM)
                    /\ Ahead(used_idx, used_ridx) <= NUM
                    /\ (v \notin Going => Ahead(used_idx, used_ridx) < NUM)
  BY DEF RingsFit
<1>1. Coming \subseteq Desc /\ Going \subseteq Desc
  <2>1. \A b \in Pending : idx[b] \in Desc
    BY DEF Pending, Submitted, TypeOK
  <2> QED
    BY <2>1 DEF InOnePlace
<1>2. seen \in Idx /\ avail_idx \in Idx /\ used_idx \in Idx /\ used_ridx \in Idx
  BY DEF TypeOK
<1>3. Ahead(seen, avail_idx) <= NUM /\ (v \notin Coming => Ahead(seen, avail_idx) < NUM)
  BY <1>1, <1>2, ItemsFit, Zenon DEF OnceInRing, Coming
<1>4. Ahead(used_idx, used_ridx) <= NUM /\ (v \notin Going => Ahead(used_idx, used_ridx) < NUM)
  BY <1>1, <1>2, ItemsFit, Zenon DEF OnceInRing, Going
<1> QED
  BY <1>3, <1>4

\* A shorter list of free descriptors is no longer.
LEMMA Fewer ==
  ASSUME TypeOK, NEW S, S \subseteq free, ~CanAlloc3
  PROVE  ~(Cardinality(S) >= 3)
<1>1. IsFiniteSet(free)
  <2>1. IsFiniteSet(Desc)
    BY Constants, FS_Interval DEF Desc
  <2> QED
    BY <2>1, FS_Subset DEF TypeOK
<1>2. Cardinality(S) <= Cardinality(free) /\ Cardinality(S) \in Nat /\ Cardinality(free) \in Nat
  BY <1>1, FS_Subset, FS_CardinalityType
<1> QED
  BY <1>2 DEF CanAlloc3

LEMMA ShortStep == IInv /\ [Next]_vars => NoDescIsShort'
<1> SUFFICES ASSUME IInv, [Next]_vars PROVE NoDescIsShort'
  OBVIOUS
<1>t. TypeOK /\ Linked /\ NoDescIsShort
  BY DEF IInv
<1>1. ASSUME free' \subseteq free, \A q \in Buf : pc'[q] = "nodesc" => pc[q] = "nodesc"
      PROVE  NoDescIsShort'
  <2> SUFFICES ASSUME NEW q \in Buf, pc'[q] = "nodesc" PROVE ~CanAlloc3'
    BY DEF NoDescIsShort
  <2>1. ~CanAlloc3
    BY <1>t, <1>1 DEF NoDescIsShort
  <2> QED
    BY <1>t, <1>1, <2>1, Fewer DEF CanAlloc3
<1>2. ASSUME NEW b \in Buf, NEW w \in {"read", "write"}, Starts(b, w), Submit(b, w)
      PROVE  NoDescIsShort'
  <2>1. PICK i \in Desc, j \in Desc, k \in Desc : Submits(b, w, i, j, k)
    BY <1>t, <1>2, StartSubmits
  <2>2. free' \subseteq free /\ pc'[b] = "wait" /\ \A q \in Buf \ {b} : pc'[q] = pc[q]
    BY <2>1 DEF Submits
  <2> QED
    BY <1>1, <2>2
<1>3. ASSUME NEW b \in Buf, ~CanAlloc3, NoDescriptors(b) PROVE NoDescIsShort'
  BY <1>3 DEF NoDescriptors, NoDescIsShort, CanAlloc3, descvars
<1>4. ASSUME NEW b \in Buf, finish(b) PROVE NoDescIsShort'
  <2>1. pc'[b] = "idle" /\ \A q \in Buf \ {b} : pc'[q] = IF pc[q] = "nodesc" THEN "retry" ELSE pc[q]
    BY <1>t, <1>4, FinishIs DEF Finishes
  <2>2. \A q \in Buf : pc'[q] # "nodesc"
    BY <2>1
  <2> QED
    BY <2>2 DEF NoDescIsShort
<1>5. ASSUME NEW b \in Buf, rewait(b) \/ kill(b) PROVE NoDescIsShort'
  <2>1. free' = free
    BY <1>5 DEF rewait, kill, descvars
  <2>2. \A q \in Buf : pc'[q] = "nodesc" => pc[q] = "nodesc"
    BY <1>t, <1>5 DEF rewait, kill, TypeOK
  <2> QED
    BY <1>1, <2>1, <2>2
<1>6. CASE Quiet \/ DevTake \/ UNCHANGED vars
  BY <1>1, <1>6 DEF Quiet, intr_ack, intr_end, DevInterrupt, DevTake, vars, callvars, descvars
<1>7. CASE intr_loop
  <2>1. free' = free
    BY <1>7 DEF intr_loop, descvars
  <2>2. \A q \in Buf : pc'[q] = "nodesc" => pc[q] = "nodesc"
    <3>1. PICK b \in Buf : Answers(b)
      BY <1>t, <1>7, LoopIs
    <3>2. pc' = [pc EXCEPT ![b] = IF @ = "wait" THEN "woken" ELSE @] /\ DOMAIN pc = Buf
      BY <1>t, <3>1 DEF Answers, TypeOK
    <3> QED
      BY <3>2
  <2> QED
    BY <1>1, <2>1, <2>2
<1>8. ASSUME NEW h \in Desc, DevDone(h) PROVE NoDescIsShort'
  BY <1>1, <1>8 DEF DevDone, callvars
<1> QED
  BY <1>2, <1>3, <1>4, <1>5, <1>6, <1>7, <1>8, StepCases

LEMMA IInvInit == Init => IInv
<1> SUFFICES ASSUME Init PROVE IInv
  OBVIOUS
<1>1. Submitted = {} /\ Pending = {}
  BY DEF Init, Submitted, Pending
<1>2. TypeOK
  <2>1. /\ free \subseteq Desc /\ status \in [Desc -> {0, 255}]
        /\ infob \in [Desc -> Buf \cup {None}]
        /\ avail \in [Desc -> Desc \cup {None}] /\ used \in [Desc -> Desc \cup {None}]
    BY DEF Init
  <2>2. desc \in [Desc -> [addr : Desc \cup Buf \cup {None}, next : Desc, more : BOOLEAN]]
    BY Constants DEF Init, NoDesc
  <2>3. ops \in [Desc -> [op : Op, sector : Buf \cup {None}]]
    BY DEF Init, NoReq, Op
  <2>4. /\ avail_idx \in Idx /\ used_ridx \in Idx /\ used_idx \in Idx /\ seen \in Idx
        /\ intr \in {"off", "loop"} /\ late \in BOOLEAN /\ irq \in BOOLEAN /\ working \subseteq Desc
        /\ panicked \in BOOLEAN
    BY Constants, Zenon DEF Init
  <2>5. /\ pc \in [Buf -> {"idle", "nodesc", "retry", "wait", "woken"}] /\ want \in [Buf -> Op]
        /\ idx \in [Buf -> Desc] /\ bdisk \in [Buf -> {0, 1}]
        /\ buf \in [Buf -> Data \cup {Garbage}] /\ platter \in [Buf -> Data]
    BY Constants DEF Init, Op
  <2> QED
    BY <2>1, <2>2, <2>3, <2>4, <2>5 DEF TypeOK
<1>3. Callers
  BY DEF Init, Callers
<1>4. Linked /\ Disjoint /\ FreeIsRest /\ Requests
  BY <1>1 DEF Init, Linked, Disjoint, FreeIsRest, Requests
<1>5. Ahead(seen, avail_idx) = 0 /\ Ahead(used_idx, used_ridx) = 0
  BY <1>2, AheadIs DEF Init, TypeOK
<1>6. Coming = {} /\ Going = {} /\ OnceInRing
  BY <1>5 DEF Coming, Going, Items, OnceInRing, Distinct
<1>7. InOnePlace
  BY <1>1, <1>6 DEF InOnePlace, Init
<1>9. RingsFit
  BY <1>5, Constants DEF RingsFit
<1>8. UsedIsSeen /\ NoDescIsShort /\ NeverPanics
  BY DEF Init, UsedIsSeen, NoDescIsShort, NeverPanics
<1> QED
  BY <1>2, <1>3, <1>4, <1>6, <1>7, <1>8, <1>9 DEF IInv

(***************************************************************************)
(* The theorems.                                                           *)
(***************************************************************************)
\* The inductive invariant of the disk driver and its device.
THEOREM DiskInvariant == Spec => []IInv
<1>1. IInv /\ [Next]_vars => IInv'
  <2>1. (TypeOK /\ InOnePlace /\ OnceInRing => RingsFit)'
    BY FitIs, PTL
  <2> QED
    BY <2>1, TypeStep, CallersStep, ChainsStep, RequestsStep, PlacesStep, SeenStep, ShortStep, PanicStep
    DEF IInv
<1> QED
  BY <1>1, IInvInit, PTL DEF Spec

\* alloc3_desc() and free_chain() neither share nor lose a descriptor.
THEOREM DescriptorsKept == Spec => []ChainsPartition
<1>1. IInv => ChainsPartition
  <2> SUFFICES ASSUME IInv PROVE ChainsPartition
    OBVIOUS
  <2>t. TypeOK /\ Linked /\ Disjoint /\ FreeIsRest
    BY DEF IInv
  <2>1. \A b \in Submitted : Chain(idx[b]) = Three(b) /\ Three(b) \subseteq Desc
    BY <2>t, ChainIs
  <2>2. free = Desc \ UNION {Chain(idx[b]) : b \in Submitted}
    <3>1. \A d \in Desc : d \in free <=> \A b \in Submitted : d \notin Chain(idx[b])
      BY <2>t, <2>1 DEF FreeIsRest
    <3> QED
      BY <2>t, <3>1 DEF TypeOK
  <2>3. \A b, q \in Submitted : b # q => Chain(idx[b]) \cap Chain(idx[q]) = {}
    BY <2>t, <2>1 DEF Disjoint
  <2>4. ASSUME NEW b \in Submitted PROVE Cardinality(Chain(idx[b])) = 3
    <3> DEFINE i == idx[b]  j == Next1(b)  k == Next2(b)
    <3>1. i # j /\ i # k /\ j # k
      BY <2>t DEF Linked
    <3>2. Cardinality({i}) = 1 /\ IsFiniteSet({i})
      BY FS_Singleton, Zenon
    <3>3. Cardinality({i} \cup {j}) = 2 /\ IsFiniteSet({i} \cup {j})
      <4>1. j \notin {i}
        BY <3>1
      <4>2. Cardinality({i} \cup {j}) = Cardinality({i}) + 1 /\ IsFiniteSet({i} \cup {j})
        BY <3>2, <4>1, FS_AddElement, Zenon
      <4> QED
        BY <3>2, <4>2
    <3>4. Cardinality(({i} \cup {j}) \cup {k}) = 3
      <4>1. k \notin {i} \cup {j}
        BY <3>1
      <4>2. Cardinality(({i} \cup {j}) \cup {k}) = Cardinality({i} \cup {j}) + 1
        BY <3>3, <4>1, FS_AddElement, Zenon
      <4> QED
        BY <3>3, <4>2
    <3>5. Chain(i) = ({i} \cup {j}) \cup {k}
      BY <2>1 DEF Three
    <3> QED
      BY <3>4, <3>5
  <2> QED
    BY <2>2, <2>3, <2>4 DEF ChainsPartition
<1> QED
  BY <1>1, DiskInvariant, PTL

\* Nobody sleeps in virtio_disk_rw() for descriptors while there are three.
THEOREM SleepersAreShort == Spec => []NoDescIsShort
<1>1. IInv => NoDescIsShort
  BY DEF IInv
<1> QED
  BY <1>1, DiskInvariant, PTL

\* No completion is lost between the device and the caller that sleeps for it.
THEOREM NoneLost == Spec => []CompletionsReach
<1>1. IInv => CompletionsReach
  <2> SUFFICES ASSUME IInv PROVE CompletionsReach
    OBVIOUS
  <2>1. Entries(avail, seen, avail_idx) = Coming /\ Entries(used, used_idx, used_ridx) = Going
    BY EntriesAreItems DEF IInv, TypeOK, Coming, Going
  <2>2. {b \in Buf : pc[b] = "wait"} \subseteq {b \in Buf : bdisk[b] = 1}
    BY DEF IInv, Callers
  <2>3. {idx[b] : b \in {q \in Submitted : bdisk[q] = 1}} = Coming \cup working \cup Going
    BY DEF IInv, InOnePlace, Pending
  <2>4. Coming \cap working = {} /\ Coming \cap Going = {} /\ working \cap Going = {}
    BY DEF IInv, InOnePlace
  <2>5. SleeperAwaited
    BY <2>1, <2>2, <2>3, <2>4 DEF SleeperAwaited
  <2> QED
    BY <2>5 DEF IInv, CompletionsReach
<1> QED
  BY <1>1, DiskInvariant, PTL

\* virtio_disk_rw() returns only after the device has performed this very request.
THEOREM DiskPerforms == Spec => PerformsRequest
<1>1. Init => BD!Init
  <2> SUFFICES ASSUME Init PROVE BD!Init
    OBVIOUS
  <2>1. Submitted = {}
    BY DEF Init, Submitted
  <2> QED
    BY <2>1 DEF Init, BD!Init
<1> QED
  BY <1>1, BlockStep, DiskInvariant, PTL DEF Spec, PerformsRequest, BD!Spec
=============================================================================
