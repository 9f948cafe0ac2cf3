-------------------------------- MODULE Rings --------------------------------
(***************************************************************************)
(* Facts about the rings of the kernel (the bytes of a pipe, the two rings *)
(* of the virtio disk).  A ring has size cells.  The indices of its        *)
(* producer and of its consumer count modulo wrap, which is 2^16 or 2^32   *)
(* and a multiple of size; the cell of an index is the index modulo size.  *)
(***************************************************************************)
EXTENDS Integers, TLAPS

IsRing(size, wrap) == size \in Nat \ {0} /\ wrap \in Nat /\ size < wrap /\ wrap % size = 0

(***************************************************************************)
(* Division with remainder.                                                *)
(***************************************************************************)
LEMMA RemainderIs ==
  ASSUME NEW d \in Nat \ {0}, NEW k \in Int, NEW r \in 0 .. d - 1
  PROVE  (d * k + r) % d = r
OBVIOUS

LEMMA Divides ==
  ASSUME NEW d \in Nat \ {0}, NEW x \in Nat
  PROVE  \E k \in Nat : \E r \in 0 .. d - 1 : x = d * k + r /\ r = x % d
<1>1. x = d * (x \div d) + (x % d) /\ x % d \in 0 .. d - 1 /\ x \div d \in Nat
  OBVIOUS
<1> QED
  BY <1>1

\* Adding a multiple of the divisor changes nothing ...
LEMMA MultipleAdded ==
  ASSUME NEW d \in Nat \ {0}, NEW c \in Nat, NEW x \in Nat
  PROVE  (x + d * c) % d = x % d
<1>1. PICK k \in Nat, r \in 0 .. d - 1 : x = d * k + r /\ r = x % d
  BY Divides, Zenon
<1>2. x + d * c = d * (k + c) + r /\ k + c \in Int
  BY <1>1
<1>3. (d * (k + c) + r) % d = r
  BY <1>2, RemainderIs, Zenon
<1> QED
  BY <1>1, <1>2, <1>3

\* ... and adding less than the divisor does.
LEMMA LessAdded ==
  ASSUME NEW d \in Nat \ {0}, NEW x \in Nat, NEW m \in 1 .. d - 1
  PROVE  x % d # (x + m) % d
<1>1. PICK k \in Nat, r \in 0 .. d - 1 : x = d * k + r /\ r = x % d
  BY Divides, Zenon
<1>2. CASE r + m < d
  <2>1. x + m = d * k + (r + m) /\ r + m \in 0 .. d - 1 /\ k \in Int
    BY <1>1, <1>2
  <2>2. (x + m) % d = r + m
    BY <2>1, RemainderIs, Zenon
  <2>3. r + m # r
    OBVIOUS
  <2> QED
    BY <1>1, <2>2, <2>3, Zenon
<1>3. CASE r + m >= d
  <2>1. x + m = d * (k + 1) + (r + m - d) /\ r + m - d \in 0 .. d - 1 /\ k + 1 \in Int
    BY <1>1, <1>3
  <2>2. (x + m) % d = r + m - d
    BY <2>1, RemainderIs, Zenon
  <2>3. r + m - d # r
    OBVIOUS
  <2> QED
    BY <1>1, <2>2, <2>3, Zenon
<1> QED
  BY <1>2, <1>3

(***************************************************************************)
(* Indices.                                                                *)
(***************************************************************************)
LEMMA FurtherIs ==
  ASSUME NEW wrap \in Nat \ {0}, NEW x \in 0 .. wrap - 1, NEW n \in 0 .. wrap
  PROVE  (x + n) % wrap = IF x + n < wrap THEN x + n ELSE x + n - wrap
<1>1. CASE x + n < wrap
  <2>1. x + n \in 0 .. wrap - 1
    BY <1>1
  <2>2. (x + n) % wrap = x + n
    BY <2>1
  <2> QED
    BY <1>1, <2>2
<1>2. CASE x + n >= wrap
  <2>1. x + n - wrap \in 0 .. wrap - 1 /\ 1 \in Int
    BY <1>2
  <2>2. (wrap * 1 + (x + n - wrap)) % wrap = x + n - wrap
    BY <2>1, RemainderIs
  <2>3. wrap * 1 + (x + n - wrap) = x + n
    OBVIOUS
  <2> QED
    BY <1>2, <2>2, <2>3
<1> QED
  BY <1>1, <1>2

LEMMA NextIs ==
  ASSUME NEW wrap \in Nat \ {0}, NEW x \in 0 .. wrap - 1
  PROVE  (x + 1) % wrap = IF x + 1 = wrap THEN 0 ELSE x + 1
<1>1. (x + 1) % wrap = IF x + 1 < wrap THEN x + 1 ELSE x + 1 - wrap
  <2>1. 1 \in 0 .. wrap
    OBVIOUS
  <2> QED
    BY <2>1, FurtherIs, Zenon
<1> QED
  BY <1>1

\* How far the producer y is ahead of the consumer x.
LEMMA DistanceIs ==
  ASSUME NEW wrap \in Nat \ {0}, NEW x \in 0 .. wrap - 1, NEW y \in 0 .. wrap - 1
  PROVE  (y - x) % wrap = IF y >= x THEN y - x ELSE y - x + wrap
<1>1. CASE y >= x
  <2>1. y - x \in 0 .. wrap - 1
    BY <1>1
  <2>2. (y - x) % wrap = y - x
    BY <2>1
  <2> QED
    BY <1>1, <2>2
<1>2. CASE y < x
  <2>1. y - x + wrap \in 0 .. wrap - 1 /\ -1 \in Int
    BY <1>2
  <2>2. (wrap * (-1) + (y - x + wrap)) % wrap = y - x + wrap
    BY <2>1, RemainderIs
  <2>3. wrap * (-1) + (y - x + wrap) = y - x
    OBVIOUS
  <2> QED
    BY <1>2, <2>2, <2>3
<1> QED
  BY <1>1, <1>2

\* The producer goes on ...
LEMMA Grows ==
  ASSUME NEW wrap \in Nat \ {0}, NEW x \in 0 .. wrap - 1, NEW y \in 0 .. wrap - 1,
         (y - x) % wrap < wrap - 1
  PROVE  (((y + 1) % wrap) - x) % wrap = ((y - x) % wrap) + 1
<1> DEFINE z == (y + 1) % wrap
<1>0. z = (IF y + 1 = wrap THEN 0 ELSE y + 1)
  BY NextIs
<1>1. z = (IF y + 1 = wrap THEN 0 ELSE y + 1) /\ z \in 0 .. wrap - 1
  BY <1>0
<1>2. (y - x) % wrap = IF y >= x THEN y - x ELSE y - x + wrap
  BY DistanceIs, Zenon
<1> HIDE DEF z
<1>3. (z - x) % wrap = IF z >= x THEN z - x ELSE z - x + wrap
  BY <1>1, DistanceIs
<1>4. (z - x) % wrap = ((y - x) % wrap) + 1
  BY <1>1, <1>2, <1>3
<1> QED
  BY <1>4 DEF z

\* ... and the consumer.
LEMMA Shrinks ==
  ASSUME NEW wrap \in Nat \ {0}, NEW x \in 0 .. wrap - 1, NEW y \in 0 .. wrap - 1, x # y
  PROVE  (y - ((x + 1) % wrap)) % wrap = ((y - x) % wrap) - 1
<1> DEFINE z == (x + 1) % wrap
<1>0. z = (IF x + 1 = wrap THEN 0 ELSE x + 1)
  BY NextIs
<1>1. z = (IF x + 1 = wrap THEN 0 ELSE x + 1) /\ z \in 0 .. wrap - 1
  BY <1>0
<1>2. (y - x) % wrap = IF y >= x THEN y - x ELSE y - x + wrap
  BY DistanceIs
<1> HIDE DEF z
<1>3. (y - z) % wrap = IF y >= z THEN y - z ELSE y - z + wrap
  BY <1>1, DistanceIs
<1>4. (y - z) % wrap = ((y - x) % wrap) - 1
  BY <1>1, <1>2, <1>3
<1> QED
  BY <1>4 DEF z

(***************************************************************************)
(* Cells.                                                                  *)
(***************************************************************************)
\* The indices wrap around where the cells do.
LEMMA CellWraps ==
  ASSUME NEW size, NEW wrap, IsRing(size, wrap), NEW x \in Nat
  PROVE  (x + wrap) % size = x % size
<1>1. size \in Nat \ {0} /\ wrap \in Nat /\ wrap % size = 0
  BY DEF IsRing
<1>2. PICK c \in Nat : wrap = size * c
  <2>1. PICK k \in Nat, r \in 0 .. size - 1 : wrap = size * k + r /\ r = wrap % size
    BY <1>1, Divides, Zenon
  <2>2. wrap = size * k
    BY <1>1, <2>1
  <2> QED
    BY <2>2
<1>3. (x + size * c) % size = x % size
  BY <1>1, MultipleAdded, Zenon
<1> QED
  BY <1>2, <1>3

\* The cell n places on from an index.
LEMMA CellFurther ==
  ASSUME NEW size, NEW wrap, IsRing(size, wrap), NEW x \in 0 .. wrap - 1, NEW n \in 0 .. wrap
  PROVE  ((x + n) % wrap) % size = (x + n) % size
<1>1. wrap \in Nat \ {0}
  BY DEF IsRing
<1>2. (x + n) % wrap = IF x + n < wrap THEN x + n ELSE x + n - wrap
  BY <1>1, FurtherIs, Zenon
<1>3. CASE x + n < wrap
  BY <1>2, <1>3
<1>4. CASE x + n >= wrap
  <2> DEFINE z == x + n - wrap
  <2>1. z \in Nat /\ z + wrap = x + n /\ (x + n) % wrap = z
    BY <1>1, <1>2, <1>4
  <2> HIDE DEF z
  <2>2. (z + wrap) % size = z % size
    BY <2>1, CellWraps
  <2> QED
    BY <2>1, <2>2
<1> QED
  BY <1>1, <1>3, <1>4

\* The cell the producer writes next.
LEMMA EndCell ==
  ASSUME NEW size, NEW wrap, IsRing(size, wrap), NEW x \in 0 .. wrap - 1, NEW y \in 0 .. wrap - 1
  PROVE  y % size = (x + ((y - x) % wrap)) % size
<1>1. wrap \in Nat \ {0}
  BY DEF IsRing
<1>2. (y - x) % wrap = IF y >= x THEN y - x ELSE y - x + wrap
  BY <1>1, DistanceIs
<1>3. x + ((y - x) % wrap) = y \/ x + ((y - x) % wrap) = y + wrap
  BY <1>1, <1>2
<1>4. y \in Nat
  BY <1>1
<1>5. (y + wrap) % size = y % size
  BY <1>4, CellWraps
<1> QED
  BY <1>3, <1>5

\* The consumer's next cells are those it had before, but for the first.
LEMMA NextCells ==
  ASSUME NEW size, NEW wrap, IsRing(size, wrap), NEW x \in 0 .. wrap - 1, NEW n \in Nat
  PROVE  (((x + 1) % wrap) + n) % size = (x + (n + 1)) % size
<1>1. wrap \in Nat \ {0}
  BY DEF IsRing
<1> DEFINE z == (x + 1) % wrap
<1>2. z = (IF x + 1 = wrap THEN 0 ELSE x + 1)
  BY <1>1, NextIs
<1> HIDE DEF z
<1>3. z + n \in Nat /\ (x + (n + 1) = z + n \/ x + (n + 1) = (z + n) + wrap)
  BY <1>1, <1>2
<1>4. ((z + n) + wrap) % size = (z + n) % size
  BY <1>3, CellWraps
<1>5. (z + n) % size = (x + (n + 1)) % size
  BY <1>3, <1>4
<1> QED
  BY <1>5 DEF z

\* Less than size places apart, cells differ.
LEMMA CellsDiffer ==
  ASSUME NEW size, NEW wrap, IsRing(size, wrap), NEW x \in Nat,
         NEW m \in Nat, NEW n \in Nat, m < n, n - m < size
  PROVE  (x + m) % size # (x + n) % size
<1> DEFINE z == x + m  d == n - m
<1>1. size \in Nat \ {0} /\ z \in Nat /\ d \in 1 .. size - 1 /\ z + d = x + n
  BY DEF IsRing
<1> HIDE DEF z, d
<1>2. z % size # (z + d) % size
  BY <1>1, LessAdded, Zenon
<1> QED
  BY <1>1, <1>2 DEF z
=============================================================================
