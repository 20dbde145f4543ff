------------------------- MODULE SizeClassesProofs -------------------------
(* What the memory pool's size classes promise, for every length.  In each  *)
(* of the three bands the operators of SizeClasses are linear once the      *)
(* division with remainder is named, so a proof is one case per band.       *)
EXTENDS SizeClasses, TLAPS

\* Division by the granule of the first classes.
LEMMA Division512 ==
    ASSUME NEW n \in Nat
    PROVE  \E q \in Int, r \in Nat : n = 512 * q + r /\ r = n % 512 /\ r < 512
<1>1. n \div 512 \in Int /\ n % 512 \in Nat /\ n % 512 < 512
  OBVIOUS
<1>2. n = 512 * (n \div 512) + (n % 512)
  OBVIOUS
<1> QED BY <1>1, <1>2

(* Rounding up a length up to 8 KB: the next multiple of 512. *)
LEMMA FirstBand ==
    ASSUME NEW n \in Nat, 1 <= n, n <= 8192
    PROVE  \E k \in 1 .. 16 : /\ DataAlignment(n) = 512 * k
                              /\ n <= 512 * k /\ 512 * k < n + 512
<1>1. PICK q \in Int, r \in Nat : n = 512 * q + r /\ r = n % 512 /\ r < 512
  BY Division512
<1>2. DataAlignment(n) = IF r = 0 THEN n ELSE (n - r) + 512
  BY <1>1 DEF DataAlignment, Granule, FirstSlot, SecondSlot, ThirdSlot
<1>3. CASE r = 0
  <2>1. q \in 1 .. 16
    BY <1>1, <1>3
  <2>2. DataAlignment(n) = 512 * q /\ n <= 512 * q /\ 512 * q < n + 512
    BY <1>1, <1>2, <1>3
  <2> WITNESS q \in 1 .. 16
  <2> QED BY <2>2
<1>4. CASE r # 0
  <2>1. q + 1 \in 1 .. 16
    BY <1>1, <1>4
  <2>2. DataAlignment(n) = 512 * (q + 1) /\ n <= 512 * (q + 1) /\ 512 * (q + 1) < n + 512
    BY <1>1, <1>2, <1>4
  <2> WITNESS q + 1 \in 1 .. 16
  <2> QED BY <2>2
<1> QED BY <1>3, <1>4

\* Division by the granule of the second classes.
LEMMA Division1024 ==
    ASSUME NEW n \in Nat
    PROVE  \E q \in Int, r \in Nat : n = 1024 * q + r /\ r = n % 1024 /\ r < 1024
<1>1. n \div 1024 \in Int /\ n % 1024 \in Nat /\ n % 1024 < 1024
  OBVIOUS
<1>2. n = 1024 * (n \div 1024) + (n % 1024)
  OBVIOUS
<1> QED BY <1>1, <1>2

(* Rounding up a length above 8 KB, up to 32 KB: the next multiple of 1024. *)
LEMMA SecondBand ==
    ASSUME NEW n \in Nat, 8192 < n, n <= 32768
    PROVE  \E k \in 9 .. 32 : /\ DataAlignment(n) = 1024 * k
                              /\ n <= 1024 * k /\ 1024 * k < n + 1024
<1>1. PICK q \in Int, r \in Nat : n = 1024 * q + r /\ r = n % 1024 /\ r < 1024
  BY Division1024
<1>2. DataAlignment(n) = IF r = 0 THEN n ELSE (n - r) + 1024
  BY <1>1 DEF DataAlignment, Granule, FirstSlot, SecondSlot, ThirdSlot
<1>3. CASE r = 0
  <2>1. q \in 9 .. 32
    BY <1>1, <1>3
  <2>2. DataAlignment(n) = 1024 * q /\ n <= 1024 * q /\ 1024 * q < n + 1024
    BY <1>1, <1>2, <1>3
  <2> WITNESS q \in 9 .. 32
  <2> QED BY <2>2
<1>4. CASE r # 0
  <2>1. q + 1 \in 9 .. 32
    BY <1>1, <1>4
  <2>2. DataAlignment(n) = 1024 * (q + 1) /\ n <= 1024 * (q + 1) /\ 1024 * (q + 1) < n + 1024
    BY <1>1, <1>2, <1>4
  <2> WITNESS q + 1 \in 9 .. 32
  <2> QED BY <2>2
<1> QED BY <1>3, <1>4

\* Division by the granule of the third classes.
LEMMA Division2048 ==
    ASSUME NEW n \in Nat
    PROVE  \E q \in Int, r \in Nat : n = 2048 * q + r /\ r = n % 2048 /\ r < 2048
<1>1. n \div 2048 \in Int /\ n % 2048 \in Nat /\ n % 2048 < 2048
  OBVIOUS
<1>2. n = 2048 * (n \div 2048) + (n % 2048)
  OBVIOUS
<1> QED BY <1>1, <1>2

(* Rounding up a length above 32 KB, up to 128 KB: the next multiple of 2048. *)
LEMMA ThirdBand ==
    ASSUME NEW n \in Nat, 32768 < n, n <= 131072
    PROVE  \E k \in 17 .. 64 : /\ DataAlignment(n) = 2048 * k
                              /\ n <= 2048 * k /\ 2048 * k < n + 2048
<1>1. PICK q \in Int, r \in Nat : n = 2048 * q + r /\ r = n % 2048 /\ r < 2048
  BY Division2048
<1>2. DataAlignment(n) = IF r = 0 THEN n ELSE (n - r) + 2048
  BY <1>1 DEF DataAlignment, Granule, FirstSlot, SecondSlot, ThirdSlot
<1>3. CASE r = 0
  <2>1. q \in 17 .. 64
    BY <1>1, <1>3
  <2>2. DataAlignment(n) = 2048 * q /\ n <= 2048 * q /\ 2048 * q < n + 2048
    BY <1>1, <1>2, <1>3
  <2> WITNESS q \in 17 .. 64
  <2> QED BY <2>2
<1>4. CASE r # 0
  <2>1. q + 1 \in 17 .. 64
    BY <1>1, <1>4
  <2>2. DataAlignment(n) = 2048 * (q + 1) /\ n <= 2048 * (q + 1) /\ 2048 * (q + 1) < n + 2048
    BY <1>1, <1>2, <1>4
  <2> WITNESS q + 1 \in 17 .. 64
  <2> QED BY <2>2
<1> QED BY <1>3, <1>4

(* A request is never rounded down, by less than a granule up, and never   *)
(* out of the pool's lengths: the block handed out holds what was asked for *)
(* (DataAlignment).                                                         *)
THEOREM AlignmentCovers ==
    ASSUME NEW n, Served(n)
    PROVE  /\ n <= DataAlignment(n)
           /\ DataAlignment(n) < n + Granule(n)
           /\ Served(DataAlignment(n))
<1> USE DEF FirstSlot, SecondSlot, ThirdSlot, Granule, Served
<1>1. CASE 1 <= n /\ n <= 8192
  <2>1. PICK k \in 1 .. 16 : /\ DataAlignment(n) = 512 * k
                            /\ n <= 512 * k /\ 512 * k < n + 512
    BY <1>1, FirstBand
  <2> QED BY <1>1, <2>1
<1>2. CASE 8192 < n /\ n <= 32768
  <2>1. PICK k \in 9 .. 32 : /\ DataAlignment(n) = 1024 * k
                            /\ n <= 1024 * k /\ 1024 * k < n + 1024
    BY <1>2, SecondBand
  <2> QED BY <1>2, <2>1
<1>3. CASE 32768 < n /\ n <= 131072
  <2>1. PICK k \in 17 .. 64 : /\ DataAlignment(n) = 2048 * k
                            /\ n <= 2048 * k /\ 2048 * k < n + 2048
    BY <1>3, ThirdBand
  <2> QED BY <1>3, <2>1
<1> QED BY <1>1, <1>2, <1>3

(* The list a rounded length is looked up in holds blocks of that length,   *)
(* so that a block taken off a free list is as long as the request, and     *)
(* the index is one of free_list's 96 (FindFreeListIndex, Index2SlotLength).*)
THEOREM ClassOfAlignment ==
    ASSUME NEW n, Served(n)
    PROVE  /\ FindFreeListIndex(DataAlignment(n)) \in Lists
           /\ Index2SlotLength(FindFreeListIndex(DataAlignment(n))) = DataAlignment(n)
<1> USE DEF Served, FirstSlot, SecondSlot, ThirdSlot
<1>1. CASE 1 <= n /\ n <= 8192
  <2>1. PICK k \in 1 .. 16 : DataAlignment(n) = 512 * k
    BY <1>1, FirstBand
  <2>2. FindFreeListIndex(512 * k) = k - 1
    <3>1. (512 * k) \div 512 = k
      BY <2>1
    <3> QED BY <2>1, <3>1 DEF FindFreeListIndex
  <2> QED BY <2>1, <2>2 DEF Index2SlotLength, Lists
<1>2. CASE 8192 < n /\ n <= 32768
  <2>1. PICK k \in 9 .. 32 : DataAlignment(n) = 1024 * k
    BY <1>2, SecondBand
  <2>2. FindFreeListIndex(1024 * k) = k + 7
    <3>1. (1024 * k) \div 1024 = k
      BY <2>1
    <3> QED BY <2>1, <3>1 DEF FindFreeListIndex
  <2> QED BY <2>1, <2>2 DEF Index2SlotLength, Lists
<1>3. CASE 32768 < n /\ n <= 131072
  <2>1. PICK k \in 17 .. 64 : DataAlignment(n) = 2048 * k
    BY <1>3, ThirdBand
  <2>2. FindFreeListIndex(2048 * k) = k + 23
    <3>1. (2048 * k) \div 2048 = k
      BY <2>1
    <3> QED BY <2>1, <3>1 DEF FindFreeListIndex
  <2> QED BY <2>1, <2>2 DEF Index2SlotLength, Lists
<1> QED BY <1>1, <1>2, <1>3

(* Two neighbours are merged only into a length that has a class of its     *)
(* own, so that the block they become is found again by that length.        *)
THEOREM ClassOfMerge ==
    ASSUME NEW len, Served(len), IsMerge(len)
    PROVE  /\ FindFreeListIndex(len) \in Lists
           /\ Index2SlotLength(FindFreeListIndex(len)) = len
BY DEF IsMerge, Served, FirstSlot, SecondSlot, ThirdSlot, Lists,
       FindFreeListIndex, Index2SlotLength
=============================================================================
