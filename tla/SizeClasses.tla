---------------------------- MODULE SizeClasses ----------------------------
(* The size classes of the memory pool (RocketCoAlloctor): 96 free lists,   *)
(* 512 bytes apart up to 8 KB, 1 KB apart up to 32 KB and 2 KB apart up to  *)
(* 128 KB.  The bit operations of the code are written as the divisions and *)
(* remainders they compute; lengths are positive, as the callers' are.      *)
EXTENDS Integers

FirstSlot  == 8192
SecondSlot == 32768
ThirdSlot  == 131072
Lists      == 0 .. 95

(* The lengths the pool serves itself; longer ones go to the system.        *)
Served(n) == n \in Nat /\ 1 <= n /\ n <= ThirdSlot

(* The distance between the classes a length lies between. *)
Granule(n) == IF n <= FirstSlot THEN 512
              ELSE IF n <= SecondSlot THEN 1024 ELSE 2048

DataAlignment(n) ==
    IF n > ThirdSlot \/ (n % Granule(n)) = 0 THEN n
    ELSE (n - (n % Granule(n))) + Granule(n)

FindFreeListIndex(n) ==
    (IF n <= FirstSlot THEN n \div 512
     ELSE IF n <= SecondSlot THEN n \div 1024 + 8
     ELSE IF n <= ThirdSlot THEN n \div 2048 + 24
     ELSE n) - 1

Index2SlotLength(i) ==
    IF i < 16 THEN 512 * (i + 1)
    ELSE IF i < 40 THEN FirstSlot + 1024 * (i - 15)
    ELSE SecondSlot + 2048 * (i - 39)

(* Whether two neighbours of this total length may become one free block.   *)
IsMerge(len) ==
    \/ len < FirstSlot /\ len % 512 = 0
    \/ FirstSlot <= len /\ len < SecondSlot /\ len % 1024 = 0
    \/ SecondSlot <= len /\ len < ThirdSlot /\ len % 2048 = 0
=============================================================================
