-------------------------- MODULE TimeWheelProofs --------------------------
(***************************************************************************)
(* The timing wheel implements a timer, for every size of the wheel, every *)
(* set of items and timeouts, and every course of the clock on which the   *)
(* collections come in time (InTime): it may jump over the wheel, and back.*)
(***************************************************************************)
EXTENDS TimeWheel, SequenceLemmas

-----------------------------------------------------------------------------
(* Arithmetic modulo the size of the wheel *)

\* Quotient and remainder are unique.
LEMMA ModUnique ==
    ASSUME NEW N \in Nat \ {0}, NEW a \in Int, NEW q \in Int, NEW c \in 0..(N - 1),
           a = N * q + c
    PROVE  a % N = c
<1> DEFINE b == a % N
           e == q - (a \div N)
<1>1. b \in 0..(N - 1) /\ a \div N \in Int /\ a = N * (a \div N) + b
  OBVIOUS
<1> HIDE DEF b
<1>2. e \in Int /\ b = N * e + c
  BY <1>1
<1> HIDE DEF e
<1>3. e = 0
  <2>1. CASE e >= 1
    <3>1. N * e >= N
      BY <1>2, <2>1, SMTT(30)
    <3> QED
      BY <1>1, <1>2, <3>1
  <2>2. CASE e <= -1
    <3>1. N * e <= -N
      BY <1>2, <2>2, SMTT(30)
    <3> QED
      BY <1>1, <1>2, <3>1
  <2> QED
    BY <1>2, <2>1, <2>2
<1>4. b = c
  BY <1>2, <1>3
<1> QED
  BY <1>4 DEF b

\* A sum may be reduced before it is added to.
LEMMA ModSum ==
    ASSUME NEW N \in Nat \ {0}, NEW a \in Int, NEW b \in Int
    PROVE  ((a % N) + b) % N = (a + b) % N
<1> DEFINE q == a \div N
           c == (a % N) + b
           p == c \div N
           r == c % N
<1>1. q \in Int /\ c \in Int /\ p \in Int /\ r \in 0..(N - 1)
  OBVIOUS
<1>2. a % N = a - N * q /\ c = N * p + r
  OBVIOUS
<1>3. a + b = N * q + c
  BY <1>2
<1> HIDE DEF q, c, p, r
<1>4. a + b = N * (p + q) + r
  BY <1>1, <1>2, <1>3
<1>5. p + q \in Int /\ a + b \in Int
  BY <1>1
<1>6. (a + b) % N = r
  BY <1>1, <1>4, <1>5, ModUnique
<1> QED
  BY <1>6 DEF r, c

\* Less than a whole turn apart, two times have different slots.
LEMMA ModInjective ==
    ASSUME NEW N \in Nat \ {0}, NEW a \in Int, NEW j \in 0..(N - 1), NEW k \in 0..(N - 1),
           (a + j) % N = (a + k) % N
    PROVE  j = k
<1> DEFINE p == (a + j) \div N
           q == (a + k) \div N
           e == p - q
<1>1. p \in Int /\ q \in Int
  OBVIOUS
<1>2. (a + j) % N = a + j - N * p /\ (a + k) % N = a + k - N * q
  OBVIOUS
<1>3. j - k = N * p - N * q
  BY <1>1, <1>2
<1> HIDE DEF p, q
<1>4. e \in Int /\ j - k = N * e
  BY <1>1, <1>3
<1> HIDE DEF e
<1>5. CASE e >= 1
  <2>1. N * e >= N
    BY <1>4, <1>5, SMTT(30)
  <2> QED
    BY <1>4, <2>1
<1>6. CASE e <= -1
  <2>1. N * e <= -N
    BY <1>4, <1>6, SMTT(30)
  <2> QED
    BY <1>4, <2>1
<1>7. CASE e = 0
  BY <1>4, <1>7
<1> QED
  BY <1>4, <1>5, <1>6, <1>7

-----------------------------------------------------------------------------
(* Types *)

\* The slots are the numbers below the size.
LEMMA SlotsAreNumbers ==
    /\ 0 \in Slots
    /\ \A s \in Slots : s \in Int /\ 0 <= s /\ s < DefaultSize
    /\ \A a \in Int : 0 <= a /\ a < DefaultSize => a \in Slots
BY WheelAssumption DEF Slots

\* A time reduced modulo the size is a slot.
LEMMA ReducedIsSlot ==
    ASSUME NEW a \in Int
    PROVE  a % DefaultSize \in Slots
BY WheelAssumption DEF Slots

\* Where an operation at the time now begins, and how far a collection goes.
LEMMA BeginsAt ==
    ASSUME TypeOK, NEW now \in Int
    PROVE  /\ StartAt(now) \in Int
           /\ IndexAt \in Slots
           /\ IndexAt \in Int
           /\ Passed(now) \in Nat
           /\ Passed(now) <= DefaultSize
<1>1. StartAt(now) \in Int
  BY DEF TypeOK, StartAt
<1>2. IndexAt \in Slots /\ IndexAt \in Int
  <2>1. IndexAt \in Slots
    BY SlotsAreNumbers DEF TypeOK, IndexAt
  <2> QED
    BY <2>1, SlotsAreNumbers
<1> DEFINE n == (now - StartAt(now) + 1) % IntMod
<1>3. n \in Nat /\ Passed(now) = IF n > DefaultSize THEN DefaultSize ELSE n
  <2>1. IntMod \in Nat \ {0} /\ now - StartAt(now) + 1 \in Int
    BY <1>1, WheelAssumption
  <2> QED
    BY <2>1 DEF Passed
<1> HIDE DEF n
<1>4. Passed(now) \in Nat /\ Passed(now) <= DefaultSize
  BY <1>3, WheelAssumption
<1> QED
  BY <1>1, <1>2, <1>4

\* A collection in time goes as far as the clock has gone, or once round.
LEMMA PassedInTime ==
    ASSUME TypeOK, NEW now \in Int, InTime(now)
    PROVE  /\ NothingPassed(now) <=> now < StartAt(now)
           /\ ~ (now < StartAt(now)) =>
                /\ Passed(now) <= now - StartAt(now) + 1
                /\ Passed(now) = now - StartAt(now) + 1 \/ Passed(now) = DefaultSize
<1>1. StartAt(now) \in Int
  BY BeginsAt
<1>2. CASE now < StartAt(now)
  BY <1>2 DEF NothingPassed
<1>3. CASE ~ (now < StartAt(now))
  <2> DEFINE n == now - StartAt(now) + 1
  <2>1. n \in Nat /\ n >= 1 /\ n < IntMod
    BY <1>1, <1>3 DEF InTime
  <2>2. Passed(now) = IF n % IntMod > DefaultSize THEN DefaultSize ELSE n % IntMod
    BY DEF Passed
  <2> HIDE DEF n
  <2>3. n % IntMod = n
    BY <2>1, WheelAssumption, ModUnique
  <2>4. Passed(now) <= n /\ (Passed(now) = n \/ Passed(now) = DefaultSize) /\ Passed(now) # 0
    BY <2>1, <2>2, <2>3, WheelAssumption
  <2> QED
    BY <1>3, <2>4 DEF n, NothingPassed
<1> QED
  BY <1>2, <1>3

\* The list of TakeOutTimeout is one of items.
LEMMA TakenOutType ==
    ASSUME TypeOK, NEW now \in Int
    PROVE  TakenOut(now) \in Seq(Item)
<1>1. CASE NothingPassed(now)
  BY <1>1 DEF TakenOut
<1>2. CASE ~ NothingPassed(now)
  <2> DEFINE s == [k \in 1..Passed(now) |-> Wheel[Visited(k - 1)]]
  <2>1. StartAt(now) \in Int /\ IndexAt \in Int
    BY BeginsAt
  <2>2. Passed(now) \in Nat
    BY BeginsAt
  <2>3. ASSUME NEW k \in 1..Passed(now)
        PROVE  Wheel[Visited(k - 1)] \in Seq(Item)
    <3>1. IndexAt + (k - 1) \in Int
      BY <2>1
    <3>2. Visited(k - 1) \in Slots
      BY <3>1, ReducedIsSlot DEF Visited
    <3> QED
      BY <3>2 DEF TypeOK
  <2>4. s \in Seq(Seq(Item))
    BY <2>2, <2>3
  <2> HIDE DEF s
  <2>5. FlattenSeq(s) \in Seq(Item)
    BY <2>4, FlattenJoins
  <2> QED
    BY <1>2, <2>5 DEF TakenOut, s
<1> QED
  BY <1>1, <1>2

\* The types after RemoveFromWheel of the items in S.
LEMMA RemoveTypes ==
    ASSUME TypeOK, NEW S, Wheel' = [s \in Slots |-> Excluding(Wheel[s], S)]
    PROVE  Wheel' \in [Slots -> Seq(Item)]
<1>1. \A s \in Slots : Excluding(Wheel[s], S) \in Seq(Item)
  BY ExcludingElements DEF TypeOK
<1> QED
  BY <1>1

\* The types after TakeOutTimeout.
LEMMA TakeOutTypes ==
    ASSUME TypeOK, TakeOutTimeout(clock)
    PROVE  /\ Start' \in 0..MaxClock
           /\ Index' \in Slots
           /\ Wheel' \in [Slots -> Seq(Item)]
           /\ ExpireTime' = ExpireTime
<1>1. clock \in 1..MaxClock
  BY DEF TypeOK
<1>2. Start' \in 0..MaxClock
  BY <1>1 DEF TakeOutTimeout, TypeOK
<1>3. Index' \in Slots
  <2>1. IndexAt \in Int /\ Passed(clock) \in Int
    BY <1>1, BeginsAt
  <2> DEFINE a == IndexAt + Passed(clock) - 1
  <2>2. a \in Int
    BY <2>1
  <2>3. a % DefaultSize \in Slots
    BY <2>2, ReducedIsSlot
  <2>4. Index' = Index \/ Index' = a % DefaultSize
    BY DEF TakeOutTimeout
  <2> QED
    BY <2>3, <2>4 DEF TypeOK
<1>4. Wheel' \in [Slots -> Seq(Item)]
  <2>1. CASE NothingPassed(clock)
    BY <2>1 DEF TakeOutTimeout, TypeOK
  <2>2. CASE ~ NothingPassed(clock)
    <3> DEFINE gone == {Visited(k) : k \in 0..(Passed(clock) - 1)}
    <3>1. Wheel' = [s \in Slots |-> IF s \in gone THEN <<>> ELSE Wheel[s]]
      BY <2>2 DEF TakeOutTimeout
    <3> HIDE DEF gone
    <3> QED
      BY <3>1 DEF TypeOK
  <2> QED
    BY <2>1, <2>2
<1> QED
  BY <1>2, <1>3, <1>4 DEF TakeOutTimeout

\* The types of the initial state.
LEMMA InitTypeOK == Init => TypeOK
BY WheelAssumption, SlotsAreNumbers DEF Init, WheelInit, TypeOK

\* The types after a step.
LEMMA NextTypeOK == TypeOK /\ [Next]_tvars => TypeOK'
<1> SUFFICES ASSUME TypeOK, [Next]_tvars
             PROVE  TypeOK'
  OBVIOUS
<1>1. ASSUME NEW i \in Item, Add(i)
      PROVE  TypeOK'
  <2>1. PICK t \in Timeouts : AddTimeOut(i, clock, clock + t)
    BY <1>1 DEF Add
  <2> DEFINE e == clock + t
             s == (IndexAt + e - StartAt(clock)) % DefaultSize
  <2>2. clock \in 1..MaxClock /\ e \in Int
    BY WheelAssumption DEF TypeOK
  <2>3. Start' \in 0..MaxClock /\ Index' \in Slots
    BY <2>1, <2>2, SlotsAreNumbers DEF AddTimeOut, StartAt, IndexAt, TypeOK
  <2>4. s \in Slots
    <3>1. IndexAt \in Int /\ StartAt(clock) \in Int
      BY <2>2, BeginsAt
    <3>2. IndexAt + e - StartAt(clock) \in Int
      BY <2>2, <3>1
    <3> QED
      BY <3>2, ReducedIsSlot
  <2>5. Wheel' \in [Slots -> Seq(Item)]
    <3>1. Wheel' = Wheel \/ Wheel' = [Wheel EXCEPT ![s] = Append(Wheel[s], i)]
      BY <2>1 DEF AddTimeOut
    <3>2. Wheel \in [Slots -> Seq(Item)]
      BY DEF TypeOK
    <3>3. Append(Wheel[s], i) \in Seq(Item)
      BY <2>4, <3>2
    <3> HIDE DEF s
    <3> QED
      BY <2>4, <3>1, <3>2, <3>3
  <2>6. ExpireTime' \in [Item -> Int]
    BY <2>1, <2>2 DEF AddTimeOut, TypeOK
  <2> QED
    BY <1>1, <2>3, <2>5, <2>6 DEF Add, TypeOK, clockVars
<1>2. ASSUME NEW i \in Item, Cancel(i)
      PROVE  TypeOK'
  <2>1. Wheel' \in [Slots -> Seq(Item)]
    BY <1>2, RemoveTypes DEF Cancel, RemoveFromWheel
  <2> QED
    BY <1>2, <2>1 DEF Cancel, RemoveFromWheel, TypeOK, clockVars
<1>3. CASE TakeOut
  <2>1. clock \in 1..MaxClock
    BY DEF TypeOK
  <2>2. TimeOut' \in Seq(Item)
    BY <1>3, <2>1, TakenOutType DEF TakeOut
  <2> QED
    BY <1>3, <2>2, TakeOutTypes DEF TakeOut, TypeOK, clockVars
<1>4. CASE ClockStep
  <2>1. clock' \in 1..MaxClock /\ back' \in 0..MaxBack
    <3>1. clock \in 1..MaxClock /\ back \in 0..MaxBack
      BY DEF TypeOK
    <3>2. CASE Tick
      BY <3>1, <3>2, WheelAssumption DEF Tick
    <3>3. CASE SetBack
      BY <3>1, <3>3, WheelAssumption DEF SetBack
    <3> QED
      BY <1>4, <3>2, <3>3 DEF ClockStep
  <2> QED
    BY <1>4, <2>1 DEF ClockStep, TypeOK, wheelVars
<1>5. CASE UNCHANGED tvars
  BY <1>5 DEF TypeOK, tvars, clockVars, wheelVars
<1> QED
  BY <1>1, <1>2, <1>3, <1>4, <1>5 DEF Next

\* The wheel's variables keep their types, however late it is collected.
THEOREM WheelTypeCorrect == Spec => []TypeOK
<1>1. Init => TypeOK
  BY InitTypeOK
<1>2. TypeOK /\ [Next]_tvars => TypeOK'
  BY NextTypeOK
<1> QED
  BY <1>1, <1>2, PTL DEF Spec

-----------------------------------------------------------------------------
(* The items are in their slots *)

\* A wheel that has not been used is empty.
UnusedEmpty == Start = 0 => \A s \in Slots : Wheel[s] = <<>>

\* The inductive invariant: SlotSound speaks of the distance to Start, which
\* the first use of the wheel changes.
WheelInv == TypeOK /\ SlotSound /\ UnusedEmpty

\* x belongs into slot s when the slot index is the one of the time start.
Placed(x, s, index, start, expire) ==
    /\ expire[x] - start \in 0..(DefaultSize - 1)
    /\ s = (index + (expire[x] - start)) % DefaultSize

\* SlotSound, said of the items in a slot instead of its positions.
LEMMA SlotSoundMeans ==
    ASSUME TypeOK
    PROVE  SlotSound <=> \A s \in Slots :
                            /\ Distinct(Wheel[s])
                            /\ \A x : Contains(Wheel[s], x)
                                         => Placed(x, s, Index, Start, ExpireTime)
<1>1. ASSUME NEW s \in Slots, NEW j \in 1..Len(Wheel[s])
      PROVE  LET x == Wheel[s][j]
             IN  /\ x \in Item /\ ExpireTime[x] \in Int
                 /\ Index + (ExpireTime[x] - Start) = Index + ExpireTime[x] - Start
  <2>1. Wheel[s] \in Seq(Item)
    BY DEF TypeOK
  <2>2. Wheel[s][j] \in Item
    BY <2>1
  <2>3. ExpireTime[Wheel[s][j]] \in Int /\ Index \in Int /\ Start \in Int
    BY <2>2, SlotsAreNumbers DEF TypeOK
  <2> DEFINE e == ExpireTime[Wheel[s][j]]
  <2>4. Index + (e - Start) = Index + e - Start
    <3> HIDE DEF e
    <3>1. e \in Int /\ Index \in Int /\ Start \in Int
      BY <2>3 DEF e
    <3> QED
      BY <3>1
  <2> QED
    BY <2>2, <2>3, <2>4
<1>2. ASSUME SlotSound, NEW s \in Slots
      PROVE  /\ Distinct(Wheel[s])
             /\ \A x : Contains(Wheel[s], x) => Placed(x, s, Index, Start, ExpireTime)
  <2>1. Distinct(Wheel[s])
    BY <1>2 DEF SlotSound, Distinct
  <2>2. ASSUME NEW j \in 1..Len(Wheel[s])
        PROVE  Placed(Wheel[s][j], s, Index, Start, ExpireTime)
    BY <1>1, <1>2, <2>2 DEF SlotSound, Placed
  <2> QED
    BY <2>1, <2>2 DEF Contains
<1>3. ASSUME \A s \in Slots :
                /\ Distinct(Wheel[s])
                /\ \A x : Contains(Wheel[s], x) => Placed(x, s, Index, Start, ExpireTime)
      PROVE  SlotSound
  <2> SUFFICES ASSUME NEW s \in Slots, NEW j \in 1..Len(Wheel[s])
               PROVE  LET i == Wheel[s][j]
                      IN  /\ s = (Index + ExpireTime[i] - Start) % DefaultSize
                          /\ ExpireTime[i] - Start \in 0..(DefaultSize - 1)
                          /\ \A k \in 1..Len(Wheel[s]) : Wheel[s][k] = i => k = j
    BY DEF SlotSound
  <2>1. Placed(Wheel[s][j], s, Index, Start, ExpireTime) /\ Distinct(Wheel[s])
    BY <1>3 DEF Contains
  <2> QED
    BY <2>1, <1>1 DEF Placed, Distinct
<1> QED
  BY <1>2, <1>3

\* SlotSound after a step, from what the step leaves in the slots.
LEMMA SlotSoundNext ==
    ASSUME TypeOK',
           \A s \in Slots :
              /\ Distinct(Wheel'[s])
              /\ \A x : Contains(Wheel'[s], x) => Placed(x, s, Index', Start', ExpireTime')
    PROVE  SlotSound'
<1> SUFFICES ASSUME NEW s \in Slots, NEW j \in 1..Len(Wheel'[s])
             PROVE  LET i == Wheel'[s][j]
                    IN  /\ s = (Index' + ExpireTime'[i] - Start') % DefaultSize
                        /\ ExpireTime'[i] - Start' \in 0..(DefaultSize - 1)
                        /\ \A k \in 1..Len(Wheel'[s]) : Wheel'[s][k] = i => k = j
  BY DEF SlotSound, Slots
<1> DEFINE i == Wheel'[s][j]
           e == ExpireTime'[i]
<1>1. Placed(i, s, Index', Start', ExpireTime') /\ Distinct(Wheel'[s])
  BY DEF Contains
<1>2. i \in Item
  BY DEF TypeOK
<1>3. e \in Int /\ Index' \in Int /\ Start' \in Int
  BY <1>2, SlotsAreNumbers DEF TypeOK, Slots
<1>4. Index' + (e - Start') = Index' + e - Start'
  <2> HIDE DEF e
  <2> QED
    BY <1>3
<1> QED
  BY <1>1, <1>4 DEF Placed, Distinct

\* The same where an operation at the time now begins.
LEMMA PlacedFromNow ==
    ASSUME WheelInv, NEW now \in Int, NEW s \in Slots
    PROVE  /\ Distinct(Wheel[s])
           /\ \A x : Contains(Wheel[s], x) =>
                /\ x \in Item
                /\ ExpireTime[x] \in Int
                /\ Placed(x, s, IndexAt, StartAt(now), ExpireTime)
<1>1. TypeOK /\ Wheel[s] \in Seq(Item)
  BY DEF WheelInv, TypeOK
<1>2. Distinct(Wheel[s])
  BY <1>1, SlotSoundMeans DEF WheelInv
<1>3. ASSUME NEW x, Contains(Wheel[s], x)
      PROVE  /\ x \in Item
             /\ ExpireTime[x] \in Int
             /\ Placed(x, s, IndexAt, StartAt(now), ExpireTime)
  <2>1. x \in Item
    BY <1>1, <1>3 DEF Contains
  <2>2. Start # 0
    BY <1>3 DEF WheelInv, UnusedEmpty, Contains
  <2>3. Placed(x, s, Index, Start, ExpireTime)
    BY <1>1, <1>3, SlotSoundMeans DEF WheelInv
  <2> QED
    BY <1>1, <2>1, <2>2, <2>3 DEF IndexAt, StartAt, TypeOK
<1> QED
  BY <1>2, <1>3

\* An item is in one slot.
LEMMA OneSlot ==
    ASSUME WheelInv, NEW x, NEW s \in Slots, NEW t \in Slots,
           Contains(Wheel[s], x), Contains(Wheel[t], x)
    PROVE  s = t
BY PlacedFromNow DEF Placed

\* How far from the beginning an item's slot is visited.
LEMMA PlacedIsVisited ==
    ASSUME WheelInv, NEW now \in Int, NEW s \in Slots, NEW x, Contains(Wheel[s], x),
           NEW k \in 0..(DefaultSize - 1)
    PROVE  s = Visited(k) <=> ExpireTime[x] = StartAt(now) + k
<1> DEFINE d == ExpireTime[x] - StartAt(now)
<1>1. StartAt(now) \in Int /\ IndexAt \in Int
  BY BeginsAt DEF WheelInv
<1>2. ExpireTime[x] \in Int /\ d \in 0..(DefaultSize - 1)
      /\ s = (IndexAt + d) % DefaultSize
  BY PlacedFromNow DEF Placed
<1>3. ExpireTime[x] = StartAt(now) + k <=> d = k
  BY <1>1, <1>2
<1> HIDE DEF d
<1>4. (IndexAt + d) % DefaultSize = (IndexAt + k) % DefaultSize => d = k
  BY <1>1, <1>2, WheelAssumption, ModInjective
<1> QED
  BY <1>2, <1>3, <1>4 DEF Visited

\* AddTimeOut, if it does not refuse the item, puts it into the wheel.
LEMMA AddPuts ==
    ASSUME WheelInv, NEW i \in Item, NEW now \in Int, NEW expire \in Int,
           AddTimeOut(i, now, expire), ~ Refuses(now, expire),
           NEW x \in Item
    PROVE  InWheel(x)' <=> InWheel(x) \/ x = i
<1> DEFINE s == (IndexAt + expire - StartAt(now)) % DefaultSize
<1>1. s \in Slots
  <2>1. IndexAt \in Int /\ StartAt(now) \in Int
    BY BeginsAt DEF WheelInv
  <2>2. IndexAt + expire - StartAt(now) \in Int
    BY <2>1
  <2> QED
    BY <2>2, ReducedIsSlot
<1>2. Wheel' = [Wheel EXCEPT ![s] = Append(Wheel[s], i)]
  BY DEF AddTimeOut
<1>3. Wheel \in [Slots -> Seq(Item)]
  BY DEF WheelInv, TypeOK
<1> HIDE DEF s
<1>4. Contains(Append(Wheel[s], i), x) <=> Contains(Wheel[s], x) \/ x = i
  <2> DEFINE q == Wheel[s]
             a == Append(q, i)
  <2>1. q \in Seq(Item)
    BY <1>1, <1>3
  <2> HIDE DEF q
  <2>2. /\ Len(a) = Len(q) + 1 /\ a[Len(q) + 1] = i /\ Len(q) \in Nat
        /\ \A j \in 1..Len(q) : a[j] = q[j]
    BY <2>1
  <2> HIDE DEF a
  <2>3. /\ Len(q) + 1 \in 1..Len(a)
        /\ \A j \in 1..Len(q) : j \in 1..Len(a)
        /\ \A j \in 1..Len(a) : j \in 1..Len(q) \/ j = Len(q) + 1
    BY <2>2
  <2>4. Contains(a, x) <=> Contains(q, x) \/ x = i
    BY <2>2, <2>3 DEF Contains
  <2> QED
    BY <2>4 DEF q, a
<1>5. /\ Wheel'[s] = Append(Wheel[s], i)
      /\ \A r \in Slots : r # s => Wheel'[r] = Wheel[r]
  BY <1>1, <1>2, <1>3
<1>6. InWheel(x)' <=> \E r \in Slots : Contains(Wheel'[r], x)
  BY DEF InWheel, Slots
<1> QED
  BY <1>1, <1>4, <1>5, <1>6 DEF InWheel

\* AddTimeOut keeps the invariant.
LEMMA AddKeepsWheelInv ==
    ASSUME WheelInv, TypeOK', NEW i \in Item, Add(i)
    PROVE  WheelInv'
<1>1. PICK t \in Timeouts : AddTimeOut(i, clock, clock + t)
  BY DEF Add
<1> DEFINE e == clock + t
           p == (IndexAt + e - StartAt(clock)) % DefaultSize
<1>2. clock \in Int /\ clock >= 1 /\ e \in Int
  BY WheelAssumption DEF WheelInv, TypeOK
<1>3. StartAt(clock) \in Int /\ IndexAt \in Int
  BY <1>2, BeginsAt DEF WheelInv
<1>4. /\ Start' = StartAt(clock) /\ Index' = IndexAt
      /\ ExpireTime' = [ExpireTime EXCEPT ![i] = e]
      /\ Wheel' = IF Refuses(clock, e) THEN Wheel
                  ELSE [Wheel EXCEPT ![p] = Append(Wheel[p], i)]
  BY <1>1 DEF AddTimeOut
<1>5. p \in Slots
  <2>1. IndexAt + e - StartAt(clock) \in Int
    BY <1>2, <1>3
  <2> QED
    BY <2>1, ReducedIsSlot
<1>6. /\ \A s \in Slots : Wheel[s] \in Seq(Item)
      /\ Wheel \in [Slots -> Seq(Item)]
      /\ ExpireTime \in [Item -> Int]
  BY DEF WheelInv, TypeOK
<1>7. UnusedEmpty'
  <2>1. Start' # 0
    BY <1>2, <1>4 DEF StartAt
  <2> QED
    BY <2>1 DEF UnusedEmpty
<1>8. p = (IndexAt + (e - StartAt(clock))) % DefaultSize
  <2>1. IndexAt + (e - StartAt(clock)) = IndexAt + e - StartAt(clock)
    BY <1>2, <1>3
  <2> QED
    BY <2>1
<1> HIDE DEF p, e
<1>9. ASSUME NEW s \in Slots
      PROVE  /\ Distinct(Wheel[s])
             /\ \A x : Contains(Wheel[s], x) => Placed(x, s, Index', Start', ExpireTime')
  <2>1. ASSUME NEW x, Contains(Wheel[s], x)
        PROVE  Placed(x, s, Index', Start', ExpireTime')
    <3>1. x # i
      BY <2>1 DEF Add, InWheel
    <3>2. x \in Item /\ Placed(x, s, IndexAt, StartAt(clock), ExpireTime)
      BY <1>2, <2>1, PlacedFromNow
    <3>3. ExpireTime'[x] = ExpireTime[x]
      BY <1>4, <1>6, <3>1, <3>2
    <3> QED
      BY <1>4, <3>2, <3>3 DEF Placed
  <2> QED
    BY <1>2, <2>1, PlacedFromNow
<1>10. ASSUME ~ Refuses(clock, e)
       PROVE  /\ Placed(i, p, Index', Start', ExpireTime')
              /\ Distinct(Append(Wheel[p], i))
              /\ \A x : Contains(Append(Wheel[p], i), x) => Contains(Wheel[p], x) \/ x = i
  <2>1. e - StartAt(clock) \in 0..(DefaultSize - 1)
    BY <1>2, <1>3, <1>10, WheelAssumption DEF Refuses
  <2>2. ExpireTime'[i] = e
    BY <1>4, <1>6
  <2>3. Wheel[p] \in Seq(Item)
    BY <1>5, <1>6
  <2> DEFINE q == Wheel[p]
             a == Append(q, i)
  <2>4. ~ Contains(q, i) /\ Distinct(q)
    BY <1>5, <1>9 DEF Add, InWheel
  <2> HIDE DEF q
  <2>5. /\ Len(a) = Len(q) + 1 /\ a[Len(q) + 1] = i /\ Len(q) \in Nat
        /\ \A j \in 1..Len(q) : a[j] = q[j]
    BY <2>3 DEF q
  <2> HIDE DEF a
  <2>6. \A j \in 1..Len(a) : j \in 1..Len(q) \/ j = Len(q) + 1
    BY <2>5
  <2>7. Distinct(a)
    BY <2>4, <2>5, <2>6 DEF Distinct, Contains
  <2>8. \A x : Contains(a, x) => Contains(q, x) \/ x = i
    BY <2>5, <2>6 DEF Contains
  <2>9. Placed(i, p, Index', Start', ExpireTime')
    BY <1>4, <1>8, <2>1, <2>2 DEF Placed
  <2> QED
    BY <2>7, <2>8, <2>9 DEF a, q
<1>11. ASSUME NEW s \in Slots
       PROVE  /\ Distinct(Wheel'[s])
              /\ \A x : Contains(Wheel'[s], x) => Placed(x, s, Index', Start', ExpireTime')
  <2>1. CASE Wheel'[s] = Wheel[s]
    BY <1>9, <2>1
  <2>2. CASE ~ Refuses(clock, e) /\ s = p /\ Wheel'[s] = Append(Wheel[p], i)
    BY <1>5, <1>9, <1>10, <2>2
  <2> QED
    BY <1>4, <1>5, <1>6, <2>1, <2>2
<1>12. SlotSound'
  BY <1>11, SlotSoundNext
<1> QED
  BY <1>7, <1>12 DEF WheelInv

\* RemoveFromWheel of the items in S keeps the invariant.
LEMMA RemoveKeepsWheelInv ==
    ASSUME WheelInv, TypeOK', NEW S,
           Wheel' = [s \in Slots |-> Excluding(Wheel[s], S)],
           UNCHANGED <<Start, Index, ExpireTime>>
    PROVE  WheelInv'
<1>1. /\ Start' = Start /\ Index' = Index /\ ExpireTime' = ExpireTime
      /\ \A s \in Slots : Wheel'[s] = Excluding(Wheel[s], S)
  OBVIOUS
<1>2. ASSUME NEW s \in Slots
      PROVE  /\ Distinct(Wheel'[s])
             /\ \A x : Contains(Wheel'[s], x) => Contains(Wheel[s], x)
             /\ \A x : Contains(Wheel'[s], x) => Placed(x, s, Index', Start', ExpireTime')
  <2>1. Wheel[s] \in Seq(Item)
    BY DEF WheelInv, TypeOK
  <2>2. /\ Distinct(Wheel[s])
        /\ \A x : Contains(Wheel[s], x) => Placed(x, s, Index, Start, ExpireTime)
    BY SlotSoundMeans DEF WheelInv
  <2>3. /\ Distinct(Wheel'[s])
        /\ \A x : Contains(Wheel'[s], x) => Contains(Wheel[s], x)
    BY <1>1, <2>1, <2>2, ExcludingElements
  <2> QED
    BY <1>1, <2>2, <2>3 DEF Placed
<1>3. SlotSound'
  BY <1>2, SlotSoundNext
<1>4. UnusedEmpty'
  <2> SUFFICES ASSUME Start' = 0, NEW s \in Slots
               PROVE  Wheel'[s] = <<>>
    BY DEF UnusedEmpty, Slots
  <2>1. Wheel[s] = <<>>
    BY <1>1 DEF WheelInv, UnusedEmpty
  <2> DEFINE q == Wheel'[s]
  <2>2. \A x : ~ Contains(q, x)
    BY <1>2, <2>1 DEF Contains
  <2>3. q \in Seq(Item)
    BY DEF TypeOK, Slots
  <2> HIDE DEF q
  <2>4. Len(q) = 0
    <3>1. Len(q) \in Nat
      BY <2>3
    <3>2. ASSUME Len(q) # 0
          PROVE  FALSE
      <4>1. 1 \in 1..Len(q)
        BY <3>1, <3>2
      <4>2. Contains(q, q[1])
        BY <4>1 DEF Contains
      <4> QED
        BY <2>2, <4>2
    <3> QED
      BY <3>2
  <2>5. q = <<>>
    BY <2>3, <2>4
  <2> QED
    BY <2>5 DEF q
<1> QED
  BY <1>3, <1>4 DEF WheelInv

\* What TakeOutTimeout leaves in a slot, when the clock has not gone back.
LEMMA TakeOutLeaves ==
    ASSUME WheelInv, NEW now \in Int, TakeOutTimeout(now), InTime(now),
           ~ (now < StartAt(now)), NEW s \in Slots
    PROVE  /\ Wheel'[s] = <<>> \/ Wheel'[s] = Wheel[s]
           /\ \A x : Contains(Wheel[s], x) => (Contains(Wheel'[s], x) <=> ExpireTime[x] > now)
<1> DEFINE gone == {Visited(k) : k \in 0..(Passed(now) - 1)}
<1>1. Wheel'[s] = IF s \in gone THEN <<>> ELSE Wheel[s]
  <2>1. ~ NothingPassed(now)
    BY PassedInTime DEF WheelInv
  <2> QED
    BY <2>1 DEF TakeOutTimeout
<1>2. ASSUME NEW x, Contains(Wheel[s], x)
      PROVE  s \in gone <=> ExpireTime[x] <= now
  <2>1. /\ StartAt(now) \in Int /\ Passed(now) \in Int /\ Passed(now) <= DefaultSize
        /\ Passed(now) <= now - StartAt(now) + 1
        /\ Passed(now) = now - StartAt(now) + 1 \/ Passed(now) = DefaultSize
    BY BeginsAt, PassedInTime DEF WheelInv
  <2> DEFINE d == ExpireTime[x] - StartAt(now)
  <2>2. ExpireTime[x] \in Int /\ d \in 0..(DefaultSize - 1)
    BY <1>2, PlacedFromNow DEF Placed
  <2>3. ASSUME s \in gone
        PROVE  ExpireTime[x] <= now
    <3>1. PICK k \in 0..(Passed(now) - 1) : s = Visited(k)
      BY <2>3
    <3>2. k \in 0..(DefaultSize - 1)
      BY <2>1, WheelAssumption
    <3>3. ExpireTime[x] = StartAt(now) + k
      BY <1>2, <3>1, <3>2, PlacedIsVisited
    <3> QED
      BY <2>1, <3>3
  <2>4. ASSUME ExpireTime[x] <= now
        PROVE  s \in gone
    <3>1. d \in 0..(Passed(now) - 1)
      BY <2>1, <2>2, <2>4, WheelAssumption
    <3>2. ExpireTime[x] = StartAt(now) + d
      BY <2>1, <2>2
    <3> HIDE DEF d
    <3>3. s = Visited(d)
      BY <1>2, <2>2, <3>2, PlacedIsVisited
    <3> QED
      BY <3>1, <3>3
  <2> QED
    BY <2>3, <2>4
<1>3. ASSUME NEW x, Contains(Wheel[s], x)
      PROVE  Contains(Wheel'[s], x) <=> ExpireTime[x] > now
  <2>1. ~ Contains(<<>>, x)
    BY DEF Contains
  <2>2. ExpireTime[x] \in Int
    BY <1>3, PlacedFromNow
  <2>3. s \in gone <=> ~ (ExpireTime[x] > now)
    BY <1>2, <1>3, <2>2
  <2> HIDE DEF gone
  <2> QED
    BY <1>1, <1>3, <2>1, <2>3
<1> QED
  BY <1>1, <1>3

\* TakeOutTimeout keeps the invariant: what is left is later than now, and at
\* the same distance from the new slot index as from the new time.
LEMMA TakeOutKeepsWheelInv ==
    ASSUME WheelInv, TypeOK', TakeOutTimeout(clock), InTime(clock)
    PROVE  WheelInv'
<1>1. TakeOutTimeout(clock) /\ InTime(clock) /\ ExpireTime' = ExpireTime
  BY DEF TakeOutTimeout
<1>2. /\ clock \in Int /\ clock >= 1
      /\ NothingPassed(clock) <=> clock < StartAt(clock)
  <2>1. clock \in Int /\ clock >= 1
    BY DEF WheelInv, TypeOK
  <2> QED
    BY <2>1, PassedInTime DEF WheelInv
<1>3. CASE clock < StartAt(clock)
  <2>1. Start' = Start /\ Index' = Index /\ Wheel' = Wheel
    BY <1>1, <1>2, <1>3 DEF TakeOutTimeout
  <2> QED
    BY <1>1, <2>1 DEF WheelInv, SlotSound, UnusedEmpty, Slots
<1>4. CASE ~ (clock < StartAt(clock))
  <2> DEFINE n == Passed(clock) - 1
  <2>1. Start' = clock /\ Index' = (IndexAt + n) % DefaultSize
    <3>1. IndexAt \in Int /\ Passed(clock) \in Int
      BY <1>2, BeginsAt DEF WheelInv
    <3>2. IndexAt + Passed(clock) - 1 = IndexAt + n
      BY <3>1
    <3> QED
      BY <1>1, <1>2, <1>4, <3>2 DEF TakeOutTimeout
  <2>2. ASSUME NEW s \in Slots
        PROVE  /\ Distinct(Wheel'[s])
               /\ \A x : Contains(Wheel'[s], x) => Placed(x, s, Index', Start', ExpireTime')
    <3>1. Wheel'[s] = <<>> \/ Wheel'[s] = Wheel[s]
      BY <1>1, <1>2, <1>4, TakeOutLeaves
    <3>2. Distinct(Wheel'[s])
      <4>1. Distinct(<<>>)
        BY DEF Distinct
      <4>2. Distinct(Wheel[s])
        BY <1>2, PlacedFromNow
      <4> QED
        BY <3>1, <4>1, <4>2
    <3>3. ASSUME NEW x, Contains(Wheel'[s], x)
          PROVE  Placed(x, s, Index', Start', ExpireTime')
      <4>1. Contains(Wheel[s], x)
        BY <3>1, <3>3 DEF Contains
      <4> DEFINE d == ExpireTime[x] - StartAt(clock)
      <4>2. /\ ExpireTime[x] \in Int /\ d \in 0..(DefaultSize - 1)
            /\ s = (IndexAt + d) % DefaultSize
        BY <1>2, <4>1, PlacedFromNow DEF Placed
      <4>3. ExpireTime[x] > clock
        BY <1>1, <1>2, <1>4, <3>3, <4>1, TakeOutLeaves
      <4>4. /\ StartAt(clock) \in Int /\ IndexAt \in Int /\ n \in Int
            /\ n + 1 <= DefaultSize
            /\ n = clock - StartAt(clock) \/ n + 1 = DefaultSize
            /\ n <= clock - StartAt(clock)
        <5> DEFINE a == StartAt(clock)
                   m == Passed(clock)
        <5>1. /\ a \in Int /\ IndexAt \in Int /\ m \in Int /\ m <= DefaultSize
              /\ m <= clock - a + 1
              /\ m = clock - a + 1 \/ m = DefaultSize
          BY <1>1, <1>2, <1>4, BeginsAt, PassedInTime DEF WheelInv
        <5> HIDE DEF a, m
        <5>2. /\ m - 1 \in Int /\ (m - 1) + 1 = m
              /\ m - 1 <= clock - a
              /\ m - 1 = clock - a \/ m = DefaultSize
          BY <1>2, <5>1, WheelAssumption
        <5> QED
          BY <5>1, <5>2 DEF a, m
      <4>5. n = clock - StartAt(clock)
        BY <1>2, <4>2, <4>3, <4>4, WheelAssumption
      <4>6. ExpireTime[x] - clock = d - n /\ d - n \in 0..(DefaultSize - 1)
        BY <1>2, <1>4, <4>2, <4>3, <4>4, <4>5, WheelAssumption
      <4>7. (((IndexAt + n) % DefaultSize) + (d - n)) % DefaultSize = s
        <5> DEFINE a == IndexAt + n
                   b == d - n
        <5>1. a \in Int /\ b \in Int /\ a + b = IndexAt + d
          BY <4>2, <4>4
        <5> HIDE DEF a, b
        <5>2. ((a % DefaultSize) + b) % DefaultSize = (a + b) % DefaultSize
          BY <5>1, WheelAssumption, ModSum
        <5> QED
          BY <4>2, <5>1, <5>2 DEF a, b
      <4> HIDE DEF d, n
      <4> QED
        BY <1>1, <2>1, <4>6, <4>7 DEF Placed
    <3> QED
      BY <3>2, <3>3
  <2>3. SlotSound'
    BY <2>2, SlotSoundNext
  <2>4. UnusedEmpty'
    BY <1>2, <2>1 DEF UnusedEmpty
  <2> QED
    BY <2>3, <2>4 DEF WheelInv
<1> QED
  BY <1>3, <1>4

\* The invariant holds of an unused wheel.
LEMMA InitWheelInv == Init => WheelInv
BY InitTypeOK DEF Init, WheelInit, WheelInv, SlotSound, UnusedEmpty

\* Every step of the wheel keeps the invariant.
LEMMA NextWheelInv == WheelInv /\ [TimelyNext]_tvars => WheelInv'
<1> SUFFICES ASSUME WheelInv, [TimelyNext]_tvars
             PROVE  WheelInv'
  OBVIOUS
<1>1. TypeOK'
  BY NextTypeOK DEF WheelInv, TimelyNext, TakeOutInTime, Next
<1>2. ASSUME NEW i \in Item, Add(i)
      PROVE  WheelInv'
  BY <1>1, <1>2, AddKeepsWheelInv
<1>3. ASSUME NEW i \in Item, Cancel(i)
      PROVE  WheelInv'
  <2>1. /\ Wheel' = [s \in Slots |-> Excluding(Wheel[s], {i})]
        /\ UNCHANGED <<Start, Index, ExpireTime>>
    BY <1>3 DEF Cancel, RemoveFromWheel
  <2> QED
    BY <1>1, <2>1, RemoveKeepsWheelInv
<1>4. CASE TakeOutInTime
  BY <1>1, <1>4, TakeOutKeepsWheelInv DEF TakeOutInTime, TakeOut
<1>5. CASE ClockStep \/ UNCHANGED tvars
  <2>1. UNCHANGED <<Start, Index, Wheel, ExpireTime>>
    BY <1>5 DEF ClockStep, tvars, wheelVars
  <2> QED
    BY <1>1, <2>1 DEF WheelInv, SlotSound, UnusedEmpty, Slots
<1> QED
  BY <1>2, <1>3, <1>4, <1>5 DEF TimelyNext

\* The wheel's invariant holds as long as it is collected in time.
THEOREM WheelInvariance == TimelySpec => []WheelInv
<1> QED
  BY InitWheelInv, NextWheelInv, PTL DEF TimelySpec

\* As long as the wheel is collected in time, an item waits in one slot, once, in
\* that of its expiry and less than a turn ahead, also when the clock jumps over
\* the wheel or back: AddTimeOut, which reckons the slot, and TakeOutTimeout,
\* which moves Index and Start, never disagree.
THEOREM SlotsAreSound == TimelySpec => []SlotSound
<1>1. WheelInv => SlotSound
  BY DEF WheelInv
<1> QED
  BY <1>1, WheelInvariance, PTL

-----------------------------------------------------------------------------
(* The wheel is a timer *)

\* The list of a collection holds the items that are due by then and no
\* others, each once, the earliest expiry first.
LEMMA TakenOutElements ==
    ASSUME WheelInv, NEW now \in Int, InTime(now), ~ (now < StartAt(now))
    PROVE  LET f == TakenOut(now)
           IN  /\ Distinct(f)
               /\ \A x : Contains(f, x) <=> /\ \E s \in Slots : Contains(Wheel[s], x)
                                            /\ ExpireTime[x] <= now
               /\ \A i, j \in 1..Len(f) : i < j => ExpireTime[f[i]] <= ExpireTime[f[j]]
<1> DEFINE f == TakenOut(now)
           m == Passed(now)
           b == StartAt(now)
           w == [k \in 1..m |-> Wheel[Visited(k - 1)]]
<1>1. /\ b \in Int /\ m \in Int /\ m <= DefaultSize /\ m <= now - b + 1
      /\ m = now - b + 1 \/ m = DefaultSize
      /\ IndexAt \in Int
      /\ ~ NothingPassed(now)
  BY BeginsAt, PassedInTime DEF WheelInv
<1>2. m \in Nat /\ now >= b
  BY <1>1, WheelAssumption
<1>3. ASSUME NEW k \in 1..m
      PROVE  Visited(k - 1) \in Slots /\ Wheel[Visited(k - 1)] \in Seq(Item)
  <2>1. IndexAt + (k - 1) \in Int
    BY <1>1
  <2>2. Visited(k - 1) \in Slots
    BY <2>1, ReducedIsSlot DEF Visited
  <2> QED
    BY <2>2 DEF WheelInv, TypeOK
<1>4. f = FlattenSeq(w)
  BY <1>1 DEF TakenOut
<1>5. w \in Seq(Seq(Item)) /\ Len(w) = m /\ \A k \in 1..m : w[k] = Wheel[Visited(k - 1)]
  BY <1>2, <1>3
<1> HIDE DEF f, w, m, b
<1>6. PICK p, q : Joins(f, p, q, w, m)
  BY <1>4, <1>5, FlattenJoins
<1>7. ASSUME NEW j \in 1..Len(f)
      PROVE  /\ p[j] \in 1..m
             /\ q[j] \in 1..Len(Wheel[Visited(p[j] - 1)])
             /\ f[j] = Wheel[Visited(p[j] - 1)][q[j]]
             /\ Contains(Wheel[Visited(p[j] - 1)], f[j])
             /\ ExpireTime[f[j]] = b + (p[j] - 1)
  <2>1. p[j] \in 1..m
    BY <1>6 DEF Joins
  <2>2. q[j] \in 1..Len(Wheel[Visited(p[j] - 1)]) /\ f[j] = Wheel[Visited(p[j] - 1)][q[j]]
    BY <1>5, <1>6, <2>1 DEF Joins
  <2>3. Contains(Wheel[Visited(p[j] - 1)], f[j])
    BY <2>2 DEF Contains
  <2>4. p[j] - 1 \in 0..(DefaultSize - 1)
    BY <1>1, <1>2, <2>1, WheelAssumption
  <2>5. ExpireTime[f[j]] = b + (p[j] - 1)
    BY <1>3, <2>1, <2>3, <2>4, PlacedIsVisited DEF b
  <2> QED
    BY <2>1, <2>2, <2>3, <2>5
<1>8. ASSUME NEW i \in 1..Len(f), NEW j \in 1..Len(f), i < j
      PROVE  /\ f[i] # f[j]
             /\ ExpireTime[f[i]] <= ExpireTime[f[j]]
  <2>1. p[i] \in 1..m /\ p[j] \in 1..m /\ q[i] \in Nat /\ q[j] \in Nat
    BY <1>6, <1>7 DEF Joins
  <2>2. CASE p[i] < p[j]
    <3>1. b + (p[i] - 1) < b + (p[j] - 1)
      BY <1>1, <1>2, <2>1, <2>2
    <3>2. b + (p[i] - 1) # b + (p[j] - 1) /\ b + (p[i] - 1) <= b + (p[j] - 1)
      BY <1>1, <1>2, <2>1, <2>2
    <3>3. /\ ExpireTime[f[i]] = b + (p[i] - 1)
          /\ ExpireTime[f[j]] = b + (p[j] - 1)
      BY <1>7
    <3> QED
      BY <3>2, <3>3, Zenon
  <2>3. CASE p[i] = p[j] /\ q[i] < q[j]
    <3>1. Visited(p[i] - 1) \in Slots
      BY <1>3, <2>1
    <3>2. Distinct(Wheel[Visited(p[i] - 1)])
      BY <3>1, PlacedFromNow
    <3>3. f[i] # f[j]
      <4> DEFINE v == Wheel[Visited(p[i] - 1)]
      <4>1. /\ q[i] \in 1..Len(v) /\ f[i] = v[q[i]]
            /\ q[j] \in 1..Len(v) /\ f[j] = v[q[j]]
        BY <1>7, <2>3
      <4>2. q[i] # q[j]
        BY <2>1, <2>3
      <4>3. Distinct(v)
        BY <3>2
      <4> HIDE DEF v
      <4> QED
        BY <4>1, <4>2, <4>3 DEF Distinct
    <3>4. b + (p[i] - 1) <= b + (p[j] - 1)
      BY <1>1, <1>2, <2>1, <2>3
    <3> QED
      BY <1>7, <3>3, <3>4
  <2> QED
    BY <1>6, <1>8, <2>2, <2>3 DEF Joins
<1>9. Distinct(f)
  <2>1. Len(f) \in Nat
    BY <1>4, <1>5, FlattenJoins
  <2> SUFFICES ASSUME NEW i \in 1..Len(f), NEW j \in 1..Len(f), f[i] = f[j], i # j
               PROVE  FALSE
    BY DEF Distinct
  <2>2. i < j \/ j < i
    BY <2>1
  <2> QED
    BY <1>8, <2>2
<1>10. ASSUME NEW x, Contains(f, x)
       PROVE  /\ \E s \in Slots : Contains(Wheel[s], x)
              /\ ExpireTime[x] <= now
  <2>1. PICK j \in 1..Len(f) : f[j] = x
    BY <1>10 DEF Contains
  <2>2. p[j] \in 1..m /\ b + (p[j] - 1) <= now
    <3>1. p[j] \in 1..m
      BY <1>7
    <3> QED
      BY <3>1, <1>1, <1>2
  <2>3. Visited(p[j] - 1) \in Slots
    BY <1>3, <2>2
  <2> QED
    BY <1>7, <2>1, <2>2, <2>3
<1>11. ASSUME NEW s \in Slots, NEW x, Contains(Wheel[s], x), ExpireTime[x] <= now
       PROVE  Contains(f, x)
  <2> DEFINE d == ExpireTime[x] - b
  <2>1. ExpireTime[x] \in Int /\ d \in 0..(DefaultSize - 1)
    BY <1>11, PlacedFromNow DEF Placed, b
  <2>2. d \in 0..(m - 1) /\ ExpireTime[x] = b + d
    BY <1>1, <1>2, <1>11, <2>1, WheelAssumption
  <2> HIDE DEF d
  <2>3. s = Visited(d)
    BY <1>11, <2>1, <2>2, PlacedIsVisited DEF b
  <2>4. d + 1 \in 1..m /\ (d + 1) - 1 = d
    BY <1>2, <2>2
  <2>5. w[d + 1] = Wheel[s]
    BY <1>5, <2>3, <2>4
  <2>6. PICK k \in 1..Len(Wheel[s]) : Wheel[s][k] = x
    BY <1>11 DEF Contains
  <2>7. PICK j \in 1..Len(f) : p[j] = d + 1 /\ q[j] = k
    BY <1>6, <2>4, <2>5, <2>6 DEF Joins
  <2>8. f[j] = w[d + 1][k]
    BY <1>6, <2>7 DEF Joins
  <2> QED
    BY <2>5, <2>6, <2>8 DEF Contains
<1> QED
  BY <1>8, <1>9, <1>10, <1>11 DEF f

\* What TakeOutTimeout hands out leaves the wheel, and what it leaves is later.
LEMMA TakeOutTakes ==
    ASSUME WheelInv, TakeOutTimeout(clock), InTime(clock)
    PROVE  LET f == TakenOut(clock)
           IN  /\ f \in Seq(Item)
               /\ Distinct(f)
               /\ \A x : Contains(f, x) => x \in Item /\ InWheel(x) /\ ExpireTime[x] <= clock
               /\ \A x \in Item : InWheel(x)' <=> InWheel(x) /\ ~ Contains(f, x)
               /\ \A x \in Item : InWheel(x)' /\ clock >= StartAt(clock) => ExpireTime[x] > clock
<1> DEFINE f == TakenOut(clock)
<1>1. /\ clock \in Int /\ StartAt(clock) \in Int /\ TypeOK
      /\ NothingPassed(clock) <=> clock < StartAt(clock)
  <2>1. clock \in Int
    BY DEF WheelInv, TypeOK
  <2> QED
    BY <2>1, BeginsAt, PassedInTime DEF WheelInv
<1>2. f \in Seq(Item)
  BY <1>1, TakenOutType
<1>3. ASSUME NEW x
      PROVE  InWheel(x)' <=> \E r \in Slots : Contains(Wheel'[r], x)
  BY DEF InWheel, Slots
<1>4. CASE clock < StartAt(clock)
  <2>1. f = <<>> /\ Wheel' = Wheel
    BY <1>1, <1>4 DEF TakeOutTimeout, TakenOut
  <2>2. Distinct(f) /\ \A x : ~ Contains(f, x)
    BY <2>1 DEF Distinct, Contains
  <2>3. \A x \in Item : InWheel(x)' <=> InWheel(x)
    BY <1>3, <2>1 DEF InWheel
  <2>4. ~ (clock >= StartAt(clock))
    BY <1>1, <1>4
  <2> QED
    BY <1>2, <2>2, <2>3, <2>4
<1>5. CASE ~ (clock < StartAt(clock))
  <2>1. /\ Distinct(f)
        /\ \A x : Contains(f, x) <=> /\ \E s \in Slots : Contains(Wheel[s], x)
                                     /\ ExpireTime[x] <= clock
    BY <1>1, <1>5, TakenOutElements
  <2>2. ASSUME NEW x, \E s \in Slots : Contains(Wheel[s], x)
        PROVE  x \in Item /\ ExpireTime[x] \in Int
    BY <1>1, <2>2, PlacedFromNow
  <2>3. ASSUME NEW x, NEW r \in Slots
        PROVE  Contains(Wheel'[r], x) <=> Contains(Wheel[r], x) /\ ExpireTime[x] > clock
    <3>1. /\ Wheel'[r] = <<>> \/ Wheel'[r] = Wheel[r]
          /\ Contains(Wheel[r], x) => (Contains(Wheel'[r], x) <=> ExpireTime[x] > clock)
      BY <1>1, <1>5, TakeOutLeaves
    <3>2. ~ Contains(<<>>, x)
      BY DEF Contains
    <3> QED
      BY <3>1, <3>2
  <2>4. ASSUME NEW x \in Item
        PROVE  /\ InWheel(x)' <=> InWheel(x) /\ ~ Contains(f, x)
               /\ InWheel(x)' => ExpireTime[x] > clock
    <3>1. InWheel(x) => (ExpireTime[x] > clock <=> ~ (ExpireTime[x] <= clock))
      BY <1>1, <2>2 DEF InWheel
    <3> QED
      BY <1>3, <2>1, <2>3, <3>1 DEF InWheel
  <2>5. \A x : Contains(f, x) => x \in Item /\ InWheel(x) /\ ExpireTime[x] <= clock
    BY <2>1, <2>2 DEF InWheel
  <2> QED
    BY <1>2, <2>1, <2>4, <2>5
<1> QED
  BY <1>4, <1>5

\* The initial wheel is an initial timer.
LEMMA InitIsTimer == Init => T!Init
<1> SUFFICES ASSUME Init
             PROVE  T!Init
  OBVIOUS
<1>1. Waiting = {}
  BY DEF Init, WheelInit, Waiting, InWheel, Contains
<1> QED
  BY <1>1 DEF Init, WheelInit, T!Init

\* AddTimeOut is an offer of the item, and refuses what a timer refuses.
LEMMA AddIsOffer ==
    ASSUME WheelInv, NEW i \in Item, Add(i)
    PROVE  T!Offer(i, clock, ExpireTime'[i])
<1>1. PICK t \in Timeouts : AddTimeOut(i, clock, clock + t)
  BY DEF Add
<1> DEFINE e == clock + t
           s == (IndexAt + e - StartAt(clock)) % DefaultSize
<1>2. clock \in Int /\ e \in Int /\ StartAt(clock) \in Int /\ IndexAt \in Int
  <2>1. clock \in Int
    BY DEF WheelInv, TypeOK
  <2> QED
    BY <2>1, BeginsAt, WheelAssumption DEF WheelInv
<1>3. s \in Slots
  <2>1. IndexAt + e - StartAt(clock) \in Int
    BY <1>2
  <2> QED
    BY <2>1, ReducedIsSlot
<1>4. /\ Start' = StartAt(clock)
      /\ ExpireTime' = [ExpireTime EXCEPT ![i] = e]
      /\ Wheel' = IF Refuses(clock, e) THEN Wheel
                  ELSE [Wheel EXCEPT ![s] = Append(Wheel[s], i)]
      /\ TimeOut' = TimeOut
  BY <1>1 DEF AddTimeOut, Add
<1> HIDE DEF e, s
<1>5. Wheel \in [Slots -> Seq(Item)] /\ ExpireTime \in [Item -> Int]
  BY DEF WheelInv, TypeOK
<1>6. ExpireTime'[i] = e
  BY <1>4, <1>5
<1>7. T!Base(clock) = StartAt(clock)
  BY DEF T!Base, StartAt
<1>8. T!Accepts(clock, e) <=> ~ Refuses(clock, e)
  BY <1>2, <1>7, WheelAssumption DEF T!Accepts, Refuses
<1>9. i \notin Waiting
  BY DEF Add, Waiting
<1>10. CASE Refuses(clock, e)
  <2>1. Waiting' = Waiting
    BY <1>4, <1>10 DEF Waiting, InWheel, Slots
  <2> QED
    BY <1>4, <1>6, <1>7, <1>8, <1>9, <1>10, <2>1 DEF T!Offer
<1>11. CASE ~ Refuses(clock, e)
  <2>1. Waiting' = Waiting \cup {i}
    <3>1. AddTimeOut(i, clock, e) /\ e \in Int /\ clock \in Int
      BY <1>1, <1>2 DEF e
    <3>2. ASSUME NEW x \in Item
          PROVE  InWheel(x)' <=> InWheel(x) \/ x = i
      BY <1>11, <3>1, AddPuts
    <3> QED
      BY <3>2 DEF Waiting
  <2> QED
    BY <1>4, <1>6, <1>7, <1>8, <1>9, <1>11, <2>1 DEF T!Offer
<1> QED
  BY <1>10, <1>11

\* RemoveFromWheel is a withdrawal.
LEMMA CancelIsWithdraw ==
    ASSUME WheelInv, NEW i \in Item, Cancel(i)
    PROVE  T!Withdraw(i)
<1>1. /\ Start' = Start /\ ExpireTime' = ExpireTime /\ TimeOut' = TimeOut
      /\ \A s \in Slots : Wheel'[s] = Excluding(Wheel[s], {i})
      /\ i \in Waiting
  BY DEF Cancel, RemoveFromWheel, Waiting
<1>2. ASSUME NEW x \in Item
      PROVE  InWheel(x)' <=> InWheel(x) /\ x # i
  <2>1. InWheel(x)' <=> \E r \in Slots : Contains(Wheel'[r], x)
    BY DEF InWheel, Slots
  <2>2. ASSUME NEW r \in Slots
        PROVE  Contains(Wheel'[r], x) <=> Contains(Wheel[r], x) /\ x # i
    <3>1. Wheel[r] \in Seq(Item)
      BY DEF WheelInv, TypeOK
    <3> QED
      BY <1>1, <3>1, ExcludingElements
  <2> QED
    BY <2>1, <2>2 DEF InWheel
<1>3. Waiting' = Waiting \ {i}
  BY <1>2 DEF Waiting
<1> QED
  BY <1>1, <1>3 DEF T!Withdraw

\* TakeOutTimeout is a collection.
LEMMA TakeOutIsCollect ==
    ASSUME WheelInv, TakeOutInTime
    PROVE  T!Collect(clock)
<1>1. /\ TakeOutTimeout(clock) /\ InTime(clock)
      /\ ExpireTime' = ExpireTime /\ TimeOut' = TakenOut(clock)
  BY DEF TakeOutInTime, TakeOut, TakeOutTimeout
<1>2. /\ clock \in Int /\ ExpireTime \in [Item -> Int]
      /\ NothingPassed(clock) <=> clock < StartAt(clock)
  <2>1. clock \in Int /\ ExpireTime \in [Item -> Int]
    BY DEF WheelInv, TypeOK
  <2> QED
    BY <1>1, <2>1, PassedInTime DEF WheelInv
<1>3. T!Base(clock) = StartAt(clock)
  BY DEF T!Base, StartAt
<1>4. CASE clock < StartAt(clock)
  <2>1. TimeOut' = <<>> /\ Start' = Start /\ Wheel' = Wheel
    BY <1>1, <1>2, <1>4 DEF TakeOutTimeout, TakenOut
  <2>2. Waiting' = Waiting
    BY <2>1 DEF Waiting, InWheel, Slots
  <2> QED
    BY <1>1, <1>3, <1>4, <2>1, <2>2 DEF T!Collect, T!InExpiryOrder
<1>5. CASE ~ (clock < StartAt(clock))
  <2> DEFINE f == TimeOut'
  <2>1. Start' = clock
    BY <1>1, <1>2, <1>5 DEF TakeOutTimeout
  <2>2. /\ Distinct(f)
        /\ \A x : Contains(f, x) <=> /\ \E s \in Slots : Contains(Wheel[s], x)
                                     /\ ExpireTime[x] <= clock
        /\ \A i, j \in 1..Len(f) : i < j => ExpireTime[f[i]] <= ExpireTime[f[j]]
    BY <1>1, <1>2, <1>5, TakenOutElements
  <2>3. ASSUME NEW x
        PROVE  Contains(f, x) <=> x \in Waiting /\ ExpireTime[x] <= clock
    <3>1. (\E s \in Slots : Contains(Wheel[s], x)) => x \in Item
      <4>1. ASSUME NEW s \in Slots, Contains(Wheel[s], x)
            PROVE  x \in Item
        BY <1>2, <4>1, PlacedFromNow
      <4> QED
        BY <4>1
    <3> QED
      BY <2>2, <3>1 DEF Waiting, InWheel
  <2>4. {f[j] : j \in 1..Len(f)} = {x \in Waiting : ExpireTime[x] <= clock}
    BY <2>3 DEF Contains
  <2>5. \A x \in Item : InWheel(x)' <=> InWheel(x) /\ ~ Contains(f, x)
    BY <1>1, TakeOutTakes
  <2>6. Waiting' = {x \in Waiting : \A j \in 1..Len(f) : f[j] # x}
    BY <2>5 DEF Waiting, Contains
  <2>7. \A j, k \in 1..Len(f) : f[j] = f[k] => j = k
    BY <2>2 DEF Distinct
  <2>8. T!InExpiryOrder(TimeOut)'
    BY <1>1, <2>2 DEF T!InExpiryOrder
  <2> QED
    BY <1>1, <1>3, <1>5, <2>1, <2>4, <2>6, <2>7, <2>8 DEF T!Collect, T!InExpiryOrder
<1> QED
  BY <1>4, <1>5

\* Every step of the wheel is one of a timer, or the timer does not notice it.
LEMMA NextIsTimer == WheelInv /\ [TimelyNext]_tvars => [T!Next]_(T!timerVars)
<1> SUFFICES ASSUME WheelInv, [TimelyNext]_tvars
             PROVE  [T!Next]_(T!timerVars)
  OBVIOUS
<1>1. clock \in 1..MaxClock
  BY DEF WheelInv, TypeOK
<1>2. ASSUME NEW i \in Item, Add(i)
      PROVE  T!Next
  BY <1>1, <1>2, AddIsOffer DEF T!Next
<1>3. ASSUME NEW i \in Item, Cancel(i)
      PROVE  T!Next
  BY <1>3, CancelIsWithdraw DEF T!Next
<1>4. CASE TakeOutInTime
  BY <1>1, <1>4, TakeOutIsCollect DEF T!Next
<1>5. CASE ClockStep \/ UNCHANGED tvars
  <2>1. UNCHANGED <<Start, Wheel, ExpireTime, TimeOut>>
    BY <1>5 DEF ClockStep, tvars, wheelVars
  <2> QED
    BY <2>1 DEF T!timerVars, Waiting, InWheel, Slots
<1> QED
  BY <1>2, <1>3, <1>4, <1>5 DEF TimelyNext

\* The wheel implements the timer: as long as every collection comes less than
\* 2^32 ms after the last one - the distance is cut to an int -, an accepted item
\* is in the first collection at or after its expiry and in no earlier one, once,
\* the earliest expiry first, unless it is cancelled before.
THEOREM WheelIsTimer == TimelySpec => ImplementsTimers
<1>1. Init => T!Init
  BY InitIsTimer
<1>2. WheelInv /\ [TimelyNext]_tvars => [T!Next]_(T!timerVars)
  BY NextIsTimer
<1>3. TimelySpec => T!Spec
  BY <1>1, <1>2, WheelInvariance, PTL DEF TimelySpec, T!Spec
<1> QED
  BY <1>3 DEF ImplementsTimers

=============================================================================
